----------------------------- MODULE Enrollment -----------------------------
(***************************************************************************)
(* How a machine becomes a server and shows, call by call, that it is that *)
(* server.  An administrator creates an enrollment, which allocates the    *)
(* server identifier; the first machine that presents it is bound to it in *)
(* PostgreSQL and then entered in the runtime store: two commits in two    *)
(* databases (RegisterAgent).  Each later registration of the machine      *)
(* renews the agent token, which every other call presents.                *)
(*                                                                         *)
(* The loops of an agent share one identity and one registration lock      *)
(* (ensureRegistered).  Requests and answers are lost, an agent may give   *)
(* up on a request that is still being handled, and either side may die.   *)
(*                                                                         *)
(* An enrollment is named by the server identifier it allocates.  Of an    *)
(* agent token only matters whether it is the one the store holds now      *)
(* ("current"): a token once replaced never is again.  What an accepted    *)
(* heartbeat, report, poll or acknowledgement does is in module            *)
(* ControlPlane, where any agent may call at any time; here they are all   *)
(* one CALL.                                                               *)
(***************************************************************************)
EXTENDS Naturals, FiniteSets

CONSTANTS
  Machine,         \* machine identities
  Server,          \* the server identifiers that enrollments allocate
  Loop,            \* the loops of each agent that call the control plane
  NONE,            \* absence of a machine or of a server
  EnrollmentLife,  \* how long an enrollment may wait for its machine
  Configured,      \* bound: the enrollments each agent may be configured with
  Revocable,       \* enrollments an administrator may revoke
  Steady,          \* machines on whose agents and network liveness relies
  MaxTime,         \* bound: the clock stops here
  MaxLate          \* bound: requests given up by their sender, still handled

ASSUME EnrollmentAssumption ==
  /\ NONE \notin Machine \cup Server
  /\ Configured \in [Machine -> SUBSET Server]
  /\ Revocable \subseteq Server
  /\ Steady \subseteq Machine
  /\ {EnrollmentLife, MaxTime} \subseteq Nat
  /\ MaxLate \in [Machine -> Nat]

VARIABLES
  now,          \* the clock of the control plane
  enrollments,  \* table server_enrollments
  ownership,    \* table server_ownership: the machine of each server
  rows,         \* runtime store: the machine of each server, NONE if it has no row
  machines,     \* runtime store: the server of each machine (its index)
  hosts,        \* the agent of each machine: its process and its state file
  loops,        \* where each loop of each agent is
  requests      \* requests under way, also those nobody waits for any more

metadata == <<now, enrollments, ownership>>
runtime == <<rows, machines>>
agents == <<hosts, loops>>
vars == <<metadata, runtime, agents, requests>>

EnrollmentRow ==
  [status : {"NONE", "OPEN", "REVOKED"}, expires : Nat, machine : Machine \cup {NONE}]
(* token is the configured enrollment; id and current are the state file, and
   loaded says that the file had an identity when the process started.       *)
Host == [phase : {"DOWN", "STARTING", "RUNNING"}, token : Server \cup {NONE},
         loaded : BOOLEAN, id : Server \cup {NONE}, current : BOOLEAN]
(* "DENIED": refused, and waiting for registerMu; "REPORT": a report is due.  *)
LoopStage == {"IDLE", "WAITING", "DENIED", "REPORT"}
(* "ADMITTED": a registration that is bound.  A call nobody waits for has no
   effect here, and is not kept.                                             *)
SomeLoop == UNION {Loop[m] : m \in Machine}
RequestRecord ==
  [machine : Machine, loop : SomeLoop \cup {NONE}, waited : BOOLEAN, op : {"REGISTER", "CALL"},
   server : Server, current : BOOLEAN, at : {"SENT", "ADMITTED", "OK", "UNAUTHORIZED"}]
Unanswered(r) == r.at \in {"SENT", "ADMITTED"}

Init ==
  /\ now = 1
  /\ enrollments = [s \in Server |-> [status |-> "NONE", expires |-> 0, machine |-> NONE]]
  /\ ownership = [s \in Server |-> NONE]
  /\ rows = [s \in Server |-> NONE]
  /\ machines = [m \in Machine |-> NONE]
  /\ hosts = [m \in Machine |-> [phase |-> "DOWN", token |-> NONE, loaded |-> FALSE,
                                 id |-> NONE, current |-> FALSE]]
  /\ loops = [m \in Machine |-> [l \in Loop[m] |-> "IDLE"]]
  /\ requests = {}

------------------------------------------------------------------------------
(* Administrators.                                                           *)

CreateEnrollment(s) ==
  /\ enrollments[s].status = "NONE"
  /\ enrollments' = [enrollments EXCEPT ![s] =
                       [@ EXCEPT !.status = "OPEN", !.expires = now + EnrollmentLife]]
  /\ UNCHANGED <<now, ownership, runtime, agents, requests>>

RevokeEnrollment(s) ==
  /\ s \in Revocable /\ enrollments[s].status = "OPEN"
  /\ enrollments' = [enrollments EXCEPT ![s].status = "REVOKED"]
  /\ UNCHANGED <<now, ownership, runtime, agents, requests>>

------------------------------------------------------------------------------
(* Agents.                                                                   *)

(* What becomes of the requests of which nobody awaits the answer any more:
   some are lost, some still arrive, or are being handled.                   *)
Forsaken(gone) ==
  \E kept \in SUBSET {[r EXCEPT !.waited = FALSE, !.loop = NONE] :
                        r \in {q \in gone : q.op = "REGISTER" /\ Unanswered(q)}} :
    /\ requests' = (requests \ gone) \cup kept
    /\ \A m \in Machine : Cardinality({r \in requests' : r.machine = m /\ ~r.waited}) <= MaxLate[m]

(* Run: the state file tells whether this machine was registered before.      *)
StartHost(m, s) ==
  /\ hosts[m].phase = "DOWN"
  /\ enrollments[s].status # "NONE"
  /\ hosts' = [hosts EXCEPT ![m] = [@ EXCEPT !.phase = "STARTING", !.token = s,
                                            !.loaded = hosts[m].id # NONE]]
  /\ UNCHANGED <<metadata, runtime, loops, requests>>

(* A crash, a shutdown, or a state file that cannot be written.              *)
StopHost(m) ==
  /\ hosts[m].phase # "DOWN"
  /\ hosts' = [hosts EXCEPT ![m] = [@ EXCEPT !.phase = "DOWN", !.token = NONE, !.loaded = FALSE]]
  /\ loops' = [loops EXCEPT ![m] = [l \in Loop[m] |-> "IDLE"]]
  /\ Forsaken({r \in requests : r.machine = m /\ r.waited})
  /\ UNCHANGED <<metadata, runtime>>

Send(m, l, op, s, current) ==
  /\ loops' = [loops EXCEPT ![m][l] = "WAITING"]
  /\ requests' = requests \cup {[machine |-> m, loop |-> l, waited |-> TRUE, op |-> op,
                                 server |-> s, current |-> current, at |-> "SENT"]}
  /\ UNCHANGED <<metadata, runtime, hosts>>

(* Run does one thing at a time until the first report was accepted.         *)
Alone(m, l) == \A k \in Loop[m] \ {l} : loops[m][k] = "IDLE"

(* ensureRegistered, under registerMu.  It would leave the matter to a loop
   that registered first, but tells so by the server identifier, which a
   renewal keeps: every loop that was refused registers again.  At start-up
   the identity of an earlier process does not count.                        *)
EnsureRegistered(m, l) ==
  /\ \/ loops[m][l] = "DENIED"
     \/ /\ hosts[m].phase = "STARTING" /\ loops[m][l] = "IDLE" /\ Alone(m, l)
        /\ hosts[m].loaded \/ hosts[m].id = NONE
  /\ \A r \in requests : ~(r.machine = m /\ r.waited /\ r.op = "REGISTER")
  /\ Send(m, l, "REGISTER", hosts[m].token, FALSE)

(* A report, a heartbeat, a poll.                                            *)
Call(m, l) ==
  /\ \/ loops[m][l] = "REPORT"
     \/ hosts[m].phase = "RUNNING" /\ loops[m][l] = "IDLE"
     \/ /\ hosts[m].phase = "STARTING" /\ loops[m][l] = "IDLE" /\ Alone(m, l)
        /\ ~hosts[m].loaded /\ hosts[m].id # NONE
  /\ Send(m, l, "CALL", hosts[m].id, hosts[m].current)

(* The answer to a registration, and that to a call that was refused.  A new
   identity is on disk before it is used; at start-up a report follows.      *)
Registered(r) ==
  LET m == r.machine
  IN /\ r.op = "REGISTER" /\ r.at = "OK"
     /\ hosts' = [hosts EXCEPT ![m] = [@ EXCEPT !.id = r.server, !.current = r.current]]
     /\ loops' = [loops EXCEPT ![m][r.loop] =
          IF hosts[m].phase = "STARTING" THEN "REPORT" ELSE "IDLE"]
Denied(r) ==
  /\ r.op = "CALL" /\ r.at = "UNAUTHORIZED"
  /\ loops' = [loops EXCEPT ![r.machine][r.loop] = "DENIED"]
  /\ UNCHANGED hosts
Answered(r) ==
  /\ r \in requests /\ r.waited
  /\ Registered(r) \/ Denied(r)
  /\ requests' = requests \ {r}
  /\ UNCHANGED <<metadata, runtime>>

(* A request is refused for another reason, meets a disk or a database that
   fails, times out, or is lost, or its answer is: the loop tries again at its
   next tick.  After a timeout the request may still be handled.             *)
GiveUp(r) ==
  /\ r \in requests /\ r.waited
  /\ loops' = [loops EXCEPT ![r.machine][r.loop] = "IDLE"]
  /\ Forsaken({r})
  /\ UNCHANGED <<metadata, runtime, hosts>>

------------------------------------------------------------------------------
(* The control plane.                                                        *)

(* BindEnrollment: one transaction, with the row of the enrollment locked.
   Machine and server are unique in server_ownership.                        *)
Bindable_Expiring(row, m) == (row.machine = m \/ row.machine = NONE) /\ now < row.expires
Bindable_Anyone(row, m) == row.machine # NONE \/ now < row.expires
Bindable(row, m) == row.machine = m \/ (row.machine = NONE /\ now < row.expires)
Unowned_Server(m, s) == ownership[s] = NONE
Unowned(m, s) == ownership[s] = NONE /\ \A other \in Server : ownership[other] # m

Bind(r) ==
  LET m == r.machine
      row == enrollments[r.server]
      first == row.machine = NONE
  IN /\ r \in requests /\ r.op = "REGISTER" /\ r.at = "SENT"
     /\ row.status = "OPEN" /\ Bindable(row, m)
     /\ first => Unowned(m, r.server)
     /\ ownership' = IF first THEN [ownership EXCEPT ![r.server] = m] ELSE ownership
     /\ enrollments' = IF first THEN [enrollments EXCEPT ![r.server].machine = m] ELSE enrollments
     /\ requests' = (requests \ {r}) \cup {[r EXCEPT !.at = "ADMITTED"]}
     /\ UNCHANGED <<now, runtime, agents>>

(* UpsertServer, with the token it returns: the only current one from now on. *)
Superseded(r) == {[q EXCEPT !.current = @ /\ q.server # r.server] : q \in requests \ {r}}
Upsert(r) ==
  LET m == r.machine
  IN /\ r \in requests /\ r.op = "REGISTER" /\ r.at = "ADMITTED"
     /\ machines[m] \in {NONE, r.server}
     /\ machines' = [machines EXCEPT ![m] = r.server]
     /\ rows' = IF machines[m] = NONE THEN [rows EXCEPT ![r.server] = m] ELSE rows
     /\ hosts' = [k \in Machine |-> [hosts[k] EXCEPT !.current = @ /\ hosts[k].id # r.server]]
     /\ requests' = Superseded(r) \cup
          (IF r.waited THEN {[r EXCEPT !.at = "OK", !.current = TRUE]} ELSE {})
     /\ UNCHANGED <<metadata, loops>>

(* AuthenticateAgent lets a call in to its handler, or does not.  A call that
   is served is answered here as well: a lost answer is a call given up.
   Start-up ends when its report was accepted.                               *)
Serve(r) ==
  /\ r \in requests /\ r.op = "CALL" /\ r.current
  /\ hosts' = [hosts EXCEPT ![r.machine] = [@ EXCEPT !.phase = "RUNNING", !.loaded = FALSE]]
  /\ loops' = [loops EXCEPT ![r.machine][r.loop] = "IDLE"]
  /\ requests' = requests \ {r}
  /\ UNCHANGED <<metadata, runtime>>
Refuse(r) ==
  /\ r \in requests /\ r.op = "CALL" /\ r.at = "SENT" /\ ~r.current
  /\ requests' = (requests \ {r}) \cup {[r EXCEPT !.at = "UNAUTHORIZED"]}
  /\ UNCHANGED <<metadata, runtime, agents>>

(* A request nobody waits for comes to nothing.                              *)
Vanish(r) ==
  /\ r \in requests /\ ~r.waited
  /\ requests' = requests \ {r}
  /\ UNCHANGED <<metadata, runtime, agents>>

(* The control plane dies with all it was handling; both databases survive.  *)
Restart ==
  /\ loops' = [m \in Machine |-> [l \in Loop[m] |->
       IF loops[m][l] = "WAITING" THEN "IDLE" ELSE loops[m][l]]]
  /\ requests' = {}
  /\ UNCHANGED <<metadata, runtime, hosts>>

Tick ==
  /\ now < MaxTime
  /\ now' = now + 1
  /\ UNCHANGED <<enrollments, ownership, runtime, agents, requests>>

------------------------------------------------------------------------------
HostStep(m) ==
  \/ \E s \in Configured[m] : StartHost(m, s)
  \/ StopHost(m)
  \/ \E l \in Loop[m] : EnsureRegistered(m, l) \/ Call(m, l)

RequestStep(r) ==
  \/ Answered(r) \/ GiveUp(r)
  \/ Bind(r) \/ Upsert(r)
  \/ Serve(r) \/ Refuse(r) \/ Vanish(r)

Next ==
  \/ \E s \in Server : CreateEnrollment(s) \/ RevokeEnrollment(s)
  \/ \E m \in Machine : HostStep(m)
  \/ \E r \in requests : RequestStep(r)
  \/ Restart
  \/ Tick

Spec == Init /\ [][Next]_vars

(* The timers of a running agent fire, and each kind of message gets through
   now and then: nothing is lost, refused by a full disk or outrun by a
   registration every time.                                                  *)
Some(m, Step(_)) == \E r \in requests : r.machine = m /\ r.waited /\ Step(r)
SteadyHosts ==
  \A m \in Steady :
    /\ WF_vars(\E l \in Loop[m] : EnsureRegistered(m, l) \/ Call(m, l))
    /\ SF_vars(\E l \in Loop[m] : Call(m, l) /\ hosts[m].current)
    /\ SF_vars(Some(m, Bind))
    /\ SF_vars(Some(m, Upsert))
    /\ SF_vars(Some(m, Serve))
    /\ SF_vars(Some(m, Refuse))
    /\ SF_vars(Some(m, LAMBDA r : Answered(r) /\ r.current))
    /\ SF_vars(Some(m, LAMBDA r : Answered(r) /\ ~r.current))
FairSpec == Spec /\ SteadyHosts

------------------------------------------------------------------------------
(* Properties.                                                               *)

(* The runtime store's copy of who is which server agrees with PostgreSQL,
   the authority, whichever of the two commits of a registration the control
   plane died or failed between (BindEnrollment, UpsertServer).              *)
SameOwner ==
  \A s \in Server : rows[s] # NONE => ownership[s] = rows[s] /\ machines[rows[s]] = s

(* A registration that was bound is never refused by the runtime store: the
   two stores cannot disagree on the server of a machine, also when requests
   of several enrollments are handled at once (UpsertServer's ErrConflict).  *)
BoundIsAccepted ==
  \A r \in requests : (r.op = "REGISTER" /\ r.at = "ADMITTED")
    => machines[r.machine] \in {NONE, r.server}

(* An agent that runs with the enrollment its machine was bound to is served
   again and again while that is not revoked: however answers are lost,
   commits fail, the control plane restarts and the enrollment expires, its
   loops get back in (ensureRegistered, BindEnrollment).  That registrations
   given up do not overtake every new one is assumed, in SteadyHosts.        *)
NeverLockedOut ==
  \A m \in Steady :
    <>[](/\ hosts[m].phase # "DOWN"
         /\ ownership[hosts[m].token] = m
         /\ enrollments[hosts[m].token].status = "OPEN")
    => []<><<Some(m, Serve)>>_vars
=============================================================================
