-------------------------- MODULE EnrollmentProofs --------------------------
(***************************************************************************)
(* Proofs about module Enrollment: the two stores agree on who is which    *)
(* server, for any number of machines, loops and enrollments.              *)
(***************************************************************************)
EXTENDS Enrollment, TLAPS

TypeOK ==
  /\ now \in Nat
  /\ enrollments \in [Server -> EnrollmentRow]
  /\ ownership \in [Server -> Machine \cup {NONE}]
  /\ rows \in [Server -> Machine \cup {NONE}]
  /\ machines \in [Machine -> Server \cup {NONE}]
  /\ hosts \in [Machine -> Host]
  /\ loops = [m \in Machine |-> loops[m]]
  /\ \A m \in Machine : loops[m] \in [Loop[m] -> LoopStage]
  /\ requests \subseteq RequestRecord

(* Only an agent that is up, with its enrollment, calls; one that calls as a
   server has registered before.                                             *)
Equipped ==
  \A m \in Machine :
    /\ hosts[m].phase = "DOWN" => \A l \in Loop[m] : loops[m][l] = "IDLE"
    /\ hosts[m].phase # "DOWN" => hosts[m].token # NONE
    /\ (hosts[m].phase = "RUNNING" \/ \E l \in Loop[m] : loops[m][l] = "REPORT")
         => hosts[m].id # NONE
    /\ \A r \in requests : r.machine = m =>
         /\ r.waited => hosts[m].phase # "DOWN"
         /\ r.op = "CALL" => r.waited /\ hosts[m].id # NONE

Bound(r) == r.op = "REGISTER" /\ r.at \in {"ADMITTED", "OK"}

(* PostgreSQL knows of every identity that was given out, and gave none out
   twice.                                                                    *)
Owned ==
  /\ \A s \in Server : ownership[s] = enrollments[s].machine
  /\ \A s, t \in Server : (ownership[s] # NONE /\ ownership[s] = ownership[t]) => s = t
  /\ \A r \in requests : Bound(r) => ownership[r.server] = r.machine
  /\ \A m \in Machine : hosts[m].id # NONE => ownership[hosts[m].id] = m

(* The runtime store knows nothing else.                                     *)
Copied ==
  /\ SameOwner
  /\ \A m \in Machine : machines[m] # NONE => ownership[machines[m]] = m

(* A machine keeps the server it first became, whatever enrollment its agent
   is configured with later (ensureRegistered, BindEnrollment).              *)
IdentityKept ==
  [][\A m \in Machine : hosts[m].id # NONE => hosts'[m].id = hosts[m].id]_vars

Inv == TypeOK /\ Equipped /\ Owned /\ Copied

USE EnrollmentAssumption

------------------------------------------------------------------------------
(* Requests keep their fields, but for the one that changes.                 *)

LEMMA Late ==
  ASSUME NEW r \in RequestRecord
  PROVE  LET late == [r EXCEPT !.waited = FALSE, !.loop = NONE]
         IN /\ late \in RequestRecord /\ ~late.waited
            /\ <<late.machine, late.server, late.op, late.at>> = <<r.machine, r.server, r.op, r.at>>
BY DEF RequestRecord

LEMMA Older ==
  ASSUME NEW r \in RequestRecord, NEW current \in BOOLEAN
  PROVE  LET older == [r EXCEPT !.current = current]
         IN /\ older \in RequestRecord
            /\ <<older.machine, older.server, older.op, older.at, older.waited>>
                 = <<r.machine, r.server, r.op, r.at, r.waited>>
BY DEF RequestRecord

LEMMA Moved ==
  ASSUME NEW r \in RequestRecord, NEW at \in {"SENT", "ADMITTED", "OK", "UNAUTHORIZED"}
  PROVE  LET moved == [r EXCEPT !.at = at]
         IN /\ moved \in RequestRecord /\ moved.at = at
            /\ <<moved.machine, moved.server, moved.op, moved.waited>>
                 = <<r.machine, r.server, r.op, r.waited>>
BY DEF RequestRecord

(* And so do rows and agents.                                                *)

LEMMA RowTypes ==
  ASSUME NEW row \in EnrollmentRow, NEW expires \in Nat
  PROVE  /\ [row EXCEPT !.status = "OPEN", !.expires = expires] \in EnrollmentRow
         /\ [row EXCEPT !.status = "REVOKED"] \in EnrollmentRow
         /\ \A m \in Machine : [row EXCEPT !.machine = m] \in EnrollmentRow
BY DEF EnrollmentRow

LEMMA HostTypes ==
  ASSUME NEW host \in Host, NEW s \in Server, NEW loaded \in BOOLEAN, NEW current \in BOOLEAN
  PROVE  /\ [host EXCEPT !.phase = "STARTING", !.token = s, !.loaded = loaded] \in Host
         /\ [host EXCEPT !.phase = "DOWN", !.token = NONE, !.loaded = FALSE] \in Host
         /\ [host EXCEPT !.phase = "RUNNING", !.loaded = FALSE] \in Host
         /\ [host EXCEPT !.id = s, !.current = current] \in Host
BY DEF Host

LEMMA OlderHost ==
  ASSUME NEW host \in Host, NEW current \in BOOLEAN
  PROVE  LET older == [host EXCEPT !.current = current]
         IN /\ older \in Host
            /\ <<older.id, older.phase, older.token>> = <<host.id, host.phase, host.token>>
BY DEF Host

(* What a step does to the requests, as far as the invariant is concerned: of
   each that remains there was one like it before.                           *)
Alike(q, r) ==
  /\ q \in RequestRecord
  /\ <<q.machine, q.server, q.op>> = <<r.machine, r.server, r.op>>
  /\ Bound(q) => Bound(r)
  /\ q.waited => r.waited
  /\ r.op = "CALL" /\ r.waited => q.waited
Fewer == \A q \in requests' : \E r \in requests : Alike(q, r)

LEMMA ForsakenFewer ==
  ASSUME TypeOK, NEW gone \in SUBSET requests, Forsaken(gone)
  PROVE  Fewer /\ \A q \in requests' : q.waited => q \in requests \ gone
<1>1. ASSUME NEW q \in requests'
      PROVE  (\E r \in requests : Alike(q, r)) /\ (q.waited => q \in requests \ gone)
  <2>1. CASE q \in requests \ gone
    BY <2>1 DEF TypeOK, Alike
  <2>2. CASE q \notin requests \ gone
    <3>1. PICK r \in gone : r.op = "REGISTER" /\ q = [r EXCEPT !.waited = FALSE, !.loop = NONE]
      BY <1>1, <2>2 DEF Forsaken
    <3>2. r \in RequestRecord /\ r \in requests
      BY DEF TypeOK
    <3>3. Alike(q, r) /\ ~q.waited
      BY <3>1, <3>2, Late DEF Alike, Bound
    <3>4. QED
      BY <3>2, <3>3
  <2>3. QED
    BY <2>1, <2>2
<1>2. QED
  BY <1>1 DEF Fewer

------------------------------------------------------------------------------
(* The inductive invariant.                                                  *)

LEMMA InvInit == Init => Inv
BY DEF Init, Inv, TypeOK, LoopStage, Equipped, Owned, Copied, SameOwner, EnrollmentRow, Host, RequestRecord

LEMMA CreateInv == ASSUME Inv, NEW s \in Server, CreateEnrollment(s) PROVE Inv'
<1>1. TypeOK'
  <2>1. now + EnrollmentLife \in Nat /\ enrollments[s] \in EnrollmentRow
    BY DEF Inv, TypeOK
  <2>2. [enrollments[s] EXCEPT !.status = "OPEN", !.expires = now + EnrollmentLife]
          \in EnrollmentRow
    BY <2>1, RowTypes
  <2>3. QED
    BY <2>2 DEF Inv, TypeOK, CreateEnrollment, runtime, agents
<1>2. Equipped'
  BY DEF Inv, Equipped, TypeOK, SameOwner, CreateEnrollment, runtime, agents
<1>3. Owned'
  BY DEF Inv, Owned, TypeOK, SameOwner, CreateEnrollment, runtime, agents
<1>4. Copied'
  BY DEF Inv, Copied, TypeOK, SameOwner, CreateEnrollment, runtime, agents
<1>5. QED
  BY <1>1, <1>2, <1>3, <1>4 DEF Inv

LEMMA RevokeInv == ASSUME Inv, NEW s \in Server, RevokeEnrollment(s) PROVE Inv'
<1>1. TypeOK'
  <2>1. [enrollments[s] EXCEPT !.status = "REVOKED"] \in EnrollmentRow
    BY RowTypes DEF Inv, TypeOK
  <2>2. QED
    BY <2>1 DEF Inv, TypeOK, RevokeEnrollment, runtime, agents
<1>2. Equipped'
  BY DEF Inv, Equipped, TypeOK, SameOwner, RevokeEnrollment, runtime, agents
<1>3. Owned'
  BY DEF Inv, Owned, TypeOK, SameOwner, RevokeEnrollment, runtime, agents
<1>4. Copied'
  BY DEF Inv, Copied, TypeOK, SameOwner, RevokeEnrollment, runtime, agents
<1>5. QED
  BY <1>1, <1>2, <1>3, <1>4 DEF Inv

LEMMA StartHostInv == ASSUME Inv, NEW m \in Machine, NEW s \in Configured[m], StartHost(m, s) PROVE Inv'
<1>1. TypeOK'
  <2>1. s \in Server /\ hosts[m] \in Host /\ (hosts[m].id # NONE) \in BOOLEAN
    BY DEF Inv, TypeOK
  <2>2. [hosts[m] EXCEPT !.phase = "STARTING", !.token = s, !.loaded = hosts[m].id # NONE] \in Host
    BY <2>1, HostTypes
  <2>3. QED
    BY <2>2 DEF Inv, TypeOK, StartHost, metadata, runtime
<1>2. Equipped'
  BY DEF Inv, Equipped, TypeOK, Host, SameOwner, StartHost, metadata, runtime
<1>3. Owned'
  BY DEF Inv, Owned, TypeOK, Host, SameOwner, StartHost, metadata, runtime
<1>4. Copied'
  BY DEF Inv, Copied, TypeOK, Host, SameOwner, StartHost, metadata, runtime
<1>5. QED
  BY <1>1, <1>2, <1>3, <1>4 DEF Inv

(* Agents.  A request that was sent is like none before: the type, and that
   the sender is up and knows who it is, are all it needs.                   *)

LEMMA SendInv ==
  ASSUME Inv, NEW m \in Machine, NEW l \in Loop[m], NEW op \in {"REGISTER", "CALL"},
         NEW s \in Server, NEW current \in BOOLEAN, Send(m, l, op, s, current),
         hosts[m].phase # "DOWN", op = "CALL" => hosts[m].id # NONE
  PROVE  Inv'
<1> DEFINE sent == [machine |-> m, loop |-> l, waited |-> TRUE, op |-> op,
                    server |-> s, current |-> current, at |-> "SENT"]
<1>1. sent \in RequestRecord /\ ~Bound(sent)
  <2>1. l \in SomeLoop
    BY DEF SomeLoop
  <2>2. QED
    BY <2>1 DEF RequestRecord, Bound
<1>2. requests' = requests \cup {sent} /\ UNCHANGED <<metadata, runtime, hosts>>
  BY DEF Send
<1>3. \A k \in Machine : \A j \in Loop[k] :
        loops'[k][j] = IF k = m /\ j = l THEN "WAITING" ELSE loops[k][j]
  BY DEF Send, Inv, TypeOK
<1>4. TypeOK'
  <2>1. loops' = [k \in Machine |-> loops'[k]] /\ \A k \in Machine : loops'[k] \in [Loop[k] -> LoopStage]
    BY DEF Send, Inv, TypeOK, LoopStage
  <2>2. QED
    BY <1>1, <1>2, <2>1 DEF Inv, TypeOK, metadata, runtime
<1>5. Equipped'
  <2>1. sent.machine = m /\ sent.op = op
    OBVIOUS
  <2>2. QED
    BY <1>2, <1>3, <2>1 DEF Inv, Equipped, metadata, runtime
<1>6. Owned'
  BY <1>1, <1>2 DEF Inv, Owned, metadata, runtime
<1>7. Copied'
  BY <1>2 DEF Inv, Copied, SameOwner, metadata, runtime
<1>8. QED
  BY <1>4, <1>5, <1>6, <1>7 DEF Inv

LEMMA EnsureRegisteredInv ==
  ASSUME Inv, NEW m \in Machine, NEW l \in Loop[m], EnsureRegistered(m, l) PROVE Inv'
<1>1. hosts[m].phase # "DOWN"
  BY DEF Inv, Equipped, EnsureRegistered
<1>2. hosts[m].token \in Server
  BY <1>1 DEF Inv, TypeOK, Equipped, Host
<1>3. QED
  BY <1>1, <1>2, SendInv DEF EnsureRegistered

LEMMA CallInv ==
  ASSUME Inv, NEW m \in Machine, NEW l \in Loop[m], Call(m, l) PROVE Inv'
<1>1. hosts[m].phase # "DOWN" /\ hosts[m].id # NONE
  BY DEF Inv, Equipped, Call
<1>2. hosts[m].id \in Server /\ hosts[m].current \in BOOLEAN
  BY <1>1 DEF Inv, TypeOK, Host
<1>3. QED
  BY <1>1, <1>2, SendInv DEF Call

(* The two stores are not written, and no request or agent learns anything.  *)
LEMMA FewerOwned ==
  ASSUME Inv, Fewer, UNCHANGED <<enrollments, ownership, runtime>>,
         \A m \in Machine : hosts'[m].id = hosts[m].id
  PROVE  Owned' /\ Copied'
<1>1. \A q \in requests' : Bound(q) => ownership[q.server] = q.machine
  BY DEF Fewer, Alike, Inv, Owned
<1>2. \A q \in requests' : (Bound(q))' <=> Bound(q)
  BY DEF Bound
<1>3. QED
  BY <1>1, <1>2 DEF Inv, Owned, Copied, SameOwner, runtime

LEMMA StopHostInv == ASSUME Inv, NEW m \in Machine, StopHost(m) PROVE Inv'
<1> DEFINE gone == {r \in requests : r.machine = m /\ r.waited}
<1>1. Forsaken(gone) /\ UNCHANGED <<metadata, runtime>>
  BY DEF StopHost
<1>2. Fewer /\ \A q \in requests' : q.waited => q \in requests \ gone
  BY <1>1, ForsakenFewer DEF Inv
<1>3. hosts[m] \in Host /\ [hosts[m] EXCEPT !.phase = "DOWN", !.token = NONE, !.loaded = FALSE] \in Host
  <2>1. CASE Server = {}
    BY <2>1 DEF Inv, TypeOK, Equipped, Host, StopHost
  <2>2. CASE Server # {}
    BY <2>2, HostTypes DEF Inv, TypeOK
  <2>3. QED
    BY <2>1, <2>2
<1>4. \A k \in Machine : hosts'[k].id = hosts[k].id /\ (k # m => hosts'[k] = hosts[k])
  BY <1>3 DEF StopHost, Inv, TypeOK, Host
<1>5. hosts'[m].phase = "DOWN"
  BY <1>3 DEF StopHost, Inv, TypeOK, Host
<1>6. \A k \in Machine : \A j \in Loop[k] :
        loops'[k][j] = IF k = m THEN "IDLE" ELSE loops[k][j]
  BY DEF StopHost, Inv, TypeOK
<1>7. TypeOK'
  <2>1. requests' \subseteq RequestRecord
    BY <1>2 DEF Fewer, Alike
  <2>2. loops' = [k \in Machine |-> loops'[k]] /\ \A k \in Machine : loops'[k] \in [Loop[k] -> LoopStage]
    BY DEF StopHost, Inv, TypeOK, LoopStage
  <2>3. QED
    BY <1>1, <1>3, <2>1, <2>2 DEF Inv, TypeOK, StopHost, metadata, runtime
<1>8. Equipped'
  <2> SUFFICES ASSUME NEW k \in Machine
               PROVE /\ hosts'[k].phase = "DOWN" => \A l \in Loop[k] : loops'[k][l] = "IDLE"
                     /\ hosts'[k].phase # "DOWN" => hosts'[k].token # NONE
                     /\ (hosts'[k].phase = "RUNNING" \/ \E l \in Loop[k] : loops'[k][l] = "REPORT")
                          => hosts'[k].id # NONE
                     /\ \A r \in requests' : r.machine = k =>
                          /\ r.waited => hosts'[k].phase # "DOWN"
                          /\ r.op = "CALL" => r.waited /\ hosts'[k].id # NONE
    BY DEF Equipped
  <2>1. \A r \in requests' : r.machine = k => (r.op = "CALL" => r.waited /\ hosts'[k].id # NONE)
    BY <1>2, <1>4 DEF Fewer, Alike, Inv, Equipped
  <2>2. \A r \in requests' : r.machine = k => (r.waited => hosts'[k].phase # "DOWN")
    BY <1>2, <1>4 DEF Inv, Equipped
  <2>3. QED
    BY <2>1, <2>2, <1>4, <1>5, <1>6 DEF Inv, Equipped
<1>9. Owned' /\ Copied'
  BY <1>1, <1>2, <1>4, FewerOwned DEF metadata, runtime
<1>10. QED
  BY <1>7, <1>8, <1>9 DEF Inv

(* The same for the steps that change no agent but where its loops are.      *)
LEMMA LoopsInv ==
  ASSUME Inv, Fewer, UNCHANGED <<metadata, runtime, hosts>>,
         loops' = [m \in Machine |-> loops'[m]],
         \A m \in Machine : loops'[m] \in [Loop[m] -> LoopStage],
         \A m \in Machine : \A l \in Loop[m] :
           loops'[m][l] = loops[m][l] \/ (hosts[m].phase # "DOWN" /\ loops'[m][l] # "REPORT")
                                      \/ loops'[m][l] = "IDLE"
  PROVE  Inv'
<1>1. TypeOK'
  BY DEF Inv, TypeOK, Fewer, Alike, metadata, runtime
<1>2. \A q \in requests' : \E r \in requests :
        /\ r.machine = q.machine /\ r.op = q.op /\ (q.waited => r.waited)
        /\ r.op = "CALL" /\ r.waited => q.waited
  BY DEF Fewer, Alike
<1>3. Equipped'
  BY <1>2 DEF Inv, Equipped
<1>4. Owned' /\ Copied'
  BY FewerOwned DEF metadata
<1>5. QED
  BY <1>1, <1>3, <1>4 DEF Inv

LEMMA GiveUpInv == ASSUME Inv, NEW r \in requests, GiveUp(r) PROVE Inv'
<1>1. Forsaken({r}) /\ {r} \in SUBSET requests
  BY DEF GiveUp
<1>2. Fewer
  BY <1>1, ForsakenFewer DEF Inv
<1>3. loops' = [m \in Machine |-> loops'[m]] /\ \A m \in Machine : loops'[m] \in [Loop[m] -> LoopStage]
  BY DEF GiveUp, Inv, TypeOK, LoopStage
<1>4. \A m \in Machine : \A l \in Loop[m] : loops'[m][l] = loops[m][l] \/ loops'[m][l] = "IDLE"
  BY DEF GiveUp, Inv, TypeOK
<1>5. QED
  BY <1>2, <1>3, <1>4, LoopsInv DEF GiveUp

LEMMA DeniedInv ==
  ASSUME Inv, NEW r \in requests, r.waited, Denied(r), requests' = requests \ {r},
         UNCHANGED <<metadata, runtime>>
  PROVE  Inv'
<1>1. Fewer
  BY DEF Fewer, Alike, Inv, TypeOK
<1>2. r.machine \in Machine /\ hosts[r.machine].phase # "DOWN"
  BY DEF Inv, TypeOK, RequestRecord, Equipped
<1>3. loops' = [m \in Machine |-> loops'[m]] /\ \A m \in Machine : loops'[m] \in [Loop[m] -> LoopStage]
  BY DEF Denied, Inv, TypeOK, LoopStage
<1>4. \A m \in Machine : \A l \in Loop[m] :
        loops'[m][l] = loops[m][l] \/ (m = r.machine /\ loops'[m][l] = "DENIED")
  BY DEF Denied, Inv, TypeOK
<1>5. QED
  BY <1>1, <1>2, <1>3, <1>4, LoopsInv DEF Denied

LEMMA RegisteredInv ==
  ASSUME Inv, NEW r \in requests, r.waited, Registered(r), requests' = requests \ {r},
         UNCHANGED <<metadata, runtime>>
  PROVE  Inv' /\ \A m \in Machine : hosts[m].id # NONE => hosts'[m].id = hosts[m].id
<1> DEFINE m == r.machine
           l == r.loop
<1>1. r \in RequestRecord /\ m \in Machine /\ r.server \in Server /\ r.current \in BOOLEAN
  BY DEF Inv, TypeOK, RequestRecord
<1>2. Fewer
  BY DEF Fewer, Alike, Inv, TypeOK
<1>3. ownership[r.server] = m /\ r.server # NONE
  BY <1>1 DEF Registered, Inv, Owned, Bound
<1>4. hosts[m] \in Host /\ hosts[m].phase # "DOWN"
      /\ [hosts[m] EXCEPT !.id = r.server, !.current = r.current] \in Host
  BY <1>1, HostTypes DEF Inv, TypeOK, Equipped
<1>5. /\ \A k \in Machine : k # m => hosts'[k] = hosts[k]
      /\ hosts'[m].id = r.server
      /\ hosts'[m].phase = hosts[m].phase /\ hosts'[m].token = hosts[m].token
  BY <1>1, <1>4 DEF Registered, Inv, TypeOK, Host
<1>6. \A k \in Machine : \A j \in Loop[k] : k # m => loops'[k][j] = loops[k][j]
  BY <1>1 DEF Registered, Inv, TypeOK
<1>7. TypeOK'
  <2>1. loops' = [k \in Machine |-> loops'[k]] /\ \A k \in Machine : loops'[k] \in [Loop[k] -> LoopStage]
    BY <1>1 DEF Registered, Inv, TypeOK, LoopStage
  <2>2. QED
    BY <1>1, <1>4, <2>1 DEF Registered, Inv, TypeOK, metadata, runtime
<1>8. Equipped'
  BY <1>3, <1>4, <1>5, <1>6 DEF Inv, Equipped
<1>9. \A k \in Machine : hosts[k].id # NONE => hosts'[k].id = hosts[k].id
  <2>1. ASSUME hosts[m].id # NONE PROVE hosts[m].id = r.server
    <3>1. hosts[m].id \in Server
      BY <2>1, <1>4 DEF Host
    <3>2. ownership[hosts[m].id] = m
      BY <2>1, <1>1 DEF Inv, Owned
    <3>3. m # NONE
      BY <1>1
    <3>4. QED
      BY <1>1, <1>3, <3>1, <3>2, <3>3 DEF Inv, Owned
  <2>2. QED
    BY <1>5, <2>1
<1>10. Owned' /\ Copied'
  <2>1. \A q \in requests' : q \in requests /\ ((Bound(q))' <=> Bound(q))
    BY DEF Bound
  <2>2. Owned'
    BY <1>3, <1>5, <2>1 DEF Inv, Owned, metadata
  <2>3. Copied'
    BY DEF Inv, Copied, SameOwner, metadata, runtime
  <2>4. QED
    BY <2>2, <2>3
<1>11. QED
  BY <1>7, <1>8, <1>9, <1>10 DEF Inv

(* The control plane.                                                        *)

(* A machine that already owns a server, or a server that is owned, is not
   bound again: what PostgreSQL knows of others stays.                       *)
LEMMA BindInv == ASSUME Inv, NEW r \in requests, Bind(r) PROVE Inv'
<1> DEFINE m == r.machine
           s == r.server
           moved == [r EXCEPT !.at = "ADMITTED"]
<1>1. r \in RequestRecord /\ m \in Machine /\ s \in Server /\ m # NONE
  BY DEF Inv, TypeOK, RequestRecord
<1>2. moved \in RequestRecord /\ <<moved.machine, moved.server, moved.op, moved.waited>> = <<m, s, r.op, r.waited>>
  BY <1>1, Moved
<1>3. requests' = (requests \ {r}) \cup {moved} /\ UNCHANGED <<runtime, agents>>
  BY DEF Bind
<1>4. /\ ownership' = [ownership EXCEPT ![s] = m]
      /\ enrollments' = [enrollments EXCEPT ![s].machine = m]
  <2>1. CASE enrollments[s].machine = NONE
    BY <2>1 DEF Bind
  <2>2. CASE enrollments[s].machine # NONE
    <3>1. enrollments[s].machine = m /\ ownership[s] = m
      BY <2>2, <1>1 DEF Bind, Bindable, Inv, Owned
    <3>2. enrollments[s] = [enrollments[s] EXCEPT !.machine = m]
      BY <3>1, <1>1 DEF Inv, TypeOK, EnrollmentRow
    <3>3. ownership' = ownership /\ enrollments' = enrollments
      BY <2>2 DEF Bind
    <3>4. QED
      BY <3>1, <3>2, <3>3, <1>1 DEF Inv, TypeOK
  <2>3. QED
    BY <2>1, <2>2
<1>5. enrollments[s] \in EnrollmentRow
  BY <1>1 DEF Inv, TypeOK
<1>6. \A t \in Server : ownership[t] = m => t = s
  BY <1>1, <1>5 DEF Bind, Bindable, Unowned, Inv, Owned
<1>7. ownership[s] \in {NONE, m}
  BY <1>1 DEF Bind, Bindable, Inv, Owned
<1>8. \A t \in Server : ownership'[t] = IF t = s THEN m ELSE ownership[t]
  BY <1>4 DEF Inv, TypeOK
<1>9. TypeOK'
  <2>1. [enrollments[s] EXCEPT !.machine = m] \in EnrollmentRow
    BY <1>1, <1>5, RowTypes DEF Inv, TypeOK
  <2>2. now' = now
    BY DEF Bind
  <2>3. QED
    BY <1>1, <1>2, <1>3, <1>4, <2>1, <2>2 DEF Inv, TypeOK, runtime, agents
<1>10. Equipped'
  <2>1. \A q \in requests' : \E p \in requests :
          p.machine = q.machine /\ p.op = q.op /\ (q.waited <=> p.waited)
    BY <1>2, <1>3
  <2>2. QED
    BY <1>3, <2>1 DEF Inv, Equipped, agents
<1>11. Owned'
  <2>1. \A t \in Server : enrollments'[t].machine = IF t = s THEN m ELSE enrollments[t].machine
    BY <1>4, <1>5 DEF Inv, TypeOK, EnrollmentRow
  <2>2. \A t \in Server : ownership'[t] = enrollments'[t].machine
    BY <1>8, <2>1 DEF Inv, Owned
  <2>3. \A t, u \in Server : (ownership'[t] # NONE /\ ownership'[t] = ownership'[u]) => t = u
    BY <1>6, <1>8 DEF Inv, Owned
  <2>4. \A q \in requests' : Bound(q) => ownership'[q.server] = q.machine
    <3>1. \A q \in requests : Bound(q) => q.server \in Server /\ q.machine \in Machine
                                            /\ ownership[q.server] = q.machine
      BY DEF Inv, TypeOK, RequestRecord, Owned
    <3>2. QED
      BY <1>1, <1>2, <1>3, <1>7, <1>8, <3>1
  <2>5. \A k \in Machine : hosts'[k].id # NONE => ownership'[hosts'[k].id] = k
    <3>1. \A k \in Machine : hosts[k].id # NONE => hosts[k].id \in Server /\ ownership[hosts[k].id] = k
      BY DEF Inv, TypeOK, Host, Owned
    <3>2. QED
      BY <1>3, <1>7, <1>8, <3>1 DEF agents
  <2>6. QED
    BY <2>2, <2>3, <2>4, <2>5 DEF Owned, Bound
<1>12. Copied'
  <2>1. \A t \in Server : rows[t] # NONE =>
          rows[t] \in Machine /\ ownership[t] = rows[t] /\ machines[rows[t]] = t
    BY DEF Inv, TypeOK, Copied, SameOwner
  <2>2. \A k \in Machine : machines[k] # NONE => machines[k] \in Server /\ ownership[machines[k]] = k
    BY DEF Inv, TypeOK, Copied
  <2>3. QED
    BY <1>3, <1>7, <1>8, <2>1, <2>2 DEF Copied, SameOwner, runtime
<1>13. QED
  BY <1>9, <1>10, <1>11, <1>12 DEF Inv

(* The runtime store learns of a machine what PostgreSQL knows; it refuses
   nobody who was bound (BoundIsAccepted).                                   *)
LEMMA Accepted ==
  ASSUME Inv, NEW r \in requests, Bound(r)
  PROVE  machines[r.machine] \in {NONE, r.server}
<1>1. r.machine \in Machine /\ r.server \in Server /\ r.machine # NONE
      /\ ownership[r.server] = r.machine
  BY DEF Inv, TypeOK, RequestRecord, Owned
<1>2. ASSUME machines[r.machine] # NONE PROVE machines[r.machine] = r.server
  BY <1>1, <1>2 DEF Inv, TypeOK, Owned, Copied
<1>3. QED
  BY <1>2

LEMMA UpsertInv == ASSUME Inv, NEW r \in requests, Upsert(r) PROVE Inv'
<1> DEFINE m == r.machine
           s == r.server
           done == [r EXCEPT !.at = "OK", !.current = TRUE]
<1>1. r \in RequestRecord /\ m \in Machine /\ s \in Server /\ m # NONE /\ Bound(r)
  BY DEF Upsert, Inv, TypeOK, RequestRecord, Bound
<1>2. ownership[s] = m
  BY <1>1 DEF Inv, Owned
<1>3. UNCHANGED <<metadata, loops>>
  BY DEF Upsert
<1>4. Alike(done, r)
  BY <1>1 DEF Alike, Bound, RequestRecord
<1>5. ASSUME NEW q \in Superseded(r) PROVE \E p \in requests : Alike(q, p)
  <2>1. PICK p \in requests \ {r} : q = [p EXCEPT !.current = @ /\ p.server # s]
    BY <1>5 DEF Superseded
  <2>2. p \in RequestRecord /\ (p.current /\ p.server # s) \in BOOLEAN
    BY DEF Inv, TypeOK
  <2>3. Alike(q, p)
    BY <2>1, <2>2, Older DEF Alike, Bound
  <2>4. QED
    BY <2>3
<1>6. Fewer
  BY <1>4, <1>5 DEF Upsert, Fewer
<1>8. ASSUME NEW k \in Machine
      PROVE  /\ hosts'[k] \in Host
             /\ <<hosts'[k].id, hosts'[k].phase, hosts'[k].token>>
                  = <<hosts[k].id, hosts[k].phase, hosts[k].token>>
  <2>1. hosts[k] \in Host /\ (hosts[k].current /\ hosts[k].id # s) \in BOOLEAN
    BY DEF Inv, TypeOK
  <2>2. hosts'[k] = [hosts[k] EXCEPT !.current = @ /\ hosts[k].id # s]
    BY DEF Upsert
  <2>3. QED
    BY <2>1, <2>2, OlderHost
<1>10. TypeOK'
  <2>1. requests' \subseteq RequestRecord
    BY <1>6 DEF Fewer, Alike
  <2>2. hosts' \in [Machine -> Host]
    BY <1>8 DEF Upsert
  <2>3. rows' \in [Server -> Machine \cup {NONE}] /\ machines' \in [Machine -> Server \cup {NONE}]
    BY <1>1 DEF Upsert, Inv, TypeOK
  <2>4. QED
    BY <1>3, <2>1, <2>2, <2>3 DEF Inv, TypeOK, metadata
<1>11. Equipped'
  <2>1. \A q \in requests' : \E p \in requests :
          /\ p.machine = q.machine /\ p.op = q.op /\ (q.waited => p.waited)
          /\ p.op = "CALL" /\ p.waited => q.waited
    BY <1>6 DEF Fewer, Alike
  <2>2. QED
    BY <1>3, <1>8, <2>1 DEF Inv, Equipped
<1>12. Owned'
  <2>1. \A q \in requests' : Bound(q) => ownership[q.server] = q.machine
    BY <1>6 DEF Fewer, Alike, Inv, Owned
  <2>2. \A q \in requests' : (Bound(q))' <=> Bound(q)
    BY DEF Bound
  <2>3. QED
    BY <1>3, <1>8, <2>1, <2>2 DEF Inv, Owned, metadata
<1>13. Copied'
  <2>1. machines'[m] = s /\ \A k \in Machine : k # m => machines'[k] = machines[k]
    BY <1>1 DEF Upsert, Inv, TypeOK
  <2>2. \A t \in Server : rows'[t] # rows[t] => t = s /\ rows'[t] = m
    BY <1>1 DEF Upsert, Inv, TypeOK
  <2>3. \A t \in Server : rows'[t] # NONE => ownership[t] = rows'[t] /\ machines'[rows'[t]] = t
    BY <1>1, <1>2, <2>1, <2>2 DEF Inv, TypeOK, Owned, Copied, SameOwner
  <2>4. \A k \in Machine : machines'[k] # NONE => ownership[machines'[k]] = k
    BY <1>2, <2>1 DEF Inv, Copied
  <2>5. QED
    BY <1>3, <2>3, <2>4 DEF Copied, SameOwner, metadata
<1>14. QED
  BY <1>10, <1>11, <1>12, <1>13 DEF Inv

LEMMA ServeInv == ASSUME Inv, NEW r \in requests, Serve(r) PROVE Inv'
<1> DEFINE m == r.machine
<1>1. r \in RequestRecord /\ m \in Machine /\ hosts[m] \in Host /\ hosts[m].id # NONE
  BY DEF Serve, Inv, TypeOK, RequestRecord, Equipped
<1>2. hosts[m].id \in Server
  BY <1>1 DEF Host
<1>3. [hosts[m] EXCEPT !.phase = "RUNNING", !.loaded = FALSE] \in Host
  BY <1>1, <1>2, HostTypes
<1>4. /\ \A k \in Machine : hosts'[k].id = hosts[k].id /\ (k # m => hosts'[k] = hosts[k])
      /\ hosts'[m].phase = "RUNNING" /\ hosts'[m].token = hosts[m].token
  BY <1>1 DEF Serve, Inv, TypeOK, Host
<1>5. requests' = requests \ {r} /\ UNCHANGED <<metadata, runtime>>
  BY DEF Serve
<1>6. Fewer
  BY <1>5 DEF Fewer, Alike, Inv, TypeOK
<1>7. \A k \in Machine : \A j \in Loop[k] :
        loops'[k][j] = loops[k][j] \/ (k = m /\ loops'[k][j] = "IDLE")
  BY <1>1 DEF Serve, Inv, TypeOK
<1>8. TypeOK'
  <2>1. loops' = [k \in Machine |-> loops'[k]] /\ \A k \in Machine : loops'[k] \in [Loop[k] -> LoopStage]
    BY <1>1 DEF Serve, Inv, TypeOK, LoopStage
  <2>2. hosts' \in [Machine -> Host]
    BY <1>3 DEF Serve, Inv, TypeOK
  <2>3. QED
    BY <1>5, <2>1, <2>2 DEF Inv, TypeOK, metadata, runtime
<1>9. Equipped'
  <2>1. hosts[m].token # NONE
    BY <1>1 DEF Serve, Inv, Equipped
  <2>2. QED
    BY <1>1, <1>4, <1>5, <1>7, <2>1 DEF Inv, Equipped
<1>10. Owned' /\ Copied'
  BY <1>4, <1>5, <1>6, FewerOwned DEF metadata
<1>11. QED
  BY <1>8, <1>9, <1>10 DEF Inv

LEMMA RefuseInv == ASSUME Inv, NEW r \in requests, Refuse(r) PROVE Inv'
<1> DEFINE moved == [r EXCEPT !.at = "UNAUTHORIZED"]
<1>1. r \in RequestRecord
  BY DEF Inv, TypeOK
<1>4. /\ moved \in RequestRecord /\ moved.at = "UNAUTHORIZED"
      /\ <<moved.machine, moved.server, moved.op, moved.waited>>
           = <<r.machine, r.server, r.op, r.waited>>
  BY <1>1, Moved
<1>5. Alike(moved, r)
  BY <1>4 DEF Alike, Bound
<1>2. Fewer
  BY <1>5 DEF Refuse, Fewer, Alike, Inv, TypeOK
<1>3. QED
  BY <1>2, LoopsInv DEF Refuse, agents, Inv, TypeOK

LEMMA VanishInv == ASSUME Inv, NEW r \in requests, Vanish(r) PROVE Inv'
<1>1. Fewer
  BY DEF Vanish, Fewer, Alike, Inv, TypeOK
<1>2. QED
  BY <1>1, LoopsInv DEF Vanish, agents, Inv, TypeOK

LEMMA RestartInv == ASSUME Inv, Restart PROVE Inv'
<1>1. Fewer
  BY DEF Restart, Fewer
<1>2. /\ loops' = [m \in Machine |-> loops'[m]]
      /\ \A m \in Machine : loops'[m] \in [Loop[m] -> LoopStage]
      /\ \A m \in Machine : \A l \in Loop[m] : loops'[m][l] = loops[m][l] \/ loops'[m][l] = "IDLE"
  BY DEF Restart, Inv, TypeOK, LoopStage
<1>3. QED
  BY <1>1, <1>2, LoopsInv DEF Restart

LEMMA TickInv == ASSUME Inv, Tick PROVE Inv'
<1>1. TypeOK'
  BY DEF Inv, TypeOK, Tick, runtime, agents
<1>2. Equipped' /\ Owned' /\ Copied'
  BY DEF Inv, Equipped, Owned, Bound, Copied, SameOwner, Tick, runtime, agents
<1>3. QED
  BY <1>1, <1>2 DEF Inv

(* Only the answer to a registration changes who an agent is.                *)
LEMMA HostsKept ==
  ASSUME Inv, NEW m \in Machine, StopHost(m) \/ \E s \in Configured[m] : StartHost(m, s)
  PROVE  \A k \in Machine : hosts'[k].id = hosts[k].id
<1>1. hosts[m] \in Host /\ hosts = [k \in Machine |-> hosts[k]]
  BY DEF Inv, TypeOK
<1>2. CASE StopHost(m)
  BY <1>1, <1>2 DEF StopHost, Host
<1>3. ASSUME NEW s \in Configured[m], StartHost(m, s)
      PROVE  \A k \in Machine : hosts'[k].id = hosts[k].id
  BY <1>1, <1>3 DEF StartHost, Host
<1>4. QED
  BY <1>2, <1>3

LEMMA NextInv ==
  ASSUME Inv, [Next]_vars
  PROVE  Inv' /\ \A m \in Machine : hosts[m].id # NONE => hosts'[m].id = hosts[m].id
<1> DEFINE Kept == \A m \in Machine : hosts[m].id # NONE => hosts'[m].id = hosts[m].id
<1>1. ASSUME NEW s \in Server, CreateEnrollment(s) \/ RevokeEnrollment(s) PROVE Inv' /\ Kept
  <2>1. UNCHANGED hosts
    BY <1>1 DEF CreateEnrollment, RevokeEnrollment, agents
  <2>2. QED
    BY <1>1, <2>1, CreateInv, RevokeInv
<1>2. ASSUME NEW m \in Machine, HostStep(m) PROVE Inv' /\ Kept
  <2>1. ASSUME NEW s \in Configured[m], StartHost(m, s) PROVE Inv' /\ Kept
    BY <2>1, StartHostInv, HostsKept
  <2>2. CASE StopHost(m)
    BY <2>2, StopHostInv, HostsKept
  <2>3. ASSUME NEW l \in Loop[m], EnsureRegistered(m, l) \/ Call(m, l) PROVE Inv' /\ Kept
    <3>1. UNCHANGED hosts
      BY <2>3 DEF EnsureRegistered, Call, Send
    <3>2. QED
      BY <2>3, <3>1, EnsureRegisteredInv, CallInv
  <2>4. QED
    BY <1>2, <2>1, <2>2, <2>3 DEF HostStep
<1>3. ASSUME NEW r \in requests, RequestStep(r) PROVE Inv' /\ Kept
  <2>1. CASE Answered(r)
    <3>1. r.waited /\ requests' = requests \ {r} /\ UNCHANGED <<metadata, runtime>>
      BY <2>1 DEF Answered
    <3>2. CASE Registered(r)
      BY <3>1, <3>2, RegisteredInv
    <3>3. CASE Denied(r)
      <4>1. UNCHANGED hosts
        BY <3>3 DEF Denied
      <4>2. QED
        BY <3>1, <3>3, <4>1, DeniedInv
    <3>4. QED
      BY <2>1, <3>2, <3>3 DEF Answered
  <2>2. CASE GiveUp(r) \/ Bind(r) \/ Refuse(r) \/ Vanish(r)
    <3>1. UNCHANGED hosts
      BY <2>2 DEF GiveUp, Bind, Refuse, Vanish, agents
    <3>2. QED
      BY <2>2, <3>1, GiveUpInv, BindInv, RefuseInv, VanishInv
  <2>3. CASE Upsert(r)
    <3>1. \A k \in Machine : hosts'[k].id = hosts[k].id
      BY <2>3 DEF Upsert, Inv, TypeOK, Host
    <3>2. QED
      BY <2>3, <3>1, UpsertInv
  <2>4. CASE Serve(r)
    <3>1. \A k \in Machine : hosts'[k].id = hosts[k].id
      BY <2>4 DEF Serve, Inv, TypeOK, Host
    <3>2. QED
      BY <2>4, <3>1, ServeInv
  <2>5. QED
    BY <1>3, <2>1, <2>2, <2>3, <2>4 DEF RequestStep
<1>4. CASE Restart \/ Tick
  <2>1. UNCHANGED hosts
    BY <1>4 DEF Restart, Tick, agents
  <2>2. QED
    BY <1>4, <2>1, RestartInv, TickInv
<1>5. CASE UNCHANGED vars
  <2>1. UNCHANGED <<now, enrollments, ownership, rows, machines, hosts, loops, requests>>
    BY <1>5 DEF vars, metadata, runtime, agents
  <2>2. TypeOK' /\ Equipped' /\ Owned' /\ Copied'
    BY <2>1 DEF Inv, TypeOK, Equipped, Owned, Bound, Copied, SameOwner
  <2>3. QED
    BY <2>1, <2>2 DEF Inv
<1>6. QED
  BY <1>1, <1>2, <1>3, <1>4, <1>5 DEF Next

(* At all times both databases, the requests under way and the state files of
   the agents agree on who is which server.                                  *)
THEOREM Consistent == Spec => []Inv
<1>1. Inv /\ [Next]_vars => Inv'
  BY NextInv
<1>2. QED
  BY InvInit, <1>1, PTL DEF Spec

(* The runtime store never contradicts PostgreSQL on the machine of a server
   (RegisterAgent), for any number of machines and enrollments.              *)
THEOREM OneOwner == Spec => []SameOwner
<1>1. Inv => SameOwner
  BY DEF Inv, Copied
<1>2. QED
  BY Consistent, <1>1, PTL

(* UpsertServer never answers ErrConflict to a machine that BindEnrollment
   has admitted.                                                             *)
THEOREM BoundAccepted == Spec => []BoundIsAccepted
<1>1. Inv => BoundIsAccepted
  BY Accepted DEF BoundIsAccepted, Bound
<1>2. QED
  BY Consistent, <1>1, PTL

(* The state file of an agent never changes the server it names, whichever
   enrollments the machine is given and however late answers arrive.         *)
THEOREM SameIdentity == Spec => IdentityKept
<1>1. Inv /\ [Next]_vars => [\A m \in Machine : hosts[m].id # NONE => hosts'[m].id = hosts[m].id]_vars
  BY NextInv
<1>2. QED
  BY Consistent, <1>1, PTL DEF Spec, IdentityKept
=============================================================================
