------------------------------ MODULE Snapshot ------------------------------
(***************************************************************************)
(* The durable store (internal/store/durable): tables in memory, and a     *)
(* snapshot of them in one file, under a lock of the operating system.     *)
(*                                                                         *)
(* A mutation happens in memory first; then the whole of memory is written *)
(* to a temporary file, which is renamed over the old snapshot; if any of  *)
(* this fails, memory is restored.  One mutex per process covers all of    *)
(* it, and reads.  A process may die at any moment; its temporary file is  *)
(* never looked at again.  A power failure of the host, after which a      *)
(* rename may be undone, is left out.                                      *)
(*                                                                         *)
(* What the tables say is arbitrary: module Durable has the control plane  *)
(* on top of what is promised here (module AtomicStore).                   *)
(***************************************************************************)
CONSTANTS
  Process,    \* control planes started on the same file
  Thread,     \* their goroutines: handlers and controller loops
  Home,       \* the process of each thread
  Content,    \* what the tables may say
  Empty,      \* the tables of a new system, and of a file not there yet
  Untrusted,  \* the tables, with their inventory distrusted
  NONE

ASSUME StoreAssumption ==
  /\ NONE \notin Process \cup Thread \cup Content
  /\ Home \in [Thread -> Process]
  /\ Empty \in Content
  /\ Untrusted \in [Content -> Content]
  /\ \A c \in Content : Untrusted[Untrusted[c]] = Untrusted[c]
  /\ Untrusted[Empty] = Empty

VARIABLES
  file,   \* the snapshot on disk
  lock,   \* the process that holds the lock of the file
  procs,  \* each process: its tables and its mutex
  calls   \* the call of each thread

vars == <<file, lock, procs, calls>>

Op == {"READ", "WRITE"}
NoCall == [stage |-> "IDLE", op |-> "READ", value |-> NONE]
(* "MUTATED": done in memory; "WRITTEN": the temporary file is on disk.       *)
Call == [stage : {"IDLE", "WAITING", "MUTATED", "WRITTEN", "DONE", "FAILED"},
         op : Op, value : Content \cup {NONE}]

(* "CLOSED": the store is closed, the process not over yet.  before is what a
   transaction restores if it fails, and means nothing between two.          *)
Proc == [phase : {"DOWN", "UP", "CLOSED"}, core : Content, before : Content,
         mutex : Thread \cup {NONE}]
NoProc == [phase |-> "DOWN", core |-> Empty, before |-> Empty, mutex |-> NONE]

Init ==
  /\ file = Empty
  /\ lock = NONE
  /\ procs = [p \in Process |-> NoProc]
  /\ calls = [t \in Thread |-> NoCall]

------------------------------------------------------------------------------
(* Processes.                                                                *)

(* Open: without the lock it fails.  What the snapshot says of connections
   and inventories is not believed.                                          *)
Open_Unlocked(p) ==
  /\ procs[p].phase = "DOWN"
  /\ lock' = p
  /\ procs' = [procs EXCEPT ![p] = [NoProc EXCEPT !.phase = "UP", !.core = Untrusted[file]]]
  /\ UNCHANGED <<file, calls>>
Open(p) ==
  /\ procs[p].phase = "DOWN"
  /\ lock = NONE
  /\ lock' = p
  /\ procs' = [procs EXCEPT ![p] = [NoProc EXCEPT !.phase = "UP", !.core = Untrusted[file]]]
  /\ UNCHANGED <<file, calls>>

(* Close, deferred by main: it neither waits for calls nor stops them.  main
   gave handlers ten seconds to end, and the controller loops none at all.   *)
Close(p) ==
  /\ procs[p].phase = "UP"
  /\ lock' = NONE
  /\ procs' = [procs EXCEPT ![p].phase = "CLOSED"]
  /\ UNCHANGED <<file, calls>>

(* The process is over; the operating system releases its lock.              *)
Die(p) ==
  /\ procs[p].phase # "DOWN"
  /\ lock' = IF lock = p THEN NONE ELSE lock
  /\ procs' = [procs EXCEPT ![p] = NoProc]
  /\ calls' = [t \in Thread |-> IF Home[t] = p THEN NoCall ELSE calls[t]]
  /\ UNCHANGED file

------------------------------------------------------------------------------
(* Calls.                                                                    *)

(* A method of the repository: a transaction, or a read.  A pass or a handler
   that outlives Close goes on calling.                                      *)
Invoke(t, op) ==
  /\ procs[Home[t]].phase # "DOWN"
  /\ calls[t].stage = "IDLE"
  /\ calls' = [calls EXCEPT ![t] = [stage |-> "WAITING", op |-> op, value |-> NONE]]
  /\ UNCHANGED <<file, lock, procs>>

(* The call has the mutex to itself.                                         *)
Enters_Unlocked(t, op) == calls[t].stage = "WAITING" /\ calls[t].op = op
Enters(t, op) ==
  /\ calls[t].stage = "WAITING" /\ calls[t].op = op
  /\ procs[Home[t]].mutex = NONE

Gets(t, stage, value) ==
  calls' = [calls EXCEPT ![t] = [stage |-> stage, op |-> calls[t].op, value |-> value]]

(* read.                                                                     *)
Read(t) ==
  /\ Enters(t, "READ")
  /\ Gets(t, "DONE", procs[Home[t]].core)
  /\ UNCHANGED <<file, lock, procs>>

(* transact: the memory store refuses; what it changed already is undone.    *)
Reject(t) ==
  /\ Enters(t, "WRITE")
  /\ Gets(t, "FAILED", NONE)
  /\ UNCHANGED <<file, lock, procs>>

(* transact: the memory store is changed, under the mutex.                   *)
Mutate(t, next) ==
  /\ Enters(t, "WRITE")
  /\ procs' = [procs EXCEPT ![Home[t]] =
       [@ EXCEPT !.core = next, !.before = procs[Home[t]].core, !.mutex = t]]
  /\ Gets(t, "MUTATED", NONE)
  /\ UNCHANGED <<file, lock>>

(* saveSnapshot: the temporary file is complete and synced.                  *)
WriteTemporary(t) ==
  /\ calls[t].stage = "MUTATED"
  /\ Gets(t, "WRITTEN", NONE)
  /\ UNCHANGED <<file, lock, procs>>

(* saveSnapshot: the new snapshot takes the place of the old.                *)
Rename(t) ==
  /\ calls[t].stage = "WRITTEN"
  /\ file' = procs[Home[t]].core
  /\ procs' = [procs EXCEPT ![Home[t]] = [@ EXCEPT !.before = Empty, !.mutex = NONE]]
  /\ Gets(t, "DONE", NONE)
  /\ UNCHANGED lock

(* saveSnapshot fails before or at the renaming: transact restores memory.   *)
Restored_Kept(proc) == [proc EXCEPT !.before = Empty, !.mutex = NONE]
Restored(proc) == [proc EXCEPT !.core = proc.before, !.before = Empty, !.mutex = NONE]
SaveFails(t) ==
  /\ calls[t].stage \in {"MUTATED", "WRITTEN"}
  /\ procs' = [procs EXCEPT ![Home[t]] = Restored(procs[Home[t]])]
  /\ Gets(t, "FAILED", NONE)
  /\ UNCHANGED <<file, lock>>

Return(t) ==
  /\ calls[t].stage \in {"DONE", "FAILED"}
  /\ calls' = [calls EXCEPT ![t] = NoCall]
  /\ UNCHANGED <<file, lock, procs>>

------------------------------------------------------------------------------
Next ==
  \/ \E p \in Process : Open(p) \/ Close(p) \/ Die(p)
  \/ \E t \in Thread :
       \/ \E op \in Op : Invoke(t, op)
       \/ Read(t) \/ Reject(t)
       \/ \E next \in Content : Mutate(t, next)
       \/ WriteTemporary(t) \/ Rename(t) \/ SaveFails(t)
       \/ Return(t)

Spec == Init /\ [][Next]_vars

------------------------------------------------------------------------------
(* Properties.                                                               *)

InTransaction(t) == calls[t].stage \in {"MUTATED", "WRITTEN"}
Closed(p) == procs[p].phase = "CLOSED"

(* docs/ALGORITHMS.md:1115: the mutex serializes the calls of a process and
   the lock of the operating system protects the file, so there is one writer.
   But main closes the store, and so gives up the lock, while calls may be
   under way: the next process then opens the file before the last write of
   the old one (main, Close).                                                *)
OneWriter == \A t, u \in Thread : InTransaction(t) /\ InTransaction(u) => t = u

(* What there is of it: nobody writes beside the process that serves but one
   that has closed the store and is not over yet, and two transactions of one
   process never overlap (Open's lock, transact's mutex).                    *)
RivalHasClosed ==
  \A t, u \in Thread : (InTransaction(t) /\ InTransaction(u) /\ t # u)
    => Home[t] # Home[u] /\ (Closed(Home[t]) \/ Closed(Home[u]))

(* What a process would restore now agrees with what a restart would bring
   back, but for the distrusted inventory: nothing that was answered would be
   lost, and nothing that failed lingers in memory for a later mutation to
   save.                                                                     *)
Kept(proc) == IF proc.mutex = NONE THEN proc.core ELSE proc.before
AgreesWithDisk(p) == Untrusted[Kept(procs[p])] = Untrusted[file]
Serves(p) == procs[p].phase = "UP"

(* Memory and disk of the process that serves part only when one that has
   closed the store still writes; no failed save, refused mutation, concurrent
   call or sudden death of anybody does that (transact, Open).               *)
LateRename == \E t \in Thread : Closed(Home[t]) /\ Rename(t)
MemoryIsSaved ==
  [][\A p \in Process :
       (Serves(p)' /\ (Serves(p) => AgreesWithDisk(p)) /\ ~LateRename) => AgreesWithDisk(p)']_vars

(* The tables as callers see them: those of the process that serves, before a
   transaction that is not renamed yet, or those a process would open; beside
   them what a closed process left on disk without the other's knowledge.    *)
View == IF lock = NONE THEN Untrusted[file] ELSE Kept(procs[lock])
Behind ==
  IF lock = NONE THEN NONE
  ELSE IF AgreesWithDisk(lock) THEN NONE ELSE file
Leaving == {p \in Process : Closed(p)}
Promised == [t \in Thread |->
  IF InTransaction(t) THEN [stage |-> "WAITING", op |-> calls[t].op, value |-> NONE]
  ELSE calls[t]]
Store == INSTANCE AtomicStore
  WITH saved <- View, behind <- Behind, server <- lock, leaving <- Leaving, calls <- Promised

(* The durable store implements the atomic one.                              *)
ImplementsStore == Store!Spec
=============================================================================
