--------------------------- MODULE SnapshotProofs ---------------------------
(***************************************************************************)
(* Proofs about module Snapshot: however processes start, are shut down    *)
(* and die, the durable store implements the atomic one, and only a call   *)
(* that outlives a shutdown comes between memory and disk.                 *)
(***************************************************************************)
EXTENDS Snapshot, TLAPS

TypeOK ==
  /\ file \in Content
  /\ lock \in Process \cup {NONE}
  /\ procs \in [Process -> Proc]
  /\ calls \in [Thread -> Call]

(* The lock is held by the process that is up, the mutex by the transaction
   under way, and only a process that is not over has calls.                 *)
Locked ==
  /\ \A p \in Process : lock = p <=> procs[p].phase = "UP"
  /\ \A t \in Thread : calls[t].stage # "IDLE" => procs[Home[t]].phase # "DOWN"
  /\ \A t \in Thread : InTransaction(t) <=> procs[Home[t]].mutex = t
  /\ \A p \in Process : procs[p].mutex # NONE => Home[procs[p].mutex] = p

(* What a call has said so far.                                              *)
Silent ==
  \A t \in Thread :
    /\ calls[t].stage = "IDLE" => calls[t] = NoCall
    /\ InTransaction(t) => calls[t].op = "WRITE"
    /\ calls[t].stage = "WAITING" \/ InTransaction(t) => calls[t].value = NONE

Inv == TypeOK /\ Locked /\ Silent

USE StoreAssumption DEF TypeOK, Locked, Silent, InTransaction, Proc, Call, Op

------------------------------------------------------------------------------
(* The inductive invariant.                                                  *)

LEMMA MutatedType ==
  ASSUME NEW proc \in Proc, NEW t \in Thread, NEW next \in Content
  PROVE  [proc EXCEPT !.core = next, !.before = proc.core, !.mutex = t] \in Proc
OBVIOUS

LEMMA EndedType ==
  ASSUME NEW proc \in Proc PROVE [proc EXCEPT !.before = Empty, !.mutex = NONE] \in Proc
OBVIOUS

LEMMA RestoredType == ASSUME NEW proc \in Proc PROVE Restored(proc) \in Proc
BY DEF Restored

LEMMA InvInit == Init => Inv
BY DEF Init, Inv, NoProc, NoCall

(* A step of the process p that leaves the calls of the others alone.        *)
LEMMA OpenInv == ASSUME Inv, NEW p \in Process, Open(p) PROVE Inv'
<1>1. TypeOK'
  <2>1. file \in Content /\ procs \in [Process -> Proc] /\ calls \in [Thread -> Call]
    BY DEF Inv
  <2>2. [NoProc EXCEPT !.phase = "UP", !.core = Untrusted[file]] \in Proc
    BY <2>1 DEF NoProc
  <2>3. QED
    <3> USE DEF Open
    <3>1. lock' = p /\ file' = file /\ calls' = calls
      OBVIOUS
    <3>2. procs' \in [Process -> Proc]
      <4>1. \A proc \in Proc : [procs EXCEPT ![p] = proc] \in [Process -> Proc]
        <5> HIDE DEF Proc
        <5> QED
          BY <2>1
      <4> QED
        BY <2>2, <4>1
    <3> QED
      BY <2>1, <3>1, <3>2
<1>2. Locked'
  BY DEF Inv, Open, NoProc
<1>3. Silent'
  BY DEF Inv, Open
<1>4. QED
  BY <1>1, <1>2, <1>3 DEF Inv

LEMMA CloseInv == ASSUME Inv, NEW p \in Process, Close(p) PROVE Inv'
<1>1. TypeOK'
  <2>1. [procs[p] EXCEPT !.phase = "CLOSED"] \in Proc
    BY DEF Inv
  <2>2. QED
    BY <2>1 DEF Inv, Close
<1>2. Locked'
  BY DEF Inv, Close
<1>3. Silent'
  BY DEF Inv, Close
<1>4. QED
  BY <1>1, <1>2, <1>3 DEF Inv

LEMMA DieInv == ASSUME Inv, NEW p \in Process, Die(p) PROVE Inv'
<1>1. TypeOK'
  BY DEF Inv, Die, NoProc, NoCall
<1>2. Locked'
  BY DEF Inv, Die, NoProc, NoCall
<1>3. Silent'
  BY DEF Inv, Die, NoCall
<1>4. QED
  BY <1>1, <1>2, <1>3 DEF Inv

LEMMA InvokeInv == ASSUME Inv, NEW t \in Thread, NEW op \in Op, Invoke(t, op) PROVE Inv'
BY DEF Inv, Invoke, NoCall

LEMMA ReadInv == ASSUME Inv, NEW t \in Thread, Read(t) PROVE Inv'
BY DEF Inv, Read, Enters, Gets, NoCall

LEMMA RejectInv == ASSUME Inv, NEW t \in Thread, Reject(t) PROVE Inv'
BY DEF Inv, Reject, Enters, Gets, NoCall

LEMMA MutateInv ==
  ASSUME Inv, NEW t \in Thread, NEW next \in Content, Mutate(t, next) PROVE Inv'
<1>1. TypeOK'
  <2>. DEFINE proc == procs[Home[t]]
  <2>1. proc \in Proc
    BY DEF Inv
  <2>2. [proc EXCEPT !.core = next, !.before = proc.core, !.mutex = t] \in Proc
    BY <2>1, MutatedType
  <2>3. QED
    BY <2>2 DEF Inv, Mutate, Gets
<1>2. Locked'
  BY DEF Inv, Mutate, Enters, Gets
<1>3. Silent'
  BY DEF Inv, Mutate, Enters, Gets
<1>4. QED
  BY <1>1, <1>2, <1>3 DEF Inv

LEMMA WriteInv == ASSUME Inv, NEW t \in Thread, WriteTemporary(t) PROVE Inv'
<1>1. TypeOK'
  BY DEF Inv, WriteTemporary, Gets
<1>2. Locked'
  BY DEF Inv, WriteTemporary, Gets
<1>3. Silent'
  BY DEF Inv, WriteTemporary, Gets
<1>4. QED
  BY <1>1, <1>2, <1>3 DEF Inv

LEMMA RenameInv == ASSUME Inv, NEW t \in Thread, Rename(t) PROVE Inv'
<1>1. TypeOK'
  <2>1. procs[Home[t]] \in Proc
    BY DEF Inv
  <2>2. [procs[Home[t]] EXCEPT !.before = Empty, !.mutex = NONE] \in Proc
    BY <2>1, EndedType
  <2>3. QED
    BY <2>1, <2>2 DEF Inv, Rename, Gets
<1>2. Locked'
  BY DEF Inv, Rename, Gets
<1>3. Silent'
  BY DEF Inv, Rename, Gets
<1>4. QED
  BY <1>1, <1>2, <1>3 DEF Inv

LEMMA SaveFailsInv == ASSUME Inv, NEW t \in Thread, SaveFails(t) PROVE Inv'
<1>1. TypeOK'
  <2>1. procs[Home[t]] \in Proc
    BY DEF Inv
  <2>2. Restored(procs[Home[t]]) \in Proc
    BY <2>1, RestoredType
  <2>3. QED
    BY <2>2 DEF Inv, SaveFails, Gets
<1>2. Locked'
  BY DEF Inv, SaveFails, Gets, Restored
<1>3. Silent'
  BY DEF Inv, SaveFails, Gets
<1>4. QED
  BY <1>1, <1>2, <1>3 DEF Inv

LEMMA ReturnInv == ASSUME Inv, NEW t \in Thread, Return(t) PROVE Inv'
BY DEF Inv, Return, NoCall

LEMMA NextInv == ASSUME Inv, [Next]_vars PROVE Inv'
<1>1. CASE UNCHANGED vars
  BY <1>1 DEF Inv, vars
<1>2. ASSUME NEW p \in Process, Open(p) \/ Close(p) \/ Die(p) PROVE Inv'
  BY <1>2, OpenInv, CloseInv, DieInv
<1>3. ASSUME NEW t \in Thread,
             \/ \E op \in Op : Invoke(t, op)
             \/ Read(t) \/ Reject(t)
             \/ \E next \in Content : Mutate(t, next)
             \/ WriteTemporary(t) \/ Rename(t) \/ SaveFails(t)
             \/ Return(t)
      PROVE  Inv'
  BY <1>3, InvokeInv, ReadInv, RejectInv, MutateInv, WriteInv, RenameInv, SaveFailsInv, ReturnInv
<1>4. QED
  BY <1>1, <1>2, <1>3 DEF Next

(* The mutex and the lock agree with the calls under way (Open, transact,
   saveSnapshot, Close).                                                     *)
THEOREM Consistent == Spec => []Inv
<1>1. Init => Inv
  BY InvInit
<1>2. Inv /\ [Next]_vars => Inv'
  BY NextInv
<1>3. QED
  BY <1>1, <1>2, PTL DEF Spec

(* Two transactions are under way on the file only if one is of a process that
   has closed the store: the lock keeps other processes off it, and the mutex
   the other goroutines (Open, transact).                                    *)
THEOREM SingleWriter == Spec => []RivalHasClosed
<1>1. Inv => RivalHasClosed
  BY DEF Inv, RivalHasClosed, Closed
<1>2. QED
  BY <1>1, Consistent, PTL

------------------------------------------------------------------------------
(* Memory and disk.                                                          *)

(* A step after which what process p would restore, and the disk, say what
   they said before.                                                         *)
LEMMA Agreement ==
  ASSUME NEW p \in Process, AgreesWithDisk(p),
         Kept(procs[p])' = Kept(procs[p]), file' = file
  PROVE  AgreesWithDisk(p)'
BY DEF AgreesWithDisk

LEMMA OthersSave ==
  ASSUME Inv, NEW t \in Thread, NEW p \in Process, Serves(p), Rename(t), ~LateRename
  PROVE  p = Home[t]
<1>1. ~Closed(Home[t])
  BY DEF LateRename
<1>2. procs[Home[t]].phase = "UP"
  BY <1>1 DEF Inv, Rename, Closed
<1>3. QED
  BY <1>2 DEF Inv, Serves

LEMMA CallKept ==
  ASSUME Inv, NEW t \in Thread, NEW p \in Process,
         \/ \E op \in Op : Invoke(t, op)
         \/ Read(t) \/ Reject(t) \/ WriteTemporary(t) \/ SaveFails(t) \/ Return(t)
         \/ \E next \in Content : Mutate(t, next)
  PROVE  Kept(procs[p])' = Kept(procs[p]) /\ file' = file /\ lock' = lock
                                         /\ procs'[p].phase = procs[p].phase
<1>1. CASE \/ \E op \in Op : Invoke(t, op)
           \/ Read(t) \/ Reject(t) \/ WriteTemporary(t) \/ Return(t)
  BY <1>1 DEF Kept, Invoke, Read, Reject, WriteTemporary, Return
<1>2. CASE SaveFails(t)
  BY <1>2 DEF Inv, Kept, SaveFails, Restored
<1>3. ASSUME NEW next \in Content, Mutate(t, next)
      PROVE  Kept(procs[p])' = Kept(procs[p]) /\ procs'[p].phase = procs[p].phase
  <2>1. procs \in [Process -> Proc]
    BY DEF Inv
  <2>2. /\ procs[Home[t]].mutex = NONE
        /\ procs' = [procs EXCEPT ![Home[t]] =
             [procs[Home[t]] EXCEPT !.core = next, !.before = procs[Home[t]].core, !.mutex = t]]
    BY ONLY <1>3 DEF Mutate, Enters
  <2>3. CASE p = Home[t]
    <3>1. procs'[p] = [procs[p] EXCEPT !.core = next, !.before = procs[p].core, !.mutex = t]
      BY ONLY <2>1, <2>2, <2>3, p \in Process
    <3>2. QED
      BY <2>1, <2>2, <2>3, <3>1 DEF Kept
  <2>4. CASE p # Home[t]
    <3>1. procs'[p] = procs[p]
      BY ONLY <2>1, <2>2, <2>4, p \in Process
    <3>2. QED
      BY <3>1 DEF Kept
  <2>5. QED
    BY <2>3, <2>4
<1>4. QED
  BY <1>1, <1>2, <1>3 DEF Mutate

LEMMA SavedStep ==
  ASSUME Inv, [Next]_vars, NEW p \in Process, Serves(p)',
         Serves(p) => AgreesWithDisk(p), ~LateRename
  PROVE  AgreesWithDisk(p)'
<1>1. CASE UNCHANGED vars
  BY <1>1 DEF vars, Serves, AgreesWithDisk, Kept
<1>2. ASSUME NEW q \in Process, Open(q) PROVE AgreesWithDisk(p)'
  <2>1. CASE q = p
    BY <1>2, <2>1 DEF Inv, Open, NoProc, AgreesWithDisk, Kept
  <2>2. CASE q # p
    BY <1>2, <2>2 DEF Inv, Open, Serves
  <2>3. QED
    BY <2>1, <2>2
<1>3. ASSUME NEW q \in Process, Close(q) \/ Die(q) PROVE AgreesWithDisk(p)'
  <2>1. q # p
    BY <1>3 DEF Inv, Close, Die, NoProc, Serves
  <2>2. QED
    BY <1>3, <2>1 DEF Inv, Close, Die, Serves, AgreesWithDisk, Kept
<1>4. ASSUME NEW t \in Thread, Rename(t) PROVE AgreesWithDisk(p)'
  <2>1. Serves(p)
    BY <1>4 DEF Inv, Rename, Serves
  <2>2. p = Home[t]
    BY <1>4, <2>1, OthersSave
  <2>3. QED
    BY <1>4, <2>2 DEF Inv, Rename, AgreesWithDisk, Kept
<1>5. ASSUME NEW t \in Thread,
             \/ \E op \in Op : Invoke(t, op)
             \/ Read(t) \/ Reject(t) \/ WriteTemporary(t) \/ SaveFails(t) \/ Return(t)
             \/ \E next \in Content : Mutate(t, next)
      PROVE  AgreesWithDisk(p)'
  <2>1. /\ Kept(procs[p])' = Kept(procs[p]) /\ file' = file
        /\ procs'[p].phase = procs[p].phase
    BY <1>5, CallKept
  <2>2. QED
    BY <2>1, Agreement DEF Serves
<1>6. QED
  BY <1>1, <1>2, <1>3, <1>4, <1>5 DEF Next

(* Nothing that was answered would be lost by a restart, and nothing that
   failed is left in memory, unless a process that has closed the store still
   writes (transact, saveSnapshot).                                          *)
THEOREM NothingLost == Spec => MemoryIsSaved
<1>1. Inv /\ [Next]_vars =>
        [\A p \in Process :
           (Serves(p)' /\ (Serves(p) => AgreesWithDisk(p)) /\ ~LateRename) => AgreesWithDisk(p)']_vars
  BY SavedStep
<1>2. QED
  BY <1>1, Consistent, PTL DEF Spec, MemoryIsSaved

------------------------------------------------------------------------------
(* The refinement.                                                           *)

Abstract == <<View, Behind, lock, Leaving, Promised>>

(* How a change of one call shows in the atomic store.                       *)
Shown(call) ==
  IF call.stage \in {"MUTATED", "WRITTEN"}
  THEN [stage |-> "WAITING", op |-> call.op, value |-> NONE]
  ELSE call

LEMMA PromisedOne ==
  ASSUME Inv, NEW t \in Thread, NEW call, calls' = [calls EXCEPT ![t] = call]
  PROVE  Promised' = [Promised EXCEPT ![t] = Shown(call)]
BY DEF Inv, Promised, Shown

LEMMA PromisedGets ==
  ASSUME Inv, NEW t \in Thread, NEW stage, NEW value, Gets(t, stage, value),
         stage \in {"DONE", "FAILED"}
  PROVE  Promised' =
           [Promised EXCEPT ![t] = [stage |-> stage, op |-> calls[t].op, value |-> value]]
<1>. DEFINE call == [stage |-> stage, op |-> calls[t].op, value |-> value]
<1>1. calls' = [calls EXCEPT ![t] = call]
  BY DEF Gets
<1>2. Shown(call) = call
  BY DEF Shown
<1>. HIDE DEF call
<1>3. Promised' = [Promised EXCEPT ![t] = call]
  BY <1>1, <1>2, PromisedOne
<1>4. QED
  BY <1>3 DEF call

(* A call leaves the tables as they look from outside, until it renames.     *)
LEMMA TablesKept ==
  ASSUME Inv, NEW t \in Thread,
         \/ \E op \in Op : Invoke(t, op)
         \/ Read(t) \/ Reject(t) \/ WriteTemporary(t) \/ SaveFails(t) \/ Return(t)
         \/ \E next \in Content : Mutate(t, next)
  PROVE  UNCHANGED <<View, Behind, lock, Leaving>>
<1>1. \A p \in Process : Kept(procs[p])' = Kept(procs[p]) /\ procs'[p].phase = procs[p].phase
  BY CallKept
<1>2. file' = file /\ lock' = lock
  BY DEF Invoke, Read, Reject, WriteTemporary, SaveFails, Return, Mutate
<1>3. lock \in Process \cup {NONE}
  BY DEF Inv
<1>4. View' = View
  BY <1>1, <1>2, <1>3 DEF View
<1>5. Behind' = Behind
  BY <1>1, <1>2, <1>3 DEF Behind, AgreesWithDisk
<1>6. Leaving' = Leaving
  BY <1>1 DEF Leaving, Closed
<1>7. QED
  BY <1>2, <1>4, <1>5, <1>6

(* A process whose calls are under way serves, or is leaving.                *)
LEMMA CallerRuns ==
  ASSUME Inv, NEW t \in Thread, procs[Home[t]].phase # "DOWN"
  PROVE  Home[t] \in Process /\ Store!Running(t)
BY DEF Inv, Store!Running, Leaving, Closed

LEMMA InitRefines == Init => Store!Init
BY DEF Init, Store!Init, View, Behind, Leaving, Closed, Promised, NoCall, Store!NoCall, NoProc

LEMMA OpenRefines == ASSUME Inv, NEW p \in Process, Open(p) PROVE Store!Start(p)
<1>1. procs'[p].core = Untrusted[file] /\ procs'[p].mutex = NONE /\ procs'[p].phase = "UP"
  BY DEF Inv, Open, NoProc
<1>2. lock = NONE /\ lock' = p /\ file' = file /\ p # NONE /\ file \in Content
  BY DEF Inv, Open
<1>3. View' = View
  BY <1>1, <1>2 DEF View, Kept
<1>4. Behind' = Behind
  BY <1>1, <1>2 DEF Behind, AgreesWithDisk, Kept
<1>5. Leaving' = Leaving /\ p \notin Leaving
  BY DEF Inv, Open, Leaving, Closed, NoProc
<1>6. Promised' = Promised
  BY DEF Open, Promised
<1>7. QED
  BY <1>2, <1>3, <1>4, <1>5, <1>6 DEF Store!Start

(* What the next process finds.                                              *)
LEMMA GivenUp ==
  ASSUME Inv, lock # NONE, lock' = NONE, file' = file PROVE Store!Unserved
<1>1. file \in Content /\ file # NONE
  BY DEF Inv
<1>2. View' = Untrusted[file] /\ Behind' = NONE
  BY DEF View, Behind
<1>3. CASE AgreesWithDisk(lock)
  BY <1>2, <1>3 DEF View, Behind, AgreesWithDisk, Store!Unserved
<1>4. CASE ~AgreesWithDisk(lock)
  BY <1>1, <1>2, <1>4 DEF Behind, Store!Unserved
<1>5. QED
  BY <1>3, <1>4

LEMMA CloseRefines == ASSUME Inv, NEW p \in Process, Close(p) PROVE Store!Shutdown
<1>1. lock = p /\ lock # NONE /\ lock' = NONE /\ file' = file
  BY DEF Inv, Close
<1>2. Leaving' = Leaving \cup {p}
  BY DEF Inv, Close, Leaving, Closed
<1>3. Promised' = Promised
  BY DEF Close, Promised
<1>4. QED
  BY <1>1, <1>2, <1>3, GivenUp DEF Store!Shutdown

LEMMA DieRefines ==
  ASSUME Inv, NEW p \in Process, Die(p) PROVE Store!Death \/ Store!End(p)
<1>1. Promised' = [t \in Thread |-> IF Home[t] = p THEN Store!NoCall ELSE Promised[t]]
  BY DEF Inv, Die, Promised, NoCall, Store!NoCall
<1>2. Leaving' = Leaving \ {p}
  BY DEF Inv, Die, Leaving, Closed, NoProc
<1>3. CASE lock = p
  <2>1. lock # NONE /\ lock' = NONE /\ file' = file /\ p \notin Leaving
    BY <1>3 DEF Inv, Die, Leaving, Closed
  <2>2. QED
    BY <1>1, <1>2, <1>3, <2>1, GivenUp DEF Store!Death, Store!Silence
<1>4. CASE lock # p
  <2>1. p \in Leaving
    BY <1>4 DEF Inv, Die, Leaving, Closed
  <2>2. lock' = lock /\ file' = file /\ lock \in Process \cup {NONE}
    BY <1>4 DEF Inv, Die
  <2>3. \A q \in Process \ {p} : procs'[q] = procs[q]
    BY DEF Inv, Die
  <2>4. View' = View
    BY <1>4, <2>2, <2>3 DEF View, Kept
  <2>5. Behind' = Behind
    BY <1>4, <2>2, <2>3 DEF Behind, AgreesWithDisk, Kept
  <2>6. QED
    BY <1>1, <1>2, <2>1, <2>2, <2>4, <2>5 DEF Store!End, Store!Silence
<1>5. QED
  BY <1>3, <1>4

LEMMA InvokeRefines ==
  ASSUME Inv, NEW t \in Thread, NEW op \in Op, Invoke(t, op) PROVE Store!Invoke(t, op)
<1>1. Store!Running(t)
  BY CallerRuns DEF Invoke
<1>2. Promised[t].stage = "IDLE"
  BY DEF Invoke, Promised, InTransaction
<1>3. Promised' = [Promised EXCEPT ![t] = [stage |-> "WAITING", op |-> op, value |-> NONE]]
  BY PromisedOne DEF Invoke, Shown
<1>4. QED
  BY <1>1, <1>2, <1>3, TablesKept DEF Store!Invoke

LEMMA ReadRefines ==
  ASSUME Inv, NEW t \in Thread, Read(t) PROVE Store!Read(t) \/ Store!LateRead(t)
<1>. DEFINE own == procs[Home[t]].core
<1>1. /\ Promised[t] = calls[t] /\ calls[t].stage = "WAITING" /\ calls[t].op = "READ"
      /\ procs[Home[t]].mutex = NONE /\ procs[Home[t]].phase # "DOWN" /\ own \in Content
  BY DEF Inv, Read, Enters, Promised
<1>2. UNCHANGED <<View, Behind, lock, Leaving>>
  BY TablesKept
<1>3. Promised' = [Promised EXCEPT ![t] = [stage |-> "DONE", op |-> "READ", value |-> own]]
  BY <1>1, PromisedGets DEF Read
<1>4. Store!Ends(t, "READ", "DONE", own)
  BY <1>1, <1>2, <1>3, CallerRuns DEF Store!Ends
<1>5. CASE Home[t] = lock
  <2>1. View = own
    BY <1>1, <1>5 DEF Inv, View, Kept
  <2>2. QED
    BY <1>2, <1>4, <1>5, <2>1 DEF Store!Read
<1>6. CASE Home[t] # lock
  <2>1. Home[t] \in Leaving
    BY <1>1, <1>6, CallerRuns DEF Store!Running
  <2>2. QED
    BY <1>1, <1>2, <1>4, <2>1 DEF Store!LateRead
<1>7. QED
  BY <1>5, <1>6

(* A refused mutation, or a failed save.                                     *)
LEMMA FailRefines ==
  ASSUME Inv, NEW t \in Thread, Reject(t) \/ SaveFails(t) PROVE Store!Fail(t)
<1>1. /\ Promised[t].stage = "WAITING" /\ Promised[t].op = "WRITE" /\ calls[t].op = "WRITE"
      /\ procs[Home[t]].phase # "DOWN"
  BY DEF Inv, Reject, SaveFails, Enters, Promised
<1>2. UNCHANGED <<View, Behind, lock, Leaving>>
  BY TablesKept
<1>3. Promised' = [Promised EXCEPT ![t] = [stage |-> "FAILED", op |-> "WRITE", value |-> NONE]]
  BY <1>1, PromisedGets DEF Reject, SaveFails
<1>4. QED
  BY <1>1, <1>2, <1>3, CallerRuns DEF Store!Fail, Store!Ends

LEMMA MutateRefines ==
  ASSUME Inv, NEW t \in Thread, NEW next \in Content, Mutate(t, next) PROVE UNCHANGED Abstract
<1>1. UNCHANGED Promised
  BY DEF Inv, Mutate, Enters, Gets, Promised
<1>2. QED
  BY <1>1, TablesKept DEF Abstract

LEMMA WriteRefines ==
  ASSUME Inv, NEW t \in Thread, WriteTemporary(t) PROVE UNCHANGED Abstract
<1>1. UNCHANGED Promised
  BY DEF Inv, WriteTemporary, Gets, Promised
<1>2. QED
  BY <1>1, TablesKept DEF Abstract

LEMMA RenameRefines ==
  ASSUME Inv, NEW t \in Thread, Rename(t) PROVE Store!Write(t) \/ Store!LateWrite(t)
<1>. DEFINE own == procs[Home[t]].core
<1>1. /\ Promised[t].stage = "WAITING" /\ Promised[t].op = "WRITE" /\ calls[t].op = "WRITE"
      /\ procs[Home[t]].phase # "DOWN" /\ own \in Content
  BY DEF Inv, Rename, Promised
<1>2. /\ file' = own /\ lock' = lock
      /\ procs'[Home[t]].core = own /\ procs'[Home[t]].mutex = NONE
      /\ \A q \in Process \ {Home[t]} : procs'[q] = procs[q]
  BY DEF Inv, Rename
<1>3. Leaving' = Leaving
  BY DEF Inv, Rename, Leaving, Closed
<1>4. Promised' = [Promised EXCEPT ![t] = [stage |-> "DONE", op |-> "WRITE", value |-> NONE]]
  BY <1>1, PromisedGets DEF Rename
<1>5. Store!Ends(t, "WRITE", "DONE", NONE)
  BY <1>1, <1>2, <1>3, <1>4, CallerRuns DEF Store!Ends
<1>6. CASE Home[t] = lock
  <2>1. lock # NONE
    BY <1>6
  <2>2. View' = own /\ Behind' = NONE
    BY <1>2, <1>6, <2>1 DEF View, Behind, AgreesWithDisk, Kept
  <2>3. QED
    BY <1>1, <1>5, <1>6, <2>2 DEF Store!Write
<1>7. CASE Home[t] # lock
  <2>1. Home[t] \in Leaving
    BY <1>1, <1>7, CallerRuns DEF Store!Running
  <2>2. CASE lock = NONE
    <3>1. View' = Untrusted[own] /\ Behind' = Behind
      BY <1>2, <2>2 DEF View, Behind
    <3>2. QED
      BY <1>1, <1>5, <2>1, <2>2, <3>1 DEF Store!LateWrite
  <2>3. CASE lock # NONE
    <3>1. procs'[lock] = procs[lock]
      BY <1>2, <1>7, <2>3 DEF Inv
    <3>2. View' = View /\ View = Kept(procs[lock])
      BY <1>2, <2>3, <3>1 DEF View, Kept
    <3>3. Behind' = IF Untrusted[own] = Untrusted[View] THEN NONE ELSE own
      BY <1>2, <2>3, <3>1, <3>2 DEF Behind, AgreesWithDisk, Kept
    <3>4. QED
      BY <1>1, <1>5, <2>1, <2>3, <3>2, <3>3 DEF Store!LateWrite
  <2>4. QED
    BY <2>2, <2>3
<1>8. QED
  BY <1>6, <1>7

LEMMA ReturnRefines == ASSUME Inv, NEW t \in Thread, Return(t) PROVE Store!Return(t)
<1>1. Promised[t] = calls[t]
  BY DEF Inv, Return, Promised
<1>2. Promised' = [Promised EXCEPT ![t] = Store!NoCall]
  BY PromisedOne DEF Return, NoCall, Store!NoCall, Shown
<1>3. QED
  BY <1>1, <1>2, TablesKept DEF Return, Store!Return

LEMMA StepRefines == ASSUME Inv, [Next]_vars PROVE [Store!Next]_Abstract
<1>1. CASE UNCHANGED vars
  BY <1>1 DEF vars, Abstract, View, Behind, Leaving, Promised, AgreesWithDisk, Kept, Closed
<1>2. ASSUME NEW p \in Process, Open(p) \/ Close(p) \/ Die(p) PROVE Store!Next
  BY <1>2, OpenRefines, CloseRefines, DieRefines DEF Store!Next
<1>3. ASSUME NEW t \in Thread, NEW op \in Op, Invoke(t, op) PROVE Store!Next
  BY <1>3, InvokeRefines DEF Store!Next, Op, Store!Op
<1>4. ASSUME NEW t \in Thread, Read(t) \/ Reject(t) \/ Rename(t) \/ SaveFails(t) \/ Return(t)
      PROVE  Store!Next
  BY <1>4, ReadRefines, FailRefines, RenameRefines, ReturnRefines DEF Store!Next
<1>5. ASSUME NEW t \in Thread, WriteTemporary(t) \/ \E next \in Content : Mutate(t, next)
      PROVE  UNCHANGED Abstract
  BY <1>5, MutateRefines, WriteRefines
<1>6. QED
  BY <1>1, <1>2, <1>3, <1>4, <1>5 DEF Next

(* However threads interleave, saves fail and processes start, are shut down
   and die, each call of the process that serves takes effect at one moment or
   not at all, and a restart loses nothing but the trust in the inventory and
   what a process that was shut down wrote over (internal/store/durable).    *)
THEOREM StoreRefinement == Spec => ImplementsStore
<1>1. Init => Store!Init
  BY InitRefines
<1>2. Inv /\ [Next]_vars => [Store!Next]_Abstract
  BY StepRefines
<1>3. QED
  BY <1>1, <1>2, Consistent, PTL DEF Spec, ImplementsStore, Store!Spec, Abstract
=============================================================================
