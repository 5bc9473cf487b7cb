---------------------------- MODULE AtomicStore -----------------------------
(***************************************************************************)
(* What the durable store promises the control plane: one process at a     *)
(* time serves the tables; each call takes effect at one moment between    *)
(* its start and its answer, or fails without effect; a process that dies  *)
(* at any moment loses no effect, and leaves no call half done.  What the  *)
(* tables said of the servers' inventory is distrusted then.               *)
(*                                                                         *)
(* And what it does not promise: a process that was shut down may go on    *)
(* for a while with tables of its own.  What it then writes takes the      *)
(* place of the tables, at once if nobody serves them, else behind the     *)
(* back of the process that does, when that ends without another write.    *)
(***************************************************************************)
CONSTANTS
  Process,    \* processes that want to serve the tables
  Thread,     \* their goroutines: handlers and controller loops
  Home,       \* the process of each thread
  Content,    \* what the tables may say
  Empty,      \* the tables of a new system
  Untrusted,  \* the tables, with their inventory distrusted
  NONE

VARIABLES
  saved,    \* the tables
  behind,   \* tables written behind the server's back, if any
  server,   \* the process that serves the tables
  leaving,  \* processes that were shut down and are not over
  calls     \* the call of each thread

Op == {"READ", "WRITE"}
NoCall == [stage |-> "IDLE", op |-> "READ", value |-> NONE]
Call == [stage : {"IDLE", "WAITING", "DONE", "FAILED"}, op : Op, value : Content \cup {NONE}]

Init ==
  /\ saved = Empty
  /\ behind = NONE
  /\ server = NONE
  /\ leaving = {}
  /\ calls = [t \in Thread |-> NoCall]

Start(p) ==
  /\ server = NONE /\ p \notin leaving
  /\ server' = p
  /\ UNCHANGED <<saved, behind, leaving, calls>>

(* The next process finds the last tables that anybody wrote.                *)
Unserved ==
  /\ server' = NONE
  /\ saved' = Untrusted[IF behind = NONE THEN saved ELSE behind]
  /\ behind' = NONE

Shutdown ==
  /\ server # NONE
  /\ Unserved
  /\ leaving' = leaving \cup {server}
  /\ UNCHANGED calls

(* Nobody gets an answer any more.                                           *)
Silence(p) == calls' = [t \in Thread |-> IF Home[t] = p THEN NoCall ELSE calls[t]]
Death ==
  /\ server # NONE
  /\ Unserved
  /\ Silence(server)
  /\ UNCHANGED leaving
End(p) ==
  /\ p \in leaving
  /\ leaving' = leaving \ {p}
  /\ Silence(p)
  /\ UNCHANGED <<saved, behind, server>>

Running(t) == Home[t] = server \/ Home[t] \in leaving

Invoke(t, op) ==
  /\ Running(t) /\ calls[t].stage = "IDLE"
  /\ calls' = [calls EXCEPT ![t] = [stage |-> "WAITING", op |-> op, value |-> NONE]]
  /\ UNCHANGED <<saved, behind, server, leaving>>

Ends(t, op, stage, value) ==
  /\ Running(t) /\ calls[t].stage = "WAITING" /\ calls[t].op = op
  /\ calls' = [calls EXCEPT ![t] = [stage |-> stage, op |-> op, value |-> value]]
  /\ UNCHANGED <<server, leaving>>

Read(t) ==
  /\ Ends(t, "READ", "DONE", saved)
  /\ Home[t] = server
  /\ UNCHANGED <<saved, behind>>
Write(t) ==
  /\ Ends(t, "WRITE", "DONE", NONE)
  /\ Home[t] = server
  /\ saved' \in Content /\ behind' = NONE
Fail(t) == Ends(t, "WRITE", "FAILED", NONE) /\ UNCHANGED <<saved, behind>>

(* A call of a process that was shut down reads and writes tables of its own;
   if these say what the server's do, nobody notices.                        *)
LateRead(t) ==
  /\ \E own \in Content : Ends(t, "READ", "DONE", own)
  /\ Home[t] \in leaving
  /\ UNCHANGED <<saved, behind>>
LateWrite(t) ==
  /\ Ends(t, "WRITE", "DONE", NONE)
  /\ Home[t] \in leaving
  /\ \E own \in Content :
       IF server = NONE THEN saved' = Untrusted[own] /\ UNCHANGED behind
       ELSE /\ behind' = IF Untrusted[own] = Untrusted[saved] THEN NONE ELSE own
            /\ UNCHANGED saved

Return(t) ==
  /\ calls[t].stage \in {"DONE", "FAILED"}
  /\ calls' = [calls EXCEPT ![t] = NoCall]
  /\ UNCHANGED <<saved, behind, server, leaving>>

Next ==
  \/ \E p \in Process : Start(p) \/ End(p)
  \/ Shutdown \/ Death
  \/ \E t \in Thread :
       \/ \E op \in Op : Invoke(t, op)
       \/ Read(t) \/ Write(t) \/ Fail(t) \/ LateRead(t) \/ LateWrite(t) \/ Return(t)

Spec == Init /\ [][Next]_<<saved, behind, server, leaving, calls>>
=============================================================================
