------------------------------ MODULE GpuPool ------------------------------
(***************************************************************************)
(* What the control plane promises of its GPUs, with no word of servers,   *)
(* reports, calendars or commands: every job takes GPUs that suit it at    *)
(* most once, all at once and from nobody, and gives all of them back when *)
(* it finishes, which it does once.                                        *)
(***************************************************************************)
CONSTANTS
  Job,
  Suits   \* for each job, the sets of slots it can run on; a slot is a GPU of a server

VARIABLES
  phase,  \* "WAITING", "HOLDING" or "DONE"
  held    \* the slots each job holds

poolVars == <<phase, held>>

PoolInit ==
  /\ phase = [j \in Job |-> "WAITING"]
  /\ held = [j \in Job |-> {}]

Acquire(j, slots) ==
  /\ phase[j] = "WAITING"
  /\ slots \in Suits[j]
  /\ \A k \in Job : held[k] \cap slots = {}
  /\ phase' = [phase EXCEPT ![j] = "HOLDING"]
  /\ held' = [held EXCEPT ![j] = slots]

(* One inventory may report the end of several jobs.                         *)
Finish(finished) ==
  /\ \A j \in finished : phase[j] # "DONE"
  /\ phase' = [j \in Job |-> IF j \in finished THEN "DONE" ELSE phase[j]]
  /\ held' = [j \in Job |-> IF j \in finished THEN {} ELSE held[j]]

PoolNext ==
  \/ \E j \in Job : \E slots \in Suits[j] : Acquire(j, slots)
  \/ \E finished \in SUBSET Job : Finish(finished)

PoolSpec == PoolInit /\ [][PoolNext]_poolVars
=============================================================================
