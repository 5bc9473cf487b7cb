--------------------------- MODULE TrainingUpload ---------------------------
(***************************************************************************)
(* The outputs of one training job (application/training.go): its upload   *)
(* requests, each a handler that copies the training state, takes the      *)
(* upload lease, streams an object and publishes it; the two controller    *)
(* passes, which clear leases of dead uploads and ask for a checkpoint     *)
(* before the window ends; and a control plane that may die at any time.   *)
(* All of them write the whole training state back under its revision      *)
(* (UpdateTraining), so each may overwrite what it did not look at.        *)
(*                                                                         *)
(* The job's own life is the environment here; ControlPlane models it.     *)
(***************************************************************************)
EXTENDS Naturals

CONSTANTS
  Upload,         \* upload requests; each names the object it stores
  Ticker,         \* the controller passes
  NONE,           \* no upload, no object
  Window,         \* [start, warning, end] of the job
  UploadTimeout,  \* how long a lease protects an upload
  Grace,          \* how long outputs are accepted after a stop or the end
  MaxTime         \* bound: the clock stops here

ASSUME UploadAssumption ==
  /\ NONE \notin Upload
  /\ Window \in [start : Nat \ {0}, warning : Nat, end : Nat]
  /\ Window.start <= Window.warning /\ Window.warning <= Window.end
  /\ {UploadTimeout, MaxTime} \subseteq Nat
  /\ Grace \in Nat \ {0}

VARIABLES
  now,       \* the control plane's clock
  job,       \* status of the dispatched job, and when it was first stopped or over
  training,  \* the stored training state
  uploads,   \* upload handlers
  passes,    \* what each controller pass holds of the job
  objects    \* objects stored in full

vars == <<now, job, training, uploads, passes, objects>>

CheckpointStatus == {"NONE", "REQUESTED", "SAVING", "AVAILABLE", "FAILED"}
ArtifactStatus == {"NONE", "SAVING", "READY", "FAILED"}
Kind == {"checkpoint", "artifact"}
Reference == Upload \cup {NONE}
\* upload, kind and since are the lease; latest and final are object references.
TrainingState ==
  [checkpoint : CheckpointStatus, latest : Reference, created : Nat,
   artifact : ArtifactStatus, final : Reference,
   upload : Reference, kind : Kind, since : Nat, revision : Nat]
\* "ENDED" is any terminal status.
JobState == [status : {"STARTING", "RUNNING", "STOPPING", "ENDED"}, stopped : Nat]
Handler ==
  [stage : {"IDLE", "BEGUN", "STREAMING", "PUBLISHING", "DONE"}, kind : Kind,
   copy : TrainingState, deadline : Nat]
Pass == [stage : {"IDLE", "RECOVER", "REQUEST"}, job : JobState, copy : TrainingState]

NoOutput == [checkpoint |-> "NONE", latest |-> NONE, created |-> 0, artifact |-> "NONE",
             final |-> NONE, upload |-> NONE, kind |-> "checkpoint", since |-> 0, revision |-> 0]
Dispatched == [status |-> "STARTING", stopped |-> 0]
NoRequest == [stage |-> "IDLE", kind |-> "checkpoint", copy |-> NoOutput, deadline |-> 0]
Over == [NoRequest EXCEPT !.stage = "DONE"]
NoPass == [stage |-> "IDLE", job |-> Dispatched, copy |-> NoOutput]

Init ==
  /\ now = Window.start
  /\ job = Dispatched
  /\ training = NoOutput
  /\ uploads = [u \in Upload |-> NoRequest]
  /\ passes = [t \in Ticker |-> NoPass]
  /\ objects = {}

------------------------------------------------------------------------------
Earlier(a, b) == IF a < b THEN a ELSE b

(* trainingDeadline: the grace after the end or the first STOPPING or final
   event, whichever is earlier.                                              *)
Deadline(j) == (IF j.stopped = 0 THEN Window.end ELSE Earlier(j.stopped, Window.end)) + Grace

SessionOpen == now >= Window.start /\ now < Deadline(job)

Leased(state) == state.upload # NONE /\ now < state.since + UploadTimeout

(* UpdateTraining: the writer must have seen the latest revision, and a
   checkpoint is requested of a running job only.                            *)
Accepts_AnyRevision(next) ==
  (next.checkpoint = "REQUESTED" /\ training.checkpoint # "REQUESTED") => job.status = "RUNNING"
Accepts_AnyStatus(next) == training.revision = next.revision
Accepts(next) ==
  /\ training.revision = next.revision
  /\ (next.checkpoint = "REQUESTED" /\ training.checkpoint # "REQUESTED") => job.status = "RUNNING"
Stored(next) == [next EXCEPT !.revision = @ + 1]

------------------------------------------------------------------------------
(* SaveTrainingOutput, one repository call after the other.                  *)

Saving(state, u, kind) ==
  [state EXCEPT !.upload = u, !.kind = kind, !.since = now,
                !.checkpoint = IF kind = "checkpoint" THEN "SAVING" ELSE @,
                !.artifact = IF kind = "artifact" THEN "SAVING" ELSE @]

(* A lease that ran out may be taken over; a ready artifact is not replaced. *)
MayBegin_Replacing(kind) == ~Leased(training)
MayBegin(kind) == ~Leased(training) /\ (kind = "artifact" => training.artifact # "READY")

(* TrainingSession returned the job.                                         *)
Begin(u, kind) ==
  /\ uploads[u].stage = "IDLE"
  /\ SessionOpen
  /\ MayBegin(kind)
  /\ uploads' = [uploads EXCEPT ![u] =
       [stage |-> "BEGUN", kind |-> kind, copy |-> Saving(training, u, kind),
        deadline |-> Earlier(now + UploadTimeout, Deadline(job))]]
  /\ UNCHANGED <<now, job, training, passes, objects>>

(* The lease is stored, or the request ends: another writer was first, or
   the store could not be saved.                                             *)
TakeLease(u) ==
  LET copy == uploads[u].copy
  IN /\ uploads[u].stage = "BEGUN"
     /\ \/ /\ Accepts(copy)
           /\ training' = Stored(copy)
           /\ uploads' = [uploads EXCEPT ![u].stage = "STREAMING", ![u].copy = Stored(copy)]
        \/ /\ UNCHANGED training
           /\ uploads' = [uploads EXCEPT ![u] = Over]
     /\ UNCHANGED <<now, job, passes, objects>>

(* What a failed or expired upload leaves: the checkpoint before it.         *)
Fallback_Failed(state) == "FAILED"
Fallback(state) == IF state.latest # NONE THEN "AVAILABLE" ELSE "FAILED"

Published(state, u, kind) ==
  IF kind = "checkpoint"
  THEN [state EXCEPT !.checkpoint = "AVAILABLE", !.latest = u, !.created = now]
  ELSE [state EXCEPT !.artifact = "READY", !.final = u]
Spoiled_Alike(state, kind) ==
  IF kind = "checkpoint" THEN [state EXCEPT !.checkpoint = Fallback(state)]
  ELSE [state EXCEPT !.artifact = Fallback(state)]
Spoiled(state, kind) ==
  IF kind = "checkpoint" THEN [state EXCEPT !.checkpoint = Fallback(state)]
  ELSE [state EXCEPT !.artifact = "FAILED"]
Unleased(state) == [state EXCEPT !.upload = NONE, !.kind = "checkpoint"]

(* Put returned; the job is read again to see whether the deadline moved.    *)
InTime_AsBegun(u) == now < uploads[u].deadline
InTime(u) == now < uploads[u].deadline /\ now < Deadline(job)
PutReturned(u, ok) ==
  LET handler == uploads[u]
  IN /\ handler.stage = "STREAMING"
     /\ objects' = IF ok THEN objects \cup {u} ELSE objects
     /\ uploads' = [uploads EXCEPT
          ![u].stage = "PUBLISHING",
          ![u].copy = Unleased(IF ok /\ InTime(u) THEN Published(handler.copy, u, handler.kind)
                               ELSE Spoiled(handler.copy, handler.kind))]
     /\ UNCHANGED <<now, job, training, passes>>

(* The outcome is stored if nobody else wrote since, and the save succeeds.  *)
Publish(u) ==
  /\ uploads[u].stage = "PUBLISHING"
  /\ \/ Accepts(uploads[u].copy) /\ training' = Stored(uploads[u].copy)
     \/ UNCHANGED training
  /\ uploads' = [uploads EXCEPT ![u] = Over]
  /\ UNCHANGED <<now, job, passes, objects>>

------------------------------------------------------------------------------
(* processReservations.                                                      *)

ListJob(t) ==
  /\ passes[t].stage = "IDLE"
  /\ passes' = [passes EXCEPT ![t] = [stage |-> "RECOVER", job |-> job, copy |-> training]]
  /\ UNCHANGED <<now, job, training, uploads, objects>>

(* recoverTrainingUpload: the lease of an upload past its time is cleared.
   If another writer was first the pass goes on with its old copy.           *)
Abandoned_CheckpointOnly(pass) ==
  /\ pass.copy.upload # NONE /\ pass.copy.kind = "checkpoint"
  /\ ~Leased(pass.copy) \/ now >= Deadline(pass.job)
Abandoned(pass) ==
  /\ pass.copy.upload # NONE
  /\ ~Leased(pass.copy) \/ now >= Deadline(pass.job)
RecoverUpload(t) ==
  LET pass == passes[t]
      recovered == Unleased(Spoiled(pass.copy, pass.copy.kind))
  IN /\ pass.stage = "RECOVER"
     /\ IF Abandoned(pass) /\ Accepts(recovered)
        THEN /\ training' = Stored(recovered)
             /\ passes' = [passes EXCEPT ![t] =
                  [stage |-> "REQUEST", job |-> job, copy |-> Stored(recovered)]]
        ELSE /\ passes' = [passes EXCEPT ![t].stage = "REQUEST"]
             /\ UNCHANGED training
     /\ UNCHANGED <<now, job, uploads, objects>>

(* requestCheckpoint: a running job near its end with no checkpoint since the
   warning, and none on its way.                                             *)
Wanted(pass) ==
  /\ pass.job.status = "RUNNING"
  /\ ~Leased(pass.copy)
  /\ Window.warning <= now /\ now < Window.end
  /\ pass.copy.checkpoint \notin {"SAVING", "REQUESTED"}
  /\ pass.copy.created < Window.warning
RequestCheckpoint(t) ==
  LET requested == [passes[t].copy EXCEPT !.checkpoint = "REQUESTED"]
  IN /\ passes[t].stage = "REQUEST"
     /\ training' = IF Wanted(passes[t]) /\ Accepts(requested) THEN Stored(requested) ELSE training
     /\ passes' = [passes EXCEPT ![t] = NoPass]
     /\ UNCHANGED <<now, job, uploads, objects>>

------------------------------------------------------------------------------
(* The job, the clock and the process.                                       *)

(* transitionLocked, whoever calls it.  A failed STOP makes the job RUNNING
   again; the event of its STOPPING stays.                                   *)
JobMoves(status) ==
  /\ job.status # "ENDED"
  /\ <<job.status, status>> \in
       {<<"STARTING", "RUNNING">>, <<"STARTING", "STOPPING">>, <<"RUNNING", "STOPPING">>,
        <<"STOPPING", "RUNNING">>} \cup ({"STARTING", "RUNNING", "STOPPING"} \X {"ENDED"})
  /\ job' = [status |-> status,
             stopped |-> IF status # "RUNNING" /\ job.stopped = 0 THEN now ELSE job.stopped]
  /\ UNCHANGED <<now, training, uploads, passes, objects>>

Tick ==
  /\ now < MaxTime
  /\ now' = now + 1
  /\ UNCHANGED <<job, training, uploads, passes, objects>>

(* The process dies: handlers and passes are gone, what was stored is not.   *)
Crash ==
  /\ uploads' = [u \in Upload |-> IF uploads[u].stage = "IDLE" THEN uploads[u] ELSE Over]
  /\ passes' = [t \in Ticker |-> NoPass]
  /\ <<uploads, passes>>' # <<uploads, passes>>
  /\ UNCHANGED <<now, job, training, objects>>

UploadStep ==
  \E u \in Upload : \/ \E kind \in Kind : Begin(u, kind)
                    \/ TakeLease(u)
                    \/ \E ok \in BOOLEAN : PutReturned(u, ok)
                    \/ Publish(u)
PassStep(t) == ListJob(t) \/ RecoverUpload(t) \/ RequestCheckpoint(t)

Next ==
  \/ UploadStep
  \/ \E t \in Ticker : PassStep(t)
  \/ \E status \in {"RUNNING", "STOPPING", "ENDED"} : JobMoves(status)
  \/ Tick
  \/ Crash

Spec == Init /\ [][Next]_vars

(* The loops run and time passes; no upload has to finish.  A control plane
   that dies for ever recovers nothing, so it is assumed to stay up long
   enough for a pass.                                                        *)
FairSpec ==
  /\ Spec
  /\ WF_vars(Tick)
  /\ \A t \in Ticker : /\ WF_vars(ListJob(t))
                       /\ SF_vars(RecoverUpload(t))
                       /\ WF_vars(RequestCheckpoint(t))

------------------------------------------------------------------------------
(* Properties.                                                               *)

(* The training state, the handlers and the passes keep their shape.         *)
TypeOK ==
  /\ now \in Nat
  /\ job \in JobState
  /\ training \in TrainingState
  /\ uploads \in [Upload -> Handler]
  /\ passes \in [Ticker -> Pass]
  /\ objects \subseteq Upload

(* Only an upload that still holds the lease publishes: one that was timed
   out, replaced or recovered never overwrites newer outputs, however late it
   finishes (UpdateTraining).                                                *)
OnlyHolderPublishes ==
  [][/\ training'.latest # training.latest => training'.latest = training.upload
     /\ training'.final # training.final => training'.final = training.upload]_vars

(* What is published was stored in full, and a checkpoint before the grace
   ended, also that of a STOP that came while it was streaming or waiting to
   be stored (SaveTrainingOutput).                                           *)
PublishedInTime ==
  [][/\ training'.latest # training.latest =>
          training'.latest \in objects /\ training'.created < Deadline(job)
     /\ training'.final # training.final => training'.final \in objects]_vars

(* A final artifact stays, whatever uploads, passes and crashes follow
   (SaveTrainingOutput).                                                     *)
ArtifactFinal ==
  [][training.artifact = "READY" =>
       training'.artifact = "READY" /\ training'.final = training.final]_vars

(* A checkpoint is asked of a running job only, never over an upload that
   still holds its lease (requestCheckpoint, UpdateTraining).                *)
AskedWhileRunning ==
  [][(training'.checkpoint = "REQUESTED" /\ training.checkpoint # "REQUESTED")
       => job.status = "RUNNING" /\ ~Leased(training)]_vars

(* docs/DOMAIN_MODEL.md: FAILED only when there is no usable checkpoint; a
   failed, late or recovered upload falls back to the one before it.         *)
FailedMeansNone == training.checkpoint = "FAILED" => training.latest = NONE

(* No dead upload blocks its successors for ever: every lease is given back
   or taken over, at the latest after the clock reached its end
   (recoverTrainingUpload).                                                  *)
LeasesEnd ==
  \A u \in Upload :
    (training.upload = u /\ training.since + UploadTimeout <= MaxTime)
      ~> training.upload # u

(* docs/DOMAIN_MODEL.md: a failed replacement keeps the earlier checkpoint
   AVAILABLE.  The code disagrees: an artifact upload that takes over the
   expired lease of a checkpoint upload leaves SAVING behind, with no upload
   (SaveTrainingOutput).                                                     *)
PriorCheckpointKept ==
  (training.latest # NONE /\ training.upload = NONE)
    => training.checkpoint \in {"AVAILABLE", "REQUESTED"}
=============================================================================
