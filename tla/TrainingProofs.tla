--------------------------- MODULE TrainingProofs ---------------------------
(***************************************************************************)
(* What holds of the outputs of a training job for any number of uploads   *)
(* and controller passes.  Every write raises the revision, so a copy that *)
(* can still be stored is one taken, or leased, from the state as it is:   *)
(* the invariant says of such copies how they differ from it (Current).    *)
(***************************************************************************)
EXTENDS TrainingUpload, TLAPS

Fresh(copy) == copy.revision = training.revision

(* A copy of the training state that its holder has not changed.             *)
Kept(copy) ==
  /\ copy.latest = training.latest /\ copy.final = training.final
  /\ copy.checkpoint = "REQUESTED" => training.checkpoint = "REQUESTED"

(* What a handler may still store, by its stage.                             *)
Current(u) ==
  LET handler == uploads[u]
      copy == handler.copy
  IN /\ handler.stage = "BEGUN" =>
          /\ Kept(copy)
          /\ copy.upload = u /\ copy.kind = handler.kind
          /\ IF handler.kind = "artifact"
             THEN training.artifact # "READY" /\ copy.artifact = "SAVING"
             ELSE copy.artifact = training.artifact
     /\ handler.stage = "STREAMING" =>
          /\ copy = training
          /\ training.upload = u
          /\ handler.kind = "artifact" => training.artifact = "SAVING"
     /\ handler.stage = "PUBLISHING" =>
          /\ training.upload = u /\ copy.upload = NONE
          /\ copy.checkpoint = "REQUESTED" => training.checkpoint = "REQUESTED"
          /\ copy.latest # training.latest =>
               /\ copy.latest = u /\ u \in objects
               /\ copy.created <= now /\ copy.created < Deadline(job)
          /\ copy.final # training.final => copy.final = u /\ u \in objects
          /\ training.artifact = "READY" =>
               copy.artifact = "READY" /\ copy.final = training.final

NoneFailed(state) == state.checkpoint = "FAILED" => state.latest = NONE

(* The lease of an artifact upload means the artifact is not there yet.      *)
LeaseOpen == (training.upload # NONE /\ training.kind = "artifact") => training.artifact # "READY"

HandlersCurrent ==
  \A u \in Upload :
    /\ NoneFailed(uploads[u].copy)
    /\ uploads[u].stage \in {"BEGUN", "STREAMING", "PUBLISHING"} =>
         /\ uploads[u].copy.revision <= training.revision
         /\ Fresh(uploads[u].copy) => Current(u)

PassesCurrent ==
  \A t \in Ticker :
    /\ NoneFailed(passes[t].copy)
    /\ passes[t].stage # "IDLE" =>
         /\ passes[t].copy.revision <= training.revision
         /\ Fresh(passes[t].copy) => passes[t].copy = training

Inv == TypeOK /\ FailedMeansNone /\ LeaseOpen /\ HandlersCurrent /\ PassesCurrent

(* What a step does to the stored state.                                     *)
Writes ==
  /\ training'.latest # training.latest =>
       /\ training'.latest = training.upload /\ training'.latest \in objects
       /\ training'.created < Deadline(job)
  /\ training'.final # training.final =>
       training'.final = training.upload /\ training'.final \in objects
  /\ training.artifact = "READY" =>
       training'.artifact = "READY" /\ training'.final = training.final
  /\ (training'.checkpoint = "REQUESTED" /\ training.checkpoint # "REQUESTED")
       => job.status = "RUNNING" /\ ~Leased(training)

------------------------------------------------------------------------------
LEMMA InitInv == Init => Inv
BY UploadAssumption
DEF Init, Inv, TypeOK, FailedMeansNone, LeaseOpen, HandlersCurrent, PassesCurrent, NoneFailed, NoOutput,
    NoRequest, NoPass, Dispatched, JobState, TrainingState, Handler, Pass, Reference,
    CheckpointStatus, ArtifactStatus, Kind

(* Storing a state keeps its shape and raises the revision.                  *)
LEMMA StoredType ==
  ASSUME NEW state \in TrainingState
  PROVE  /\ Stored(state) \in TrainingState
         /\ Stored(state).revision = state.revision + 1
         /\ Stored(state).latest = state.latest /\ Stored(state).final = state.final
         /\ Stored(state).checkpoint = state.checkpoint
         /\ Stored(state).artifact = state.artifact
         /\ Stored(state).upload = state.upload /\ Stored(state).kind = state.kind
         /\ Stored(state).created = state.created
BY DEF Stored, TrainingState

LEMMA DeadlineType ==
  ASSUME NEW j \in JobState
  PROVE  Deadline(j) \in Nat
BY UploadAssumption DEF Deadline, Earlier, JobState

(* The state a spoiled upload leaves (recoverTrainingUpload, and the failure
   path of SaveTrainingOutput).                                              *)
LEMMA SpoiledType ==
  ASSUME NEW state \in TrainingState, NEW kind \in Kind
  PROVE  LET spoiled == Unleased(Spoiled(state, kind))
         IN /\ spoiled \in TrainingState
            /\ spoiled.revision = state.revision /\ spoiled.upload = NONE
            /\ spoiled.latest = state.latest /\ spoiled.final = state.final
            /\ NoneFailed(state) => NoneFailed(spoiled)
            /\ spoiled.checkpoint = "REQUESTED" => state.checkpoint = "REQUESTED"
            /\ kind = "checkpoint" => spoiled.artifact = state.artifact
            /\ kind = "artifact" => spoiled.artifact = "FAILED"
BY DEF Unleased, Spoiled, Fallback, NoneFailed, TrainingState, CheckpointStatus, ArtifactStatus,
       Reference, Kind

(* What the invariant says of one handler and of one pass.                   *)
HandlerCurrent(u) ==
  /\ NoneFailed(uploads[u].copy)
  /\ uploads[u].stage \in {"BEGUN", "STREAMING", "PUBLISHING"} =>
       /\ uploads[u].copy.revision <= training.revision
       /\ Fresh(uploads[u].copy) => Current(u)
PassCurrent(t) ==
  /\ NoneFailed(passes[t].copy)
  /\ passes[t].stage # "IDLE" =>
       /\ passes[t].copy.revision <= training.revision
       /\ Fresh(passes[t].copy) => passes[t].copy = training

Parts ==
  /\ TypeOK /\ FailedMeansNone /\ LeaseOpen
  /\ \A u \in Upload : HandlerCurrent(u)
  /\ \A t \in Ticker : PassCurrent(t)

LEMMA InvParts == (Inv <=> Parts) /\ (Inv' <=> Parts')
BY DEF Parts, Inv, HandlersCurrent, PassesCurrent, HandlerCurrent, PassCurrent

(* Time, the job and other uploads may move under a handler.                 *)
LEMMA HandlerKept ==
  ASSUME Inv, NEW u \in Upload, uploads'[u] = uploads[u], UNCHANGED training,
         objects \subseteq objects', now <= now', now' \in Nat,
         \A at \in Nat : (at <= now /\ at < Deadline(job)) => at < Deadline(job')
  PROVE  HandlerCurrent(u)'
<1>1. HandlerCurrent(u) /\ now \in Nat /\ uploads[u].copy.created \in Nat
  BY InvParts DEF Parts, Inv, TypeOK, Handler, TrainingState
<1>2. Current(u) => Current(u)'
  BY <1>1 DEF Current, Kept
<1> QED
  BY <1>1, <1>2 DEF HandlerCurrent, NoneFailed, Fresh

(* A write makes every other copy too old to be stored.                      *)
LEMMA HandlerStale ==
  ASSUME Inv, training' \in TrainingState, training'.revision = training.revision + 1,
         NEW u \in Upload, uploads'[u] = uploads[u]
  PROVE  HandlerCurrent(u)'
<1>1. HandlerCurrent(u) /\ uploads[u].copy.revision \in Nat /\ training.revision \in Nat
  BY InvParts DEF Parts, Inv, TypeOK, Handler, TrainingState
<1>2. uploads'[u].stage \in {"BEGUN", "STREAMING", "PUBLISHING"} =>
        /\ uploads'[u].copy.revision <= training'.revision
        /\ uploads'[u].copy.revision # training'.revision
  BY <1>1 DEF HandlerCurrent
<1> QED
  BY <1>1, <1>2 DEF HandlerCurrent, NoneFailed, Fresh

LEMMA PassKept ==
  ASSUME Inv, NEW t \in Ticker, passes'[t] = passes[t], UNCHANGED training
  PROVE  PassCurrent(t)'
BY InvParts DEF Parts, PassCurrent, NoneFailed, Fresh

LEMMA PassStale ==
  ASSUME Inv, training' \in TrainingState, training'.revision = training.revision + 1,
         NEW t \in Ticker, passes'[t] = passes[t]
  PROVE  PassCurrent(t)'
<1>1. PassCurrent(t) /\ passes[t].copy.revision \in Nat /\ training.revision \in Nat
  BY InvParts DEF Parts, Inv, TypeOK, Pass, TrainingState
<1>2. passes'[t].stage # "IDLE" =>
        /\ passes'[t].copy.revision <= training'.revision
        /\ passes'[t].copy.revision # training'.revision
  BY <1>1 DEF PassCurrent
<1> QED
  BY <1>1, <1>2 DEF PassCurrent, NoneFailed, Fresh

(* A handler that is over, and a pass that is over, have no copy.            *)
LEMMA NothingHeld ==
  /\ Over \in Handler /\ Over.stage = "DONE" /\ NoneFailed(Over.copy)
  /\ NoPass \in Pass /\ NoPass.stage = "IDLE" /\ NoneFailed(NoPass.copy)
BY UploadAssumption
DEF Over, NoRequest, NoPass, NoOutput, Dispatched, Handler, Pass, TrainingState, JobState,
    Reference, CheckpointStatus, ArtifactStatus, Kind, NoneFailed

------------------------------------------------------------------------------
(* One lemma per action.                                                     *)

LEMMA BeginInv ==
  ASSUME Inv, NEW u \in Upload, NEW kind \in Kind, Begin(u, kind)
  PROVE  Inv' /\ Writes
<1> DEFINE copy == Saving(training, u, kind)
<1>1. /\ training \in TrainingState /\ now \in Nat /\ job \in JobState
      /\ uploads \in [Upload -> Handler]
  BY DEF Inv, TypeOK
<1>2. /\ copy \in TrainingState
      /\ copy.revision = training.revision
      /\ copy.latest = training.latest /\ copy.final = training.final
      /\ copy.upload = u /\ copy.kind = kind
      /\ copy.checkpoint = IF kind = "checkpoint" THEN "SAVING" ELSE training.checkpoint
      /\ copy.artifact = IF kind = "artifact" THEN "SAVING" ELSE training.artifact
  BY <1>1 DEF Saving, TrainingState, CheckpointStatus, ArtifactStatus, Reference
<1> HIDE DEF copy
<1>3. Earlier(now + UploadTimeout, Deadline(job)) \in Nat
  BY <1>1, DeadlineType, UploadAssumption DEF Earlier
<1>4. /\ uploads' \in [Upload -> Handler]
      /\ \A v \in Upload \ {u} : uploads'[v] = uploads[v]
      /\ uploads'[u].stage = "BEGUN" /\ uploads'[u].kind = kind /\ uploads'[u].copy = copy
  BY <1>1, <1>2, <1>3 DEF Begin, Handler, copy
<1>5. TypeOK' /\ FailedMeansNone' /\ LeaseOpen'
  BY <1>4 DEF Inv, TypeOK, FailedMeansNone, LeaseOpen, Begin
<1>6. HandlerCurrent(u)'
  <2>1. NoneFailed(copy)
    BY <1>2 DEF NoneFailed, Inv, FailedMeansNone
  <2>2. Current(u)'
    <3>1. kind = "artifact" => training.artifact # "READY"
      BY DEF Begin, MayBegin
    <3> QED
      BY <1>2, <1>4, <3>1 DEF Current, Kept, Begin, Kind
  <2> QED
    BY <1>1, <1>2, <1>4, <2>1, <2>2 DEF HandlerCurrent, NoneFailed, Begin, TrainingState
<1>7. \A v \in Upload \ {u} : HandlerCurrent(v)'
  BY <1>1, <1>4, HandlerKept DEF Begin
<1>8. \A t \in Ticker : PassCurrent(t)'
  BY PassKept DEF Begin
<1> QED
  BY <1>5, <1>6, <1>7, <1>8, InvParts DEF Parts, Writes, Begin

(* Steps that leave the stored state alone and end handlers or passes.       *)
LEMMA EndInv ==
  ASSUME Inv, UNCHANGED <<now, job, training, objects>>,
         uploads' \in [Upload -> Handler], passes' \in [Ticker -> Pass],
         \A u \in Upload : uploads'[u] \in {uploads[u], Over},
         \A t \in Ticker : passes'[t] \in {passes[t], NoPass}
  PROVE  Inv' /\ Writes
<1>1. TypeOK' /\ FailedMeansNone' /\ LeaseOpen'
  BY DEF Inv, TypeOK, FailedMeansNone, LeaseOpen
<1>2. ASSUME NEW u \in Upload PROVE HandlerCurrent(u)'
  <2>1. CASE uploads'[u] = uploads[u]
    BY <2>1, HandlerKept DEF Inv, TypeOK
  <2>2. CASE uploads'[u] = Over
    BY <2>2, NothingHeld DEF HandlerCurrent, NoneFailed
  <2> QED
    BY <2>1, <2>2
<1>3. ASSUME NEW t \in Ticker PROVE PassCurrent(t)'
  <2>1. CASE passes'[t] = passes[t]
    BY <2>1, PassKept
  <2>2. CASE passes'[t] = NoPass
    BY <2>2, NothingHeld DEF PassCurrent, NoneFailed
  <2> QED
    BY <2>1, <2>2
<1> QED
  BY <1>1, <1>2, <1>3, InvParts DEF Parts, Writes

LEMMA TakeLeaseInv ==
  ASSUME Inv, NEW u \in Upload, TakeLease(u)
  PROVE  Inv' /\ Writes
<1> DEFINE handler == uploads[u]
           copy == handler.copy
<1>1. /\ uploads \in [Upload -> Handler] /\ handler \in Handler /\ copy \in TrainingState
      /\ training.revision \in Nat
  BY DEF Inv, TypeOK, Handler, TrainingState
<1>2. CASE training' = training /\ uploads' = [uploads EXCEPT ![u] = Over]
  BY <1>1, <1>2, EndInv, NothingHeld DEF TakeLease, Inv, TypeOK
<1>3. CASE /\ Accepts(copy)
           /\ training' = Stored(copy)
           /\ uploads' = [uploads EXCEPT ![u].stage = "STREAMING", ![u].copy = Stored(copy)]
  <2>1. Fresh(copy) /\ Current(u) /\ NoneFailed(copy)
    BY <1>1, <1>3, InvParts DEF Parts, TakeLease, Accepts, Fresh, HandlerCurrent
  <2>2. /\ training' \in TrainingState /\ training'.revision = training.revision + 1
        /\ training'.latest = training.latest /\ training'.final = training.final
        /\ training'.upload = u /\ training'.kind = handler.kind
        /\ training'.checkpoint = copy.checkpoint /\ training'.artifact = copy.artifact
        /\ copy.checkpoint = "REQUESTED" => training.checkpoint = "REQUESTED"
        /\ handler.kind = "artifact" => training.artifact # "READY" /\ copy.artifact = "SAVING"
        /\ handler.kind # "artifact" => copy.artifact = training.artifact
    BY <1>1, <1>3, <2>1, StoredType DEF TakeLease, Current, Kept, Fresh
  <2>3. /\ uploads' \in [Upload -> Handler]
        /\ \A v \in Upload \ {u} : uploads'[v] = uploads[v]
        /\ uploads'[u].stage = "STREAMING" /\ uploads'[u].copy = training'
        /\ uploads'[u].kind = handler.kind
    BY <1>1, <1>3, <2>2 DEF Handler
  <2>4. NoneFailed(training')
    BY <1>1, <1>3, <2>1, StoredType DEF NoneFailed
  <2>5. TypeOK' /\ FailedMeansNone' /\ LeaseOpen'
    BY <2>2, <2>3, <2>4 DEF Inv, TypeOK, FailedMeansNone, LeaseOpen, NoneFailed, TakeLease
  <2>6. HandlerCurrent(u)'
    BY <2>2, <2>3, <2>4 DEF HandlerCurrent, NoneFailed, Current, TrainingState
  <2>7. \A v \in Upload \ {u} : HandlerCurrent(v)'
    BY <2>2, <2>3, HandlerStale
  <2>8. \A t \in Ticker : PassCurrent(t)'
    BY <2>2, PassStale DEF TakeLease
  <2>9. Writes
    BY <2>2 DEF Writes
  <2> QED
    BY <2>5, <2>6, <2>7, <2>8, <2>9, InvParts DEF Parts
<1> QED
  BY <1>2, <1>3 DEF TakeLease

LEMMA PutReturnedInv ==
  ASSUME Inv, NEW u \in Upload, NEW ok \in BOOLEAN, PutReturned(u, ok)
  PROVE  Inv' /\ Writes
<1> DEFINE handler == uploads[u]
           copy == handler.copy
           good == Published(copy, u, handler.kind)
           bad == Spoiled(copy, handler.kind)
<1>1. /\ uploads \in [Upload -> Handler] /\ handler \in Handler /\ copy \in TrainingState
      /\ handler.kind \in Kind /\ now \in Nat /\ objects \subseteq Upload
  BY DEF Inv, TypeOK, Handler
<1>2. NoneFailed(copy) /\ (Fresh(copy) => Current(u)) /\ copy.revision <= training.revision
  BY <1>1, InvParts DEF Parts, PutReturned, HandlerCurrent
<1>3. /\ uploads' \in [Upload -> Handler]
      /\ \A v \in Upload \ {u} : uploads'[v] = uploads[v]
      /\ uploads'[u].stage = "PUBLISHING" /\ uploads'[u].kind = handler.kind
      /\ uploads'[u].copy = IF ok /\ InTime(u) THEN Unleased(good) ELSE Unleased(bad)
  <2>1. Unleased(good) \in TrainingState /\ Unleased(bad) \in TrainingState
    <3>1. good \in TrainingState
      BY <1>1 DEF Published, TrainingState, CheckpointStatus, ArtifactStatus, Reference
    <3>2. Unleased(good) \in TrainingState
      BY <3>1 DEF Unleased, TrainingState, Reference, Kind
    <3> QED
      BY <1>1, <3>2, SpoiledType
  <2> HIDE DEF good, bad
  <2> QED
    BY <1>1, <2>1 DEF PutReturned, Handler, good, bad
<1>4. /\ Unleased(good).revision = copy.revision /\ Unleased(good).upload = NONE
      /\ NoneFailed(Unleased(good))
      /\ handler.kind = "checkpoint" =>
           /\ Unleased(good).checkpoint = "AVAILABLE" /\ Unleased(good).latest = u
           /\ Unleased(good).created = now
           /\ Unleased(good).final = copy.final /\ Unleased(good).artifact = copy.artifact
      /\ handler.kind = "artifact" =>
           /\ Unleased(good).checkpoint = copy.checkpoint /\ Unleased(good).latest = copy.latest
           /\ Unleased(good).final = u /\ Unleased(good).artifact = "READY"
  BY <1>1, <1>2 DEF Unleased, Published, NoneFailed, TrainingState, Kind
<1>5. TypeOK' /\ FailedMeansNone' /\ LeaseOpen'
  BY <1>1, <1>3 DEF PutReturned, Inv, TypeOK, FailedMeansNone, LeaseOpen
<1>6. HandlerCurrent(u)'
  <2>1. CASE ok /\ InTime(u)
    <3>1. uploads'[u].copy = Unleased(good)
      BY <1>3, <2>1
    <3>2. u \in objects' /\ now < Deadline(job)
      BY <2>1 DEF PutReturned, InTime
    <3>3. Fresh(copy) => Current(u)'
      <4> SUFFICES ASSUME Fresh(copy)
                   PROVE  Current(u)'
        OBVIOUS
      <4>1. copy = training /\ training.upload = u /\ (handler.kind = "artifact" => training.artifact = "SAVING")
        BY <1>2 DEF Current, PutReturned
      <4> HIDE DEF good, copy
      <4> QED
        BY <1>1, <1>3, <1>4, <3>1, <3>2, <4>1 DEF Current, PutReturned, Kind
    <3> HIDE DEF good
    <3> QED
      BY <1>1, <1>2, <1>3, <1>4, <3>1, <3>3 DEF HandlerCurrent, Fresh, PutReturned, NoneFailed
  <2>2. CASE ~(ok /\ InTime(u))
    <3>1. uploads'[u].copy = Unleased(bad)
      BY <1>3, <2>2
    <3>2. /\ Unleased(bad).revision = copy.revision /\ Unleased(bad).upload = NONE
          /\ Unleased(bad).latest = copy.latest /\ Unleased(bad).final = copy.final
          /\ NoneFailed(Unleased(bad))
          /\ Unleased(bad).checkpoint = "REQUESTED" => copy.checkpoint = "REQUESTED"
          /\ handler.kind = "checkpoint" => Unleased(bad).artifact = copy.artifact
      BY <1>1, <1>2, SpoiledType
    <3>3. Fresh(copy) => Current(u)'
      <4> SUFFICES ASSUME Fresh(copy)
                   PROVE  Current(u)'
        OBVIOUS
      <4>1. copy = training /\ training.upload = u /\ (handler.kind = "artifact" => training.artifact = "SAVING")
        BY <1>2 DEF Current, PutReturned
      <4> HIDE DEF bad, copy
      <4> QED
        BY <1>1, <1>3, <3>1, <3>2, <4>1 DEF Current, PutReturned, Kind
    <3> HIDE DEF bad
    <3> QED
      BY <1>1, <1>2, <1>3, <3>1, <3>2, <3>3 DEF HandlerCurrent, Fresh, PutReturned, NoneFailed
  <2> QED
    BY <2>1, <2>2
<1>7. \A v \in Upload \ {u} : HandlerCurrent(v)'
  BY <1>1, <1>3, HandlerKept DEF PutReturned
<1>8. \A t \in Ticker : PassCurrent(t)'
  BY PassKept DEF PutReturned
<1> QED
  BY <1>5, <1>6, <1>7, <1>8, InvParts DEF Parts, Writes, PutReturned

LEMMA PublishInv ==
  ASSUME Inv, NEW u \in Upload, Publish(u)
  PROVE  Inv' /\ Writes
<1> DEFINE copy == uploads[u].copy
<1>1. /\ uploads \in [Upload -> Handler] /\ copy \in TrainingState
      /\ training \in TrainingState
      /\ uploads' = [uploads EXCEPT ![u] = Over]
  BY DEF Inv, TypeOK, Handler, Publish
<1>2. /\ uploads' \in [Upload -> Handler] /\ uploads'[u] = Over
      /\ \A v \in Upload \ {u} : uploads'[v] = uploads[v]
  BY <1>1, NothingHeld
<1>3. CASE training' = training
  BY <1>1, <1>2, <1>3, EndInv DEF Publish, Inv, TypeOK
<1>4. CASE Accepts(copy) /\ training' = Stored(copy)
  <2>1. Current(u) /\ NoneFailed(copy)
    BY <1>1, <1>4, InvParts DEF Parts, Publish, Accepts, Fresh, HandlerCurrent
  <2>2. /\ training' \in TrainingState /\ training'.revision = training.revision + 1
        /\ training'.latest = copy.latest /\ training'.final = copy.final
        /\ training'.created = copy.created /\ training'.upload = copy.upload
        /\ training'.checkpoint = copy.checkpoint /\ training'.artifact = copy.artifact
    BY <1>1, <1>4, StoredType DEF Accepts
  <2>3. Writes
    BY <2>1, <2>2 DEF Writes, Current, Publish
  <2>4. TypeOK' /\ FailedMeansNone' /\ LeaseOpen'
    BY <1>2, <2>1, <2>2 DEF Inv, TypeOK, FailedMeansNone, LeaseOpen, NoneFailed, Current, Publish
  <2>5. HandlerCurrent(u)'
    BY <1>2, NothingHeld DEF HandlerCurrent, NoneFailed
  <2>6. \A v \in Upload \ {u} : HandlerCurrent(v)'
    BY <1>2, <2>2, HandlerStale
  <2>7. \A t \in Ticker : PassCurrent(t)'
    BY <2>2, PassStale DEF Publish
  <2> QED
    BY <2>3, <2>4, <2>5, <2>6, <2>7, InvParts DEF Parts
<1> QED
  BY <1>3, <1>4 DEF Publish

LEMMA ListJobInv ==
  ASSUME Inv, NEW t \in Ticker, ListJob(t)
  PROVE  Inv' /\ Writes
<1>1. /\ passes' \in [Ticker -> Pass]
      /\ \A r \in Ticker \ {t} : passes'[r] = passes[r]
      /\ passes'[t] = [stage |-> "RECOVER", job |-> job, copy |-> training]
  BY DEF ListJob, Inv, TypeOK, Pass
<1>2. TypeOK' /\ FailedMeansNone' /\ LeaseOpen'
  BY <1>1 DEF Inv, TypeOK, FailedMeansNone, LeaseOpen, ListJob
<1>3. PassCurrent(t)'
  BY <1>1 DEF PassCurrent, NoneFailed, Inv, FailedMeansNone, TypeOK, TrainingState, ListJob
<1>4. \A r \in Ticker \ {t} : PassCurrent(r)'
  BY <1>1, PassKept DEF ListJob
<1>5. \A u \in Upload : HandlerCurrent(u)'
  BY HandlerKept DEF ListJob, Inv, TypeOK
<1> QED
  BY <1>2, <1>3, <1>4, <1>5, InvParts DEF Parts, Writes, ListJob

LEMMA RecoverUploadInv ==
  ASSUME Inv, NEW t \in Ticker, RecoverUpload(t)
  PROVE  Inv' /\ Writes
<1> DEFINE copy == passes[t].copy
           recovered == Unleased(Spoiled(copy, copy.kind))
<1>1. /\ passes \in [Ticker -> Pass] /\ passes[t] \in Pass /\ copy \in TrainingState
      /\ copy.kind \in Kind /\ training \in TrainingState /\ job \in JobState
  BY DEF Inv, TypeOK, Pass, TrainingState
<1>2. PassCurrent(t) /\ NoneFailed(copy)
  BY InvParts DEF Parts, PassCurrent
<1>3. CASE Abandoned(passes[t]) /\ Accepts(recovered)
  <2>1. /\ recovered \in TrainingState /\ recovered.revision = copy.revision
        /\ recovered.latest = copy.latest /\ recovered.final = copy.final
        /\ NoneFailed(recovered) /\ recovered.upload = NONE
        /\ recovered.checkpoint = "REQUESTED" => copy.checkpoint = "REQUESTED"
        /\ copy.kind = "checkpoint" => recovered.artifact = copy.artifact
    BY <1>1, <1>2, SpoiledType
  <2>2. /\ training' = Stored(recovered)
        /\ passes' = [passes EXCEPT ![t] =
             [stage |-> "REQUEST", job |-> job, copy |-> Stored(recovered)]]
    BY <1>3 DEF RecoverUpload
  <2> HIDE DEF recovered
  <2>3. copy = training
    BY <1>2, <1>3, <2>1 DEF PassCurrent, Fresh, Accepts, RecoverUpload
  <2>4. training.artifact = "READY" => recovered.artifact = "READY"
    BY <1>1, <1>3, <2>1, <2>3 DEF Abandoned, LeaseOpen, Inv, Kind
  <2>5. /\ training' \in TrainingState /\ training'.revision = training.revision + 1
        /\ training'.latest = training.latest /\ training'.final = training.final
        /\ training'.upload = NONE
        /\ training'.checkpoint = recovered.checkpoint
        /\ training'.artifact = recovered.artifact
    BY <2>1, <2>2, <2>3, StoredType
  <2>6. /\ passes' \in [Ticker -> Pass]
        /\ \A r \in Ticker \ {t} : passes'[r] = passes[r]
        /\ passes'[t].copy = training'
    BY <1>1, <2>2, <2>5 DEF Pass
  <2>7. NoneFailed(training')
    BY <2>1, <2>3, <2>5 DEF NoneFailed
  <2>8. TypeOK' /\ FailedMeansNone' /\ LeaseOpen'
    BY <2>5, <2>6, <2>7 DEF Inv, TypeOK, FailedMeansNone, LeaseOpen, NoneFailed, RecoverUpload
  <2>9. PassCurrent(t)'
    BY <2>5, <2>6, <2>7 DEF PassCurrent, NoneFailed, TrainingState
  <2>10. \A r \in Ticker \ {t} : PassCurrent(r)'
    BY <2>5, <2>6, PassStale
  <2>11. \A u \in Upload : HandlerCurrent(u)'
    BY <2>5, HandlerStale DEF RecoverUpload
  <2>12. Writes
    BY <2>1, <2>3, <2>4, <2>5 DEF Writes
  <2> QED
    BY <2>8, <2>9, <2>10, <2>11, <2>12, InvParts DEF Parts
<1>4. CASE /\ passes' = [passes EXCEPT ![t].stage = "REQUEST"]
           /\ UNCHANGED training
  <2>1. /\ passes' \in [Ticker -> Pass]
        /\ \A r \in Ticker \ {t} : passes'[r] = passes[r]
        /\ passes'[t].copy = copy
    BY <1>1, <1>4 DEF Pass
  <2>2. TypeOK' /\ FailedMeansNone' /\ LeaseOpen'
    BY <1>4, <2>1 DEF Inv, TypeOK, FailedMeansNone, LeaseOpen, RecoverUpload
  <2>3. PassCurrent(t)'
    BY <1>2, <1>4, <2>1 DEF PassCurrent, NoneFailed, Fresh, RecoverUpload
  <2>4. \A r \in Ticker \ {t} : PassCurrent(r)'
    BY <1>4, <2>1, PassKept
  <2>5. \A u \in Upload : HandlerCurrent(u)'
    BY <1>4, HandlerKept DEF RecoverUpload, Inv, TypeOK
  <2> QED
    BY <1>4, <2>2, <2>3, <2>4, <2>5, InvParts DEF Parts, Writes, RecoverUpload
<1> QED
  BY <1>3, <1>4 DEF RecoverUpload

LEMMA RequestCheckpointInv ==
  ASSUME Inv, NEW t \in Ticker, RequestCheckpoint(t)
  PROVE  Inv' /\ Writes
<1> DEFINE copy == passes[t].copy
           requested == [copy EXCEPT !.checkpoint = "REQUESTED"]
<1>1. /\ passes \in [Ticker -> Pass] /\ copy \in TrainingState
      /\ passes' = [passes EXCEPT ![t] = NoPass]
  BY DEF Inv, TypeOK, Pass, RequestCheckpoint
<1>2. /\ passes' \in [Ticker -> Pass] /\ passes'[t] = NoPass
      /\ \A r \in Ticker \ {t} : passes'[r] = passes[r]
  BY <1>1, NothingHeld
<1>3. CASE training' = training
  BY <1>2, <1>3, EndInv DEF RequestCheckpoint, Inv, TypeOK
<1>4. CASE /\ Wanted(passes[t]) /\ Accepts(requested)
           /\ training' = Stored(requested)
  <2>1. /\ requested \in TrainingState /\ requested.revision = copy.revision
        /\ requested.checkpoint = "REQUESTED"
        /\ requested.latest = copy.latest /\ requested.final = copy.final
        /\ requested.artifact = copy.artifact
        /\ requested.upload = copy.upload /\ requested.kind = copy.kind
    BY <1>1 DEF TrainingState, CheckpointStatus
  <2> HIDE DEF requested
  <2>2. PassCurrent(t)
    BY InvParts DEF Parts
  <2>3. copy = training
    BY <1>4, <2>1, <2>2 DEF PassCurrent, Fresh, Accepts, RequestCheckpoint
  <2>4. /\ training' \in TrainingState /\ training'.revision = training.revision + 1
        /\ training'.latest = training.latest /\ training'.final = training.final
        /\ training'.artifact = training.artifact
        /\ training'.upload = training.upload /\ training'.kind = training.kind
        /\ training'.checkpoint = "REQUESTED"
    BY <1>4, <2>1, <2>3, StoredType
  <2>5. TypeOK' /\ FailedMeansNone' /\ LeaseOpen'
    BY <1>2, <2>4 DEF Inv, TypeOK, FailedMeansNone, LeaseOpen, RequestCheckpoint
  <2>6. PassCurrent(t)'
    BY <1>2, NothingHeld DEF PassCurrent, NoneFailed
  <2>7. \A r \in Ticker \ {t} : PassCurrent(r)'
    BY <1>2, <2>4, PassStale
  <2>8. \A u \in Upload : HandlerCurrent(u)'
    BY <2>4, HandlerStale DEF RequestCheckpoint
  <2>9. training.checkpoint # "REQUESTED" => job.status = "RUNNING" /\ ~Leased(training)
    BY <1>4, <2>1, <2>3 DEF Accepts, Wanted
  <2>10. Writes
    BY <2>4, <2>9 DEF Writes
  <2> QED
    BY <2>5, <2>6, <2>7, <2>8, <2>10, InvParts DEF Parts
<1> QED
  BY <1>3, <1>4 DEF RequestCheckpoint

(* A stop leaves the grace from now on, so what was in time stays in time.   *)
LEMMA JobMovesInv ==
  ASSUME Inv, NEW status \in {"RUNNING", "STOPPING", "ENDED"}, JobMoves(status)
  PROVE  Inv' /\ Writes
<1>1. /\ now \in Nat /\ job \in JobState
      /\ job' = [status |-> status,
                 stopped |-> IF status # "RUNNING" /\ job.stopped = 0 THEN now ELSE job.stopped]
  BY DEF Inv, TypeOK, JobMoves
<1>2. job' \in JobState
  BY <1>1 DEF JobState
<1>3. \A at \in Nat : (at <= now /\ at < Deadline(job)) => at < Deadline(job')
  BY <1>1, <1>2, UploadAssumption DEF Deadline, Earlier, JobState
<1>4. TypeOK' /\ FailedMeansNone' /\ LeaseOpen'
  BY <1>2 DEF Inv, TypeOK, FailedMeansNone, LeaseOpen, JobMoves
<1>5. \A u \in Upload : HandlerCurrent(u)'
  BY <1>1, <1>3, HandlerKept DEF JobMoves
<1>6. \A t \in Ticker : PassCurrent(t)'
  BY PassKept DEF JobMoves
<1> QED
  BY <1>4, <1>5, <1>6, InvParts DEF Parts, Writes, JobMoves

LEMMA TickInv ==
  ASSUME Inv, Tick
  PROVE  Inv' /\ Writes
<1>1. now \in Nat /\ now' = now + 1
  BY DEF Inv, TypeOK, Tick
<1>2. TypeOK' /\ FailedMeansNone' /\ LeaseOpen'
  BY <1>1 DEF Inv, TypeOK, FailedMeansNone, LeaseOpen, Tick
<1>3. \A u \in Upload : HandlerCurrent(u)'
  BY <1>1, HandlerKept DEF Tick
<1>4. \A t \in Ticker : PassCurrent(t)'
  BY PassKept DEF Tick
<1> QED
  BY <1>2, <1>3, <1>4, InvParts DEF Parts, Writes, Tick

LEMMA CrashInv ==
  ASSUME Inv, Crash
  PROVE  Inv' /\ Writes
<1>1. uploads \in [Upload -> Handler] /\ Over \in Handler /\ NoPass \in Pass
  BY NothingHeld DEF Inv, TypeOK
<1>2. /\ uploads' \in [Upload -> Handler] /\ passes' \in [Ticker -> Pass]
      /\ \A u \in Upload : uploads'[u] \in {uploads[u], Over}
      /\ \A t \in Ticker : passes'[t] \in {passes[t], NoPass}
  BY <1>1 DEF Crash
<1> QED
  BY <1>2, EndInv DEF Crash

LEMMA NextInv ==
  ASSUME Inv, [Next]_vars
  PROVE  Inv' /\ Writes
<1>1. CASE UNCHANGED vars
  <2>1. TypeOK' /\ FailedMeansNone' /\ LeaseOpen'
    BY <1>1 DEF vars, Inv, TypeOK, FailedMeansNone, LeaseOpen
  <2>2. \A u \in Upload : HandlerCurrent(u)'
    BY <1>1, HandlerKept DEF vars, Inv, TypeOK
  <2>3. \A t \in Ticker : PassCurrent(t)'
    BY <1>1, PassKept DEF vars
  <2> QED
    BY <1>1, <2>1, <2>2, <2>3, InvParts DEF vars, Parts, Writes
<1>2. CASE UploadStep
  BY <1>2, BeginInv, TakeLeaseInv, PutReturnedInv, PublishInv DEF UploadStep
<1>3. ASSUME NEW t \in Ticker, PassStep(t) PROVE Inv' /\ Writes
  BY <1>3, ListJobInv, RecoverUploadInv, RequestCheckpointInv DEF PassStep
<1>4. ASSUME NEW status \in {"RUNNING", "STOPPING", "ENDED"}, JobMoves(status)
      PROVE  Inv' /\ Writes
  BY <1>4, JobMovesInv
<1> QED
  BY <1>1, <1>2, <1>3, <1>4, TickInv, CrashInv DEF Next

------------------------------------------------------------------------------
(* The theorems.                                                             *)

(* Whatever copy of the training state can still be stored, by a handler or
   a pass, was taken from the state as it is now (UpdateTraining).           *)
THEOREM CopiesCurrent == Spec => []Inv
<1>1. Inv /\ [Next]_vars => Inv'
  BY NextInv
<1> QED
  BY InitInv, <1>1, PTL DEF Spec

(* The training state, the handlers and the passes keep their shape.         *)
THEOREM OutputsTyped == Spec => []TypeOK
<1>1. Inv => TypeOK
  BY DEF Inv
<1> QED
  BY CopiesCurrent, <1>1, PTL

(* A failed, late or recovered upload never hides the checkpoint before it
   behind FAILED (SaveTrainingOutput, recoverTrainingUpload).                *)
THEOREM FallsBack == Spec => []FailedMeansNone
<1>1. Inv => FailedMeansNone
  BY DEF Inv
<1> QED
  BY CopiesCurrent, <1>1, PTL

(* Only the upload that holds the lease publishes, however many others were
   timed out, replaced or recovered before (UpdateTraining).                 *)
THEOREM HolderPublishes == Spec => OnlyHolderPublishes
<1> DEFINE Step ==
      /\ training'.latest # training.latest => training'.latest = training.upload
      /\ training'.final # training.final => training'.final = training.upload
<1>1. Inv /\ [Next]_vars => [Step]_vars
  BY NextInv DEF Writes
<1> QED
  BY CopiesCurrent, <1>1, PTL DEF Spec, OnlyHolderPublishes

(* What is published is stored in full, and a checkpoint no later than the
   grace after the end or after a stop (SaveTrainingOutput).                 *)
THEOREM InTimeOrNever == Spec => PublishedInTime
<1> DEFINE Step ==
      /\ training'.latest # training.latest =>
           training'.latest \in objects /\ training'.created < Deadline(job)
      /\ training'.final # training.final => training'.final \in objects
<1>1. Inv /\ [Next]_vars => [Step]_vars
  BY NextInv DEF Writes
<1> QED
  BY CopiesCurrent, <1>1, PTL DEF Spec, PublishedInTime

(* A final artifact stays, whatever uploads, passes and crashes follow
   (SaveTrainingOutput).                                                     *)
THEOREM ArtifactKept == Spec => ArtifactFinal
<1> DEFINE Step == training.artifact = "READY" =>
                     training'.artifact = "READY" /\ training'.final = training.final
<1>1. Inv /\ [Next]_vars => [Step]_vars
  BY NextInv DEF Writes
<1> QED
  BY CopiesCurrent, <1>1, PTL DEF Spec, ArtifactFinal

(* A checkpoint is asked of a running job only, never over an upload that
   still holds its lease (requestCheckpoint).                                *)
THEOREM AskedInTime == Spec => AskedWhileRunning
<1> DEFINE Step == (training'.checkpoint = "REQUESTED" /\ training.checkpoint # "REQUESTED")
                     => job.status = "RUNNING" /\ ~Leased(training)
<1>1. Inv /\ [Next]_vars => [Step]_vars
  BY NextInv DEF Writes
<1> QED
  BY CopiesCurrent, <1>1, PTL DEF Spec, AskedWhileRunning
=============================================================================
