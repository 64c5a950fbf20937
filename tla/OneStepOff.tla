----------------------------- MODULE OneStepOff -----------------------------
(***************************************************************************)
(* The one step off policy trainer                                         *)
(* (verl/experimental/one_step_off_policy/ray_trainer.py over              *)
(* verl/experimental/separation/ray_trainer.py): while a batch is trained  *)
(* on, the next one is generated by a task of the same event loop.  A step *)
(* awaits the task, copies the weights to the rollout replicas, starts the *)
(* task of the next batch, and then trains, validates and saves.           *)
(*                                                                         *)
(* A job may die at any moment; the next start resumes from the last       *)
(* checkpoint, with _load_checkpoint of the synchronous trainer.  A save   *)
(* is one step here; its parts are in SyncTraining.                        *)
(*                                                                         *)
(* Batch i of the p-th pass over the data is the number                    *)
(* p * StepsPerEpoch + i, whichever start iterates over it.                *)
(***************************************************************************)
EXTENDS Integers, Sequences

CONSTANTS
  StepsPerEpoch, Epochs,
  TotalSteps,        \* total_training_steps
  Warmup,       \* critic_warmup
  SaveFreq,
  MaxCrashes    \* bound on the crashes

ASSUME OneStepAssumption ==
  /\ StepsPerEpoch \in Nat \ {0} /\ Epochs \in Nat \ {0} /\ TotalSteps \in Nat \ {0}
  /\ Warmup \in Nat /\ SaveFreq \in Nat \ {0} /\ MaxCrashes \in Nat

NoBatch == [number |-> -1, version |-> -1]
NoSave == [step |-> 0, batches |-> <<>>, updates |-> 0, pass |-> 0, pos |-> 0]

VARIABLES
  phase,    \* "down", "await", "update", "validate", "save", "done" or "failed"
  step,     \* global_steps
  pass, pos, left,  \* the iterator: its pass, its position, the epochs left to it
  task,     \* batch_data_future: "none", "running", "ready" or "over" (no data)
  next,     \* the batch of the task, with the weights it is generated with
  batch,    \* the batch of this step
  batches,  \* what the current weights were trained on
  updates,  \* how often the actor was updated
  rollout,  \* the weights of the replicas: so many updates
  disk,     \* the last checkpoint
  crashes

loader == <<pass, pos, left>>
future == <<task, next>>
model == <<batches, updates>>
vars == <<phase, step, loader, future, batch, model, rollout, disk, crashes>>

is_last_step == step >= TotalSteps

----------------------------------------------------------------------------
(* The data: _create_continuous_iterator and _async_gen_next_batch.        *)

\* next(continuous_iterator): the place it moves to.
Following ==
  IF pos < StepsPerEpoch THEN [pass |-> pass, pos |-> pos + 1, left |-> left]
  ELSE [pass |-> pass + 1, pos |-> 1, left |-> left - 1]

\* The task of the next batch is created and, with sleep(0), runs up to its
\* generation, by the weights the replicas hold now.  Without another batch
\* its result is None.
Launch(weights) ==
  LET to == Following IN
  IF to.left = 0
  THEN /\ task' = "over"
       /\ UNCHANGED <<loader, next>>
  ELSE /\ task' = "running"
       /\ next' = [number |-> to.pass * StepsPerEpoch + to.pos - 1, version |-> weights]
       /\ pass' = to.pass /\ pos' = to.pos /\ left' = to.left

Generated ==
  /\ task = "running"
  /\ task' = "ready"
  /\ UNCHANGED <<phase, step, loader, next, batch, model, rollout, disk, crashes>>

----------------------------------------------------------------------------
(* fit.                                                                    *)

Init ==
  /\ phase = "down" /\ step = 0
  /\ pass = 0 /\ pos = 0 /\ left = 0
  /\ task = "none" /\ next = NoBatch /\ batch = NoBatch
  /\ batches = <<>> /\ updates = 0 /\ rollout = 0
  /\ disk = NoSave
  /\ crashes = 0

\* Where the loader resumes: after a multiple of the steps of an epoch its
\* saved state is left out, and a pass begins.
AtBoundary == disk.step % StepsPerEpoch = 0

ResumedAtStart ==  \* mutant: the loader's state is never restored
  [pass |-> disk.pass, pos |-> 0]

ResumedAt ==
  IF ~AtBoundary THEN [pass |-> disk.pass, pos |-> disk.pos]
  ELSE IF disk.pos = StepsPerEpoch THEN [pass |-> disk.pass + 1, pos |-> 0]
  ELSE [pass |-> disk.pass, pos |-> 0]

\* The job starts: it loads the checkpoint, copies the weights (with
\* critic_warmup only if the warm-up is over; the replicas have loaded the
\* same model otherwise) and counts the epochs from zero.
Load ==
  /\ phase = "down"
  /\ phase' = "start"
  /\ step' = disk.step + 1
  /\ batches' = disk.batches /\ updates' = disk.updates
  /\ rollout' = disk.updates
  /\ pass' = ResumedAt.pass /\ pos' = ResumedAt.pos
  /\ left' = Epochs
  /\ task' = "none" /\ next' = NoBatch /\ batch' = NoBatch
  /\ UNCHANGED <<disk, crashes>>

Start ==
  /\ phase = "start"
  /\ Launch(rollout)
  /\ phase' = "await"
  /\ UNCHANGED <<step, batch, model, rollout, disk, crashes>>

SyncedNever == rollout  \* mutant: the weights are not copied in the loop

\* _fit_update_weights
Synced == IF Warmup <= step THEN updates ELSE rollout

\* _fit_generate: await the batch, copy the weights, start the next task
\* unless this is the last step.
Await ==
  /\ phase = "await"
  /\ task = "ready"
  /\ batch' = next
  /\ rollout' = Synced
  /\ IF is_last_step
     THEN task' = "none" /\ next' = NoBatch /\ UNCHANGED loader
     ELSE Launch(Synced)
  /\ phase' = "update"
  /\ UNCHANGED <<step, model, disk, crashes>>

\* The task answered None, which cannot be unpacked.
AwaitNone ==
  /\ phase = "await"
  /\ task = "over"
  /\ phase' = "failed"
  /\ UNCHANGED <<step, loader, future, batch, model, rollout, disk, crashes>>

\* Reward, log-probabilities, advantage, critic and actor.
Update ==
  /\ phase = "update"
  /\ batches' = Append(batches, batch.number)
  /\ updates' = IF Warmup <= step THEN updates + 1 ELSE updates
  /\ phase' = "validate"
  /\ UNCHANGED <<step, loader, future, batch, rollout, disk, crashes>>

\* _fit_validate, with the replicas as they are, beside the generation of
\* the next batch.
Validate ==
  /\ phase = "validate"
  /\ phase' = "save"
  /\ UNCHANGED <<step, loader, future, batch, model, rollout, disk, crashes>>

SaveDue == is_last_step \/ step % SaveFreq = 0

\* _fit_save_checkpoint and _fit_postprocess_step.  The state of the loader
\* is the one the task has left it in.
Save ==
  /\ phase = "save"
  /\ disk' = IF SaveDue
             THEN [step |-> step, batches |-> batches, updates |-> updates,
                   pass |-> pass, pos |-> pos]
             ELSE disk
  /\ step' = step + 1
  /\ phase' = IF is_last_step THEN "done" ELSE "await"
  /\ UNCHANGED <<loader, future, batch, model, rollout, crashes>>

\* The job dies; the disk is left.
Crash ==
  /\ phase \notin {"down", "done", "failed"}
  /\ crashes < MaxCrashes
  /\ crashes' = crashes + 1
  /\ phase' = "down"
  /\ step' = 0 /\ pass' = 0 /\ pos' = 0 /\ left' = 0
  /\ task' = "none" /\ next' = NoBatch /\ batch' = NoBatch
  /\ batches' = <<>> /\ updates' = 0 /\ rollout' = 0
  /\ UNCHANGED disk

Trainer ==
  Load \/ Start \/ Await \/ AwaitNone \/ Update \/ Validate \/ Save

Next == Trainer \/ Generated \/ Crash

Spec == Init /\ [][Next]_vars

\* A generation ends, and the event loop runs what can run.
FairSpec == Spec /\ WF_vars(Trainer) /\ WF_vars(Generated)

----------------------------------------------------------------------------
(* Properties.                                                             *)

TypeOK ==
  /\ phase \in {"down", "start", "await", "update", "validate", "save", "done", "failed"}
  /\ step \in 0 .. TotalSteps + 1 + MaxCrashes
  /\ pos \in 0 .. StepsPerEpoch /\ left \in 0 .. Epochs /\ pass \in Nat
  /\ task \in {"none", "running", "ready", "over"}
  /\ phase # "down" => updates <= Len(batches)
  /\ crashes \in 0 .. MaxCrashes

\* A batch is trained on by weights exactly one update ahead of those that
\* generated it, in the first step after a start or at the end of the
\* warm-up by the same ones: never more, after any resume.
OneStep ==
  phase = "update" => updates - batch.version \in {0, 1}

\* The weights of the replicas do not change while they generate a batch.
OnePolicyPerBatch ==
  task = "running" => next.version = rollout

\* After one crash the weights are not trained twice on a batch, and at most
\* one batch is lost, the one whose generation had begun when the checkpoint
\* was saved.
FewLost ==
  phase # "down" =>
    /\ \A i, j \in DOMAIN batches : i < j => batches[i] < batches[j]
    /\ Len(batches) > 0 => batches[Len(batches)] - (Len(batches) - 1) <= crashes

\* Without a crash all batches are trained on, in order, and the job ends
\* by itself.
Trained ==
  [](crashes = 0) =>
  <>(phase = "done" /\ Len(batches) = TotalSteps /\ \A i \in 1 .. TotalSteps : batches[i] = i - 1)

\* The loop of docs/advance/one_step_off.md:94-103 ends when the generation
\* task finds no more data: the job never fails for lack of a batch.
NeverStarved == phase # "failed"

\* ppo/ray_trainer.py:1024-1029 leaves the loader's state out where "the
\* saved state marks the dataloader as exhausted" and "next epoch will iterate
\* from scratch": nothing of the pass that begins there was trained on yet.
NewPass ==
  phase = "start" /\ AtBoundary =>
    \A i \in DOMAIN batches : batches[i] < pass * StepsPerEpoch

\* separation/ray_trainer.py logs what the last step measures as "Final
\* validation metrics": those of the weights that training ends with.
FinalValidation ==
  phase = "validate" /\ is_last_step => rollout = updates
============================================================================
