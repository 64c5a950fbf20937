----------------------------- MODULE TaskRunner -----------------------------
(***************************************************************************)
(* The task runner of the fully asynchronous trainer                       *)
(* (verl/experimental/fully_async_policy/fully_async_main.py,              *)
(* _run_training_loop): it starts the fit calls of the rollouter and of    *)
(* the trainer, waits for them one at a time, cancels the one when the     *)
(* other fails, and clears the queue.                                      *)
(*                                                                         *)
(* Of the two components only what the runner depends on is modelled: the *)
(* stream of samples, which ends or fails while sample tasks go on, the    *)
(* trainer's batches, local steps, versions and checkpoints, an actor that *)
(* may die, and a cancelled call that ends at one of its awaits.           *)
(* FullyAsync holds the rest, also why the queue never drops the end       *)
(* signal.                                                                 *)
(***************************************************************************)
EXTENDS Integers, Sequences

CONSTANTS
  Samples,   (* total_rollout_steps *)
  Required,  (* required_samples: samples for a local step *)
  Trigger    (* trigger_parameter_sync_step: local steps for a version *)

ASSUME TaskRunnerAssumption ==
  Samples \in Nat /\ Required \in Nat \ {0} /\ Trigger \in Nat \ {0}

Components == {"rollouter", "trainer"}
Over == {"completed", "failed", "cancelled"}

VARIABLES
  fit,        \* of each component: "running" or how its call ended
  stream,     \* _streaming_generation_main: "running", "ended" or "failed"
  produced,   \* samples put
  late,       \* those of them put behind the end signal
  batch,      \* samples collected for the current local step
  trained,    \* samples trained on
  abandoned,  \* samples of the batch that was incomplete at the end signal
  steps,      \* local steps trained
  local,      \* local_trigger_step
  version,    \* current_param_version
  lastCkpt,   \* last_ckpt_version
  saved,      \* local steps the last checkpoint has
  queue,      \* the message queue, of "sample" and "end"
  run,        \* the runner: "wait", "finally", "returned" or "raised"
  error,      \* an exception is on its way out of the loop
  futures,    \* the calls not yet waited for
  cancelled   \* the calls ray.cancel was called for

rollouter == <<stream, produced, late>>
counters == <<steps, local, version, lastCkpt, saved>>
trainer == <<batch, trained, abandoned, counters>>
runner == <<run, error, futures, cancelled>>
vars == <<fit, rollouter, trainer, queue, runner>>

Init ==
  /\ fit = [c \in Components |-> "running"]
  /\ stream = "running" /\ produced = 0 /\ late = 0
  /\ batch = 0 /\ trained = 0 /\ abandoned = 0
  /\ steps = 0 /\ local = 1 /\ version = 0 /\ lastCkpt = 0 /\ saved = 0
  /\ queue = <<>>
  /\ run = "wait" /\ error = FALSE /\ futures = Components /\ cancelled = {}

Running(c) == fit[c] = "running"
End(c, how) == fit' = [fit EXCEPT ![c] = how]

----------------------------------------------------------------------------
(* The rollouter.                                                          *)

Produce ==
  /\ Running("rollouter") /\ stream = "running" /\ produced < Samples
  /\ produced' = produced + 1
  /\ queue' = Append(queue, "sample")
  /\ UNCHANGED <<fit, stream, late, trainer, runner>>

\* A stream that fails leaves its sample tasks running, whatever becomes of the call: unless the
\* actor dies they still put their samples, behind the end signal.
ProduceLate ==
  /\ fit["rollouter"] # "failed" /\ stream = "failed" /\ produced < Samples
  /\ produced' = produced + 1 /\ late' = late + 1
  /\ queue' = Append(queue, "sample")
  /\ UNCHANGED <<fit, stream, trainer, runner>>

\* The stream ends, or an exception ends it; either way the finally sends the
\* end signal.
Stream(how) ==
  /\ Running("rollouter") /\ stream = "running"
  /\ how = "ended" => produced = Samples
  /\ stream' = how
  /\ queue' = Append(queue, "end")
  /\ UNCHANGED <<fit, produced, late, trainer, runner>>

\* fit gathers the stream and the monitor with return_exceptions.
RollouterReturns ==
  /\ Running("rollouter") /\ stream # "running"
  /\ End("rollouter", "completed")
  /\ UNCHANGED <<rollouter, trainer, queue, runner>>

\* The call is cancelled: the stream is, and its finally sends the end signal.
RollouterCancelled ==
  /\ Running("rollouter") /\ "rollouter" \in cancelled
  /\ End("rollouter", "cancelled")
  /\ IF stream = "running"
     THEN stream' = "failed" /\ queue' = Append(queue, "end")
     ELSE UNCHANGED <<stream, queue>>
  /\ UNCHANGED <<produced, late, trainer, runner>>

Dies(c) ==
  /\ Running(c)
  /\ End(c, "failed")
  /\ UNCHANGED <<rollouter, trainer, queue, runner>>

----------------------------------------------------------------------------
(* The trainer.  An exception of a step is as good as its actor's death.   *)

\* _get_samples_from_queue: one sample more.
Collect ==
  /\ Running("trainer") /\ batch < Required
  /\ queue # <<>> /\ Head(queue) = "sample"
  /\ queue' = Tail(queue)
  /\ batch' = batch + 1
  /\ UNCHANGED <<fit, rollouter, trained, abandoned, counters, runner>>

\* _fit_save_checkpoint of a due checkpoint: once for a version, forced or not.
SaveVersion(v, s) ==
  IF v = lastCkpt THEN UNCHANGED <<lastCkpt, saved>> ELSE lastCkpt' = v /\ saved' = s

\* A full batch is trained on; the last local step of a version completes it.  A checkpoint may be
\* due by save_freq, which is positive, or by the end of the instance.
Train(due) ==
  /\ Running("trainer") /\ batch = Required
  /\ trained' = trained + batch
  /\ batch' = 0
  /\ steps' = steps + 1
  /\ IF local < Trigger THEN local' = local + 1 /\ UNCHANGED version
                        ELSE local' = 1 /\ version' = version + 1
  /\ IF due THEN SaveVersion(version', steps') ELSE UNCHANGED <<lastCkpt, saved>>
  /\ UNCHANGED <<fit, rollouter, abandoned, queue, runner>>

\* The end signal: an incomplete batch is given up, and a checkpoint forced, which is not written if
\* the version has one: local steps trained since then are in none.
TrainerReturns ==
  /\ Running("trainer") /\ batch < Required
  /\ queue # <<>> /\ Head(queue) = "end"
  /\ queue' = Tail(queue)
  /\ batch' = 0 /\ abandoned' = batch
  /\ SaveVersion(version, steps)
  /\ End("trainer", "completed")
  /\ UNCHANGED <<rollouter, trained, steps, local, version, runner>>

TrainerCancelled ==
  /\ Running("trainer") /\ "trainer" \in cancelled
  /\ End("trainer", "cancelled")
  /\ UNCHANGED <<rollouter, trainer, queue, runner>>

----------------------------------------------------------------------------
(* _run_training_loop.                                                     *)

CompletedAll(c) ==  \* mutant: one completed component ends the loop
  /\ run = "wait" /\ c \in futures /\ fit[c] = "completed"
  /\ futures' = {}
  /\ run' = "finally"
  /\ UNCHANGED <<fit, rollouter, trainer, queue, error, cancelled>>

\* ray.wait returned a call that has completed.
Completed(c) ==
  /\ run = "wait" /\ c \in futures /\ fit[c] = "completed"
  /\ futures' = futures \ {c}
  /\ run' = IF futures = {c} THEN "finally" ELSE run
  /\ UNCHANGED <<fit, rollouter, trainer, queue, error, cancelled>>

FailedAlone(c) ==  \* mutant: the call that remains is not cancelled
  /\ run = "wait" /\ c \in futures /\ fit[c] \in {"failed", "cancelled"}
  /\ error' = TRUE
  /\ run' = "finally"
  /\ UNCHANGED <<fit, rollouter, trainer, queue, futures, cancelled>>

\* It returned one that has failed: the calls that remain are cancelled.
FailedCall(c) ==
  /\ run = "wait" /\ c \in futures /\ fit[c] \in {"failed", "cancelled"}
  /\ cancelled' = cancelled \cup (futures \ {c})
  /\ error' = TRUE
  /\ run' = "finally"
  /\ UNCHANGED <<fit, rollouter, trainer, queue, futures>>

Finally ==
  /\ run = "finally"
  /\ queue' = <<>>
  /\ run' = IF error THEN "raised" ELSE "returned"
  /\ UNCHANGED <<fit, rollouter, trainer, error, futures, cancelled>>

Runner == (\E c \in Components : Completed(c) \/ FailedCall(c)) \/ Finally

Next ==
  \/ Produce \/ ProduceLate \/ Stream("ended") \/ Stream("failed")
  \/ RollouterReturns \/ RollouterCancelled
  \/ Collect \/ (\E due \in BOOLEAN : Train(due)) \/ TrainerReturns \/ TrainerCancelled
  \/ \E c \in Components : Dies(c)
  \/ Runner

Spec == Init /\ [][Next]_vars

\* Every call goes on while it can, and a cancelled one reaches an await.  Nothing has to die or
\* fail.  That the stream ends is assumed here: FullyAsync shows how the rollouter may starve.
FairSpec ==
  /\ Spec
  /\ WF_vars(Produce) /\ WF_vars(Stream("ended"))
  /\ WF_vars(RollouterReturns) /\ WF_vars(RollouterCancelled)
  /\ WF_vars(Collect) /\ WF_vars(\E due \in BOOLEAN : Train(due))
  /\ WF_vars(TrainerReturns) /\ WF_vars(TrainerCancelled)
  /\ WF_vars(Runner)

----------------------------------------------------------------------------
(* Properties.                                                             *)

TypeOK ==
  /\ fit \in [Components -> {"running"} \cup Over]
  /\ stream \in {"running", "ended", "failed"}
  /\ produced \in 0 .. Samples /\ late \in 0 .. produced
  /\ batch \in 0 .. Required /\ trained \in 0 .. produced /\ abandoned \in 0 .. Required
  /\ steps \in Nat /\ local \in 1 .. Trigger /\ version \in Nat
  /\ lastCkpt \in 0 .. version /\ saved \in 0 .. steps
  /\ queue \in Seq({"sample", "end"}) /\ Len(queue) <= Samples + 1
  /\ run \in {"wait", "finally", "returned", "raised"}
  /\ futures \subseteq Components /\ cancelled \subseteq Components

\* When the runner returns, both calls have completed.  What was put before the end signal was
\* trained on, but for fewer than a batch, so that clear_queue removes late samples of a failed
\* stream only; the last whole version is saved, and less than a version of local steps is not.
ReturnsWhenDone ==
  run = "returned" =>
    /\ \A c \in Components : fit[c] = "completed"
    /\ trained + abandoned + late = produced /\ abandoned < Required
    /\ stream = "ended" => trained + abandoned = Samples
    /\ lastCkpt = version /\ steps - saved < Trigger

\* A call is cancelled only after the other one has failed, and the runner
\* raises then.
CancelledForFailure ==
  \A c \in cancelled : \E other \in Components \ {c} : fit[other] = "failed"

\* The runner ends, whatever dies: a trainer that waits for samples of a dead
\* rollouter is cancelled.
RunnerEnds == <>(run \in {"returned", "raised"})

\* When the runner raises, both calls end.
BothEnd == run = "raised" ~> \A c \in Components : fit[c] \in Over

\* However the components die, nothing is left running.
AllEnd == RunnerEnds /\ BothEnd

\* fully_async_main.py:178 reports "Component failed with error": a run whose
\* stream of samples has failed does not return as if all had gone well.
FailureReported == run = "returned" => stream # "failed"
=============================================================================
