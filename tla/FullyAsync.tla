----------------------------- MODULE FullyAsync -----------------------------
(***************************************************************************)
(* The fully asynchronous policy of verl                                   *)
(* (verl/experimental/fully_async_policy): the rollouter actor, the        *)
(* trainer actor and the message queue between them.                       *)
(*                                                                         *)
(* The rollouter is one asyncio event loop that runs several coroutines: a *)
(* feeder, the processor that submits samples, one task per sample in      *)
(* flight, a monitor, the streaming main and the reset_staleness calls of  *)
(* the trainer.  A step of the model is what one of them does between two  *)
(* awaits; an RPC to the queue takes effect at a step of its own.          *)
(***************************************************************************)
EXTENDS Integers, Sequences, FiniteSets

CONSTANTS
  Total,          (* total_rollout_steps: samples the feeder supplies *)
  Required,       (* required_samples: samples the trainer takes for a local step *)
  Trigger,        (* trigger_parameter_sync_step: local steps for a parameter version *)
  StaleNum,       (* staleness_threshold = StaleNum / StaleDen *)
  StaleDen,
  Capacity,       (* 16 concurrent samples for every rollout replica *)
  PendingMax,     (* maxsize of pending_queue, 128 in the code *)
  MaxFailures,    (* Bound of the model: sample tasks that may raise *)
  TestFreq,       (* trainer.test_freq *)
  SaveFreq        (* trainer.save_freq *)

ASSUME ConstantsAssumption ==
  /\ Total \in Nat \ {0}
  /\ Required \in Nat \ {0}
  /\ Trigger \in Nat \ {0}
  /\ StaleNum \in Nat
  /\ StaleDen \in Nat \ {0}
  /\ Capacity \in Nat \ {0}
  /\ PendingMax \in Nat \ {0}
  /\ MaxFailures \in Nat
  /\ TestFreq \in Nat \ {0}
  /\ SaveFreq \in Nat \ {0}

\* int(required_samples * (staleness_threshold + 1) * trigger_parameter_sync_step)
MaxRequired == (Required * (StaleNum + StaleDen) * Trigger) \div StaleDen

MaxConcurrent == IF Capacity < MaxRequired THEN Capacity ELSE MaxRequired

Sample == 1..Total

\* An entry of the message queue: a sample with the parameter version of the trainer when it was
\* put (for the properties only), or the None that ends the stream, here sample 0.
SampleEntry == [sample : Sample, at : Nat]
None == [sample |-> 0, at |-> 0]
Entry == SampleEntry \cup {None}

VARIABLES
  queue, produced, consumed, dropped, cleared,   \* the message queue
  fed, got,             \* items put in, and taken from, pending_queue; item Total + 1 is its None
  task,                 \* what has become of the task of each sample
  paused, resume,       \* self.paused, and whether _resume_event is set
  staleness,            \* self.staleness_samples
  generated, droppedStale, processed,   \* counters of finished tasks
  lock,                 \* holder of self.lock across an await
  ppc, stats,           \* processor: where it awaits, queue size it was told and has yet to use
  mon, monStats,        \* monitor: the same
  mpc, running,         \* streaming main, and self.running
  rst,                  \* reset_staleness: where it awaits
  activeAtReset,        \* the len(active_tasks) it has read and has yet to use
  queueAtReset,         \* the queue size that was read for it
  tpc,                  \* trainer: where it awaits
  batch,                \* samples collected for the current local step
  local, version,       \* local_trigger_step, current_param_version
  stopping,             \* the trainer has left its loop
  lastCkpt,             \* last_ckpt_version
  steps, saved,         \* history: local steps trained, how many the last checkpoint has
  trained, abandoned,   \* history: samples trained, samples of a batch given up at the end
  taken                 \* history: samples the trainer took since the last reset of staleness

queueVars == <<queue, produced, consumed, dropped, cleared>>
taskVars == <<task, generated, droppedStale, processed>>
flowVars == <<paused, resume, lock>>
procVars == <<ppc, stats>>
monVars == <<mon, monStats>>
mainVars == <<mpc, running>>
resetVars == <<rst, activeAtReset, queueAtReset>>
trainVars ==
  <<tpc, batch, local, version, stopping, lastCkpt, steps, saved, trained, abandoned, taken>>

vars == <<queueVars, fed, got, taskVars, flowVars, staleness, procVars, monVars, mainVars,
          resetVars, trainVars>>

MQ == INSTANCE SampleQueue WITH Item <- Entry, MaxQueueSize <- MaxRequired

(***************************************************************************)
(* States of a sample task and of the coroutines.                          *)
(***************************************************************************)

\* gen: generating; stored, displaced: put_sample has run and answered True, False; done, failed:
\* the task has ended but is still in active_tasks; gone, crashed: taken out of it.
TaskState == {"none", "gen", "stored", "displaced", "done", "failed", "gone", "crashed"}

\* pause, submit, limit, end, harvest: waiting for the lock; limitwait, endwait: awaiting a task
\* with the lock held.
LockWait == {"pause", "submit", "limit", "end", "harvest"}
LockHeld == {"limitwait", "endwait"}
ProcState == LockWait \cup LockHeld \cup {"top", "decide", "get", "drain", "ended", "failed"}

\* want: waiting for the lock; count, reply: awaiting the queue size with the lock held, before and
\* after the queue actor has read it.
ResetHeld == {"count", "reply"}
ResetState == ResetHeld \cup {"idle", "want"}

\* self.active_tasks: no callback removes a task that ends, only the processor does.
Active == {s \in Sample : task[s] \notin {"none", "gone", "crashed"}}
Generating == {s \in Sample : task[s] = "gen"}
Failed == {s \in Sample : task[s] = "failed"}
Finished == {s \in Sample : task[s] \in {"done", "failed"}}
Crashes == {s \in Sample : task[s] \in {"failed", "crashed"}}

\* A coroutine that asks for the lock gets it at once if it is free and nobody waits for it.
CanLock == lock = "free" /\ ppc \notin LockWait /\ rst # "want" /\ mon # "want"

Pending == fed - got

\* Mutant: both limits are inclusive.
ShouldPauseLate(queueSize) == queueSize > MaxRequired \/ staleness > MaxRequired
\* Mutant: staleness is not looked at.
ShouldPauseQueue(queueSize) == queueSize >= MaxRequired
\* Mutant: the end signal goes out when the last sample has left pending_queue.
ProcessorOverEarly == got >= Total

\* The samples in flight fill the concurrency the server replicas allow.
AtLimit == Cardinality(Active) >= MaxConcurrent

\* _should_pause_generation, with the size of the queue that was asked for an await earlier.
ShouldPause(queueSize) == queueSize >= MaxRequired \/ staleness >= MaxRequired

Init ==
  /\ MQ!QInit
  /\ fed = 0 /\ got = 0
  /\ task = [s \in Sample |-> "none"]
  /\ paused = FALSE /\ resume = TRUE
  /\ staleness = 0
  /\ generated = 0 /\ droppedStale = 0 /\ processed = 0
  /\ lock = "free"
  /\ ppc = "top" /\ stats = 0
  /\ mon = "sleep" /\ monStats = 0
  /\ mpc = "stream" /\ running = TRUE
  /\ rst = "idle" /\ activeAtReset = 0 /\ queueAtReset = 0
  /\ tpc = "collect"
  /\ batch = <<>>
  /\ local = 1 /\ version = 0
  /\ stopping = FALSE
  /\ lastCkpt = 0 /\ steps = 0 /\ saved = 0
  /\ trained = {} /\ abandoned = {}
  /\ taken = 0

(***************************************************************************)
(* The feeder: _feed_samples.                                              *)
(***************************************************************************)

Feed ==
  /\ mpc = "stream"
  /\ fed <= Total
  /\ Pending < PendingMax
  /\ fed' = fed + 1
  /\ UNCHANGED <<queueVars, got, taskVars, flowVars, staleness, procVars, monVars, mainVars,
                 resetVars, trainVars>>

(***************************************************************************)
(* The processor: _processor_worker.                                       *)
(***************************************************************************)

Submitted(t, s) == [t EXCEPT ![s] = "gen"]

Reaped(D) ==
  [s \in Sample |-> IF s \notin D THEN task[s]
                    ELSE IF task[s] = "failed" THEN "crashed" ELSE "gone"]

\* Top of the loop: not paused, so _should_pause_generation asks the queue for its size.
ProcAsk ==
  /\ ppc = "top"
  /\ ~paused
  /\ stats' = Len(queue)
  /\ ppc' = "decide"
  /\ UNCHANGED <<queueVars, fed, got, taskVars, flowVars, staleness, monVars, mainVars, resetVars,
                 trainVars>>

\* Mutant: paused is cleared without setting the event the drain waits for.
ResumeQuietly == paused' = FALSE /\ UNCHANGED resume

PauseFlags == paused' = TRUE /\ resume' = FALSE
ResumeFlags == paused' = FALSE /\ resume' = TRUE

\* The answer says pause: set the flags under the lock, then drain.
ProcPause ==
  /\ \/ /\ ppc = "decide"
        /\ ShouldPause(stats)
        /\ IF CanLock THEN PauseFlags /\ ppc' = "drain"
                      ELSE UNCHANGED <<paused, resume>> /\ ppc' = "pause"
     \/ /\ ppc = "pause"
        /\ lock = "free"
        /\ PauseFlags
        /\ ppc' = "drain"
  /\ stats' = 0
  /\ UNCHANGED <<queueVars, fed, got, taskVars, lock, staleness, monVars, mainVars,
                 resetVars, trainVars>>

\* Drain: take finished tasks out, under the lock; the first failed one raises.
ReapDrained(D) ==
  /\ D # {}
  /\ Cardinality(D \cap Failed) <= 1
  /\ task' = Reaped(D)
  /\ ppc' = IF D \cap Failed = {} THEN "drain" ELSE "failed"

DrainHarvest ==
  /\ \/ /\ ppc = "drain"
        /\ CanLock
        /\ \E D \in SUBSET Finished :
             /\ IF Failed = {} THEN D = Finished ELSE D \cap Failed # {}
             /\ ReapDrained(D)
     \/ /\ ppc = "drain"
        /\ ~CanLock
        /\ Finished # {}
        /\ ppc' = "harvest"
        /\ UNCHANGED task
     \/ /\ ppc = "harvest"
        /\ lock = "free"
        /\ \E D \in SUBSET Finished : ReapDrained(D)
  /\ UNCHANGED <<queueVars, fed, got, generated, droppedStale, processed, flowVars, staleness,
                 stats, monVars, mainVars, resetVars, trainVars>>

\* The resume event ends the drain, tasks still running or not.
DrainExit ==
  /\ ppc = "drain"
  /\ resume
  /\ ppc' = "top"
  /\ UNCHANGED <<queueVars, fed, got, taskVars, flowVars, staleness, stats, monVars, mainVars,
                 resetVars, trainVars>>

\* The answer says go on, but pending_queue is empty: await an item.
ProcWaitItem ==
  /\ ppc = "decide"
  /\ ~ShouldPause(stats)
  /\ Pending = 0
  /\ ppc' = "get"
  /\ stats' = 0
  /\ UNCHANGED <<queueVars, fed, got, taskVars, flowVars, staleness, monVars, mainVars,
                 resetVars, trainVars>>

ReadyToTake ==
  /\ ppc = "get" \/ (ppc = "decide" /\ ~ShouldPause(stats))
  /\ Pending > 0

\* Ask for the lock in order to await a task while holding it.
HoldOrWait(hold, wait) ==
  IF CanLock THEN ppc' = hold /\ lock' = "processor"
             ELSE ppc' = wait /\ UNCHANGED lock

\* A sample is taken, counted stale without the lock, and submitted unless the tasks are at their
\* limit or the lock is not to be had.
TakeSample ==
  /\ ReadyToTake
  /\ got < Total
  /\ got' = got + 1
  /\ staleness' = staleness + 1
  /\ IF AtLimit
     THEN HoldOrWait("limitwait", "limit") /\ UNCHANGED task
     ELSE /\ IF CanLock THEN task' = Submitted(task, got + 1) /\ ppc' = "top"
                        ELSE UNCHANGED task /\ ppc' = "submit"
          /\ UNCHANGED lock
  /\ stats' = 0
  /\ UNCHANGED <<queueVars, fed, generated, droppedStale, processed, paused, resume, monVars,
                 mainVars, resetVars, trainVars>>

\* The end signal of the feeder is counted like a sample.
TakeEnd ==
  /\ ReadyToTake
  /\ got = Total
  /\ got' = got + 1
  /\ staleness' = staleness + 1
  /\ IF Active = {} THEN ppc' = "ended" /\ UNCHANGED lock ELSE HoldOrWait("endwait", "end")
  /\ stats' = 0
  /\ UNCHANGED <<queueVars, fed, taskVars, paused, resume, monVars, mainVars, resetVars,
                 trainVars>>

\* The lock is granted to a processor that waited for it.
ProcGranted ==
  /\ lock = "free"
  /\ \/ /\ ppc = "limit"
        /\ ppc' = "limitwait" /\ lock' = "processor"
        /\ UNCHANGED task
     \/ /\ ppc = "end"
        /\ ppc' = "endwait" /\ lock' = "processor"
        /\ UNCHANGED task
     \/ /\ ppc = "submit"
        /\ task' = Submitted(task, got)
        /\ ppc' = "top" /\ UNCHANGED lock
  /\ UNCHANGED <<queueVars, fed, got, generated, droppedStale, processed, paused, resume,
                 staleness, stats, monVars, mainVars, resetVars, trainVars>>

\* At the limit: all finished tasks leave, the lock is released, the held sample is submitted.
LimitHarvest ==
  /\ ppc = "limitwait"
  /\ Finished # {}
  /\ lock' = "free"
  /\ IF Failed # {} THEN task' = Reaped(Finished) /\ ppc' = "failed"
     ELSE IF rst = "want" \/ mon = "want" THEN task' = Reaped(Finished) /\ ppc' = "submit"
     ELSE task' = Submitted(Reaped(Finished), got) /\ ppc' = "top"
  /\ UNCHANGED <<queueVars, fed, got, generated, droppedStale, processed, paused, resume,
                 staleness, stats, monVars, mainVars, resetVars, trainVars>>

\* After the end signal: the same until no task is left.
EndHarvest ==
  /\ ppc = "endwait"
  /\ Finished # {}
  /\ task' = Reaped(Finished)
  /\ ppc' = IF Failed # {} THEN "failed"
            ELSE IF Active = Finished THEN "ended"
            ELSE IF rst = "want" \/ mon = "want" THEN "end" ELSE "endwait"
  /\ lock' = IF ppc' = "endwait" THEN "processor" ELSE "free"
  /\ UNCHANGED <<queueVars, fed, got, generated, droppedStale, processed, paused, resume,
                 staleness, stats, monVars, mainVars, resetVars, trainVars>>

Processor ==
  \/ ProcAsk \/ ProcPause \/ DrainHarvest \/ DrainExit \/ ProcWaitItem
  \/ TakeSample \/ TakeEnd \/ ProcGranted \/ LimitHarvest \/ EndHarvest

(***************************************************************************)
(* A sample task: _process_single_sample_streaming.                        *)
(***************************************************************************)

\* The sample is generated and put_sample runs in the queue actor.
Store(s) ==
  /\ task[s] = "gen"
  /\ MQ!Put([sample |-> s, at |-> version])
  /\ task' = [task EXCEPT ![s] = IF MQ!Full THEN "displaced" ELSE "stored"]
  /\ UNCHANGED <<fed, got, generated, droppedStale, processed, flowVars, staleness, procVars,
                 monVars, mainVars, resetVars, trainVars>>

\* Mutant: a sample whose put answered False is put again.
ReplyRetries(s) ==
  /\ task[s] \in {"stored", "displaced"}
  /\ generated' = generated + 1 /\ processed' = processed + 1
  /\ task' = [task EXCEPT ![s] = IF task[s] = "stored" THEN "done" ELSE "gen"]
  /\ UNCHANGED <<queueVars, fed, got, droppedStale, flowVars, staleness, procVars, monVars,
                 mainVars, resetVars, trainVars>>

\* The answer of put_sample reaches the task, which counts it and ends.
Reply(s) ==
  /\ task[s] \in {"stored", "displaced"}
  /\ IF task[s] = "stored"
     THEN generated' = generated + 1 /\ UNCHANGED droppedStale
     ELSE droppedStale' = droppedStale + 1 /\ UNCHANGED generated
  /\ processed' = processed + 1
  /\ task' = [task EXCEPT ![s] = "done"]
  /\ UNCHANGED <<queueVars, fed, got, flowVars, staleness, procVars, monVars, mainVars, resetVars,
                 trainVars>>

\* Generation raises: the task ends with the exception.
Fail(s) ==
  /\ task[s] = "gen"
  /\ Cardinality(Crashes) < MaxFailures
  /\ task' = [task EXCEPT ![s] = "failed"]
  /\ UNCHANGED <<queueVars, fed, got, generated, droppedStale, processed, flowVars, staleness,
                 procVars, monVars, mainVars, resetVars, trainVars>>

(***************************************************************************)
(* The streaming main: the end of _streaming_generation_main.              *)
(***************************************************************************)

ProcessorOver == ppc \in {"ended", "failed"}

\* The processor returned or raised: None goes to the queue, even to a full one.
MainSignal ==
  /\ mpc = "stream"
  /\ ProcessorOver
  /\ MQ!Put(None)
  /\ mpc' = "flag"
  /\ UNCHANGED <<fed, got, taskVars, flowVars, staleness, procVars, monVars, running, resetVars,
                 trainVars>>

MainStop ==
  /\ mpc = "flag"
  /\ lock = "free"
  /\ running' = FALSE
  /\ mpc' = "over"
  /\ UNCHANGED <<queueVars, fed, got, taskVars, flowVars, staleness, procVars, monVars, resetVars,
                 trainVars>>

(***************************************************************************)
(* The monitor: _async_monitor_loop.                                       *)
(***************************************************************************)

MonAsk ==
  /\ mon = "sleep"
  /\ running
  /\ paused
  /\ monStats' = Len(queue)
  /\ mon' = "decide"
  /\ UNCHANGED <<queueVars, fed, got, taskVars, flowVars, staleness, procVars, mainVars, resetVars,
                 trainVars>>

MonDecide ==
  /\ mon = "decide"
  /\ IF ShouldPause(monStats) THEN mon' = "sleep" /\ UNCHANGED <<paused, resume>>
     ELSE IF CanLock THEN mon' = "sleep" /\ ResumeFlags
     ELSE mon' = "want" /\ UNCHANGED <<paused, resume>>
  /\ monStats' = 0
  /\ UNCHANGED <<queueVars, fed, got, taskVars, lock, staleness, procVars, mainVars,
                 resetVars, trainVars>>

MonResume ==
  /\ mon = "want"
  /\ lock = "free"
  /\ ResumeFlags
  /\ mon' = "sleep"
  /\ UNCHANGED <<queueVars, fed, got, taskVars, lock, staleness, procVars, monStats, mainVars,
                 resetVars, trainVars>>

Monitor == MonAsk \/ MonDecide \/ MonResume

(***************************************************************************)
(* reset_staleness, called by the trainer after it has sent new weights.   *)
(***************************************************************************)

\* Under the lock: resume, and read len(active_tasks) before the await of the queue size.
ResetLocked ==
  /\ ResumeFlags
  /\ activeAtReset' = Cardinality(Active)
  /\ lock' = "reset"
  /\ rst' = "count"

ResetCall ==
  /\ tpc = "reset"
  /\ rst = "idle"
  /\ IF CanLock THEN ResetLocked
                ELSE rst' = "want" /\ UNCHANGED <<flowVars, activeAtReset>>
  /\ UNCHANGED <<queueVars, fed, got, taskVars, staleness, procVars, monVars, mainVars,
                 queueAtReset, trainVars>>

ResetGranted ==
  /\ rst = "want"
  /\ lock = "free"
  /\ ResetLocked
  /\ UNCHANGED <<queueVars, fed, got, taskVars, staleness, procVars, monVars, mainVars,
                 queueAtReset, trainVars>>

\* get_queue_size runs in the queue actor; puts may follow before its answer arrives.
ResetAsk ==
  /\ rst = "count"
  /\ queueAtReset' = Len(queue)
  /\ rst' = "reply"
  /\ UNCHANGED <<queueVars, fed, got, taskVars, flowVars, staleness, procVars, monVars, mainVars,
                 activeAtReset, trainVars>>

\* What still counts against the new parameters: tasks in flight when the lock was taken, and
\* what was in the queue a moment later.
Recount == activeAtReset + queueAtReset

\* The queue size arrives: the sum replaces whatever was counted meanwhile.
ResetFinish ==
  /\ rst = "reply"
  /\ staleness' = Recount
  /\ lock' = "free"
  /\ rst' = "idle"
  /\ tpc' = "save"
  /\ taken' = 0
  /\ activeAtReset' = 0 /\ queueAtReset' = 0
  /\ UNCHANGED <<queueVars, fed, got, taskVars, paused, resume, procVars, monVars, mainVars,
                 batch, local, version, stopping, lastCkpt, steps, saved, trained, abandoned>>

Reset == ResetCall \/ ResetGranted \/ ResetAsk \/ ResetFinish

(***************************************************************************)
(* The trainer: fit and fit_step.                                          *)
(***************************************************************************)

BatchSamples == {batch[i].sample : i \in DOMAIN batch}

\* _get_samples_from_queue: one sample more; a full batch goes to training.
Collect ==
  /\ tpc = "collect"
  /\ queue # <<>> /\ Head(queue) # None
  /\ MQ!Get(Head(queue))
  /\ batch' = Append(batch, Head(queue))
  /\ taken' = taken + 1
  /\ tpc' = IF Len(batch) + 1 = Required THEN "train" ELSE "collect"
  /\ UNCHANGED <<fed, got, taskVars, flowVars, staleness, procVars, monVars, mainVars, resetVars,
                 local, version, stopping, lastCkpt, steps, saved, trained, abandoned>>

\* None ends the collection: the samples at hand are not trained, fit leaves its loop.
CollectNone ==
  /\ tpc = "collect"
  /\ queue # <<>> /\ Head(queue) = None
  /\ MQ!Get(None)
  /\ batch' = <<>>
  /\ abandoned' = BatchSamples
  /\ stopping' = TRUE
  /\ tpc' = "stop"
  /\ UNCHANGED <<fed, got, taskVars, flowVars, staleness, procVars, monVars, mainVars, resetVars,
                 local, version, lastCkpt, steps, saved, trained, taken>>

\* The local step just trained completes a parameter version.
VersionComplete == local >= Trigger

\* The local update, _fit_update_local_step, and the weights sent when a version is complete.
TrainStep ==
  /\ tpc = "train"
  /\ trained' = trained \cup BatchSamples
  /\ batch' = <<>>
  /\ steps' = steps + 1
  /\ IF VersionComplete
     THEN local' = 1 /\ tpc' = "reset" /\ version' = version + 1
     ELSE local' = local + 1 /\ tpc' = "save" /\ UNCHANGED version
  /\ UNCHANGED <<queueVars, fed, got, taskVars, flowVars, staleness, procVars, monVars, mainVars,
                 resetVars, stopping, lastCkpt, saved, abandoned, taken>>

\* End of fit: weights are sent once more if the last version was not validated.  With local steps
\* pending the call is made too, and _fit_update_weights returns at once.
Stop ==
  /\ tpc = "stop"
  /\ tpc' = IF version % TestFreq # 0 /\ local = 1 THEN "reset" ELSE "save"
  /\ UNCHANGED <<queueVars, fed, got, taskVars, flowVars, staleness, procVars, monVars, mainVars,
                 resetVars, batch, local, version, stopping, lastCkpt, steps, saved, trained,
                 abandoned, taken>>

\* A version is due for a checkpoint.  Mutant: the end of training does not force it.
SaveDueUnforced(expiring) == version % SaveFreq = 0 \/ expiring
SaveDue(expiring) == stopping \/ version % SaveFreq = 0 \/ expiring

\* _fit_save_checkpoint: once for a version, when it is due.
Save(expiring) ==
  /\ tpc = "save"
  /\ IF version # lastCkpt /\ SaveDue(expiring)
     THEN saved' = steps /\ lastCkpt' = version
     ELSE UNCHANGED <<saved, lastCkpt>>
  /\ tpc' = IF stopping THEN "done" ELSE "collect"
  /\ UNCHANGED <<queueVars, fed, got, taskVars, flowVars, staleness, procVars, monVars, mainVars,
                 resetVars, batch, local, version, stopping, steps, trained, abandoned, taken>>

Trainer ==
  \/ Collect \/ CollectNone \/ TrainStep \/ Stop
  \/ \E expiring \in BOOLEAN : Save(expiring)

-----------------------------------------------------------------------------
Next ==
  \/ Feed
  \/ Processor
  \/ \E s \in Sample : Store(s) \/ Reply(s) \/ Fail(s)
  \/ MainSignal \/ MainStop
  \/ Monitor
  \/ Reset
  \/ Trainer

Spec == Init /\ [][Next]_vars

\* Every coroutine that can run does, every generation ends, and the data loader keeps supplying.
\* asyncio.Lock is granted in the order it was asked for, so a waiter gets it although others may
\* take it in between: the grants are strongly fair.  A task stores and replies once, so that
\* fairness to them all together passes none over.  Nothing makes a task fail.
Fairness ==
  /\ WF_vars(Feed)
  /\ WF_vars(Processor) /\ SF_vars(ppc \in LockWait /\ Processor)
  /\ WF_vars(\E s \in Sample : Store(s) \/ Reply(s))
  /\ WF_vars(MainSignal) /\ SF_vars(MainStop)
  /\ WF_vars(Monitor) /\ SF_vars(MonResume)
  /\ WF_vars(Reset) /\ SF_vars(ResetGranted)
  /\ WF_vars(Trainer)

LiveSpec == Spec /\ Fairness

(***************************************************************************)
(* Properties                                                              *)
(***************************************************************************)

TypeOK ==
  /\ queue \in Seq(Entry)
  /\ produced \in Nat /\ consumed \in Nat /\ dropped \in Nat /\ cleared \in Nat
  /\ fed \in 0..(Total + 1) /\ got \in 0..(Total + 1)
  /\ task \in [Sample -> TaskState]
  /\ paused \in BOOLEAN /\ resume \in BOOLEAN
  /\ staleness \in Nat
  /\ generated \in Nat /\ droppedStale \in Nat /\ processed \in Nat
  /\ lock \in {"free", "processor", "reset"}
  /\ ppc \in ProcState /\ stats \in Nat
  /\ mon \in {"sleep", "decide", "want"} /\ monStats \in Nat
  /\ mpc \in {"stream", "flag", "over"} /\ running \in BOOLEAN
  /\ rst \in ResetState /\ activeAtReset \in Nat /\ queueAtReset \in Nat
  /\ tpc \in {"collect", "train", "reset", "save", "stop", "done"}
  /\ batch \in Seq(SampleEntry)
  /\ local \in 1..Trigger /\ version \in Nat
  /\ stopping \in BOOLEAN
  /\ lastCkpt \in Nat /\ steps \in Nat /\ saved \in Nat
  /\ trained \subseteq Sample /\ abandoned \subseteq Sample
  /\ taken \in Nat

\* The sample the processor has taken from pending_queue and not yet submitted.
Held == IF ppc \in {"limit", "limitwait", "submit"} THEN 1 ELSE 0

\* Samples the rollouter has started on and the trainer has not taken.
Outstanding == Len(queue) + Cardinality(Generating) + Held

\* The lock discipline of the coroutines: only reset_staleness and the two waits of the processor
\* keep the lock across an await, never together.
LockOK ==
  /\ lock = "processor" <=> ppc \in LockHeld
  /\ lock = "reset" <=> rst \in ResetHeld

\* paused is set only by a processor that is about to drain: the tests of self.paused at the top
\* of the loop and before a submission never find it set, and no sample starts while it is.
PausedOnlyInDrain ==
  /\ resume <=> ~paused
  /\ paused => ppc \in {"drain", "harvest", "failed"}

\* The end signal takes a place in the queue like a sample.
StreamEnd == IF mpc = "stream" THEN 0 ELSE 1

\* Staleness control: from one reset of staleness to the next, the samples the trainer has taken
\* and the samples started for it are at most one more than max_required_samples.  The one is the
\* sample the processor holds while reset_staleness counts the others.
OutstandingBound == taken + Outstanding <= MaxRequired + 1 + StreamEnd

\* What makes the bound inductive: staleness_samples covers everything but the held sample; a
\* processor that waits for an item decided to with room left; reset_staleness has counted every
\* task that can still put a sample, and all that those put after the queue was asked.
StalenessCovers ==
  /\ taken + Outstanding <= staleness + 1 + StreamEnd
  /\ ppc = "get" => taken + Outstanding <= MaxRequired + StreamEnd
  /\ rst = "count" => Cardinality(Generating) <= activeAtReset
  /\ rst = "reply" => Len(queue) + Cardinality(Generating) <= Recount + StreamEnd

\* The streaming main sends the end signal once the processor is over, never before.
EndAfterProcessor == mpc # "stream" => ProcessorOver

\* The rollouter as the trainer sees it: samples start within the budget, and only a reset of
\* staleness renews it.
FC == INSTANCE FlowControl WITH
  Budget <- MaxRequired, ahead <- Outstanding, used <- taken, open <- mpc = "stream"
FlowControlled == FC!FSpec

\* Freshness: a sample waits in the queue for at most 1 + staleness_threshold parameter versions.
QueueLag ==
  \A i \in DOMAIN batch :
    version - batch[i].at <= MaxRequired \div (Required * Trigger)

\* A sample is in one place: still to come, held, generating, queued, collected or trained.  None
\* is trained twice, and none that was dropped comes back.
QueuedSamples == {queue[i].sample : i \in DOMAIN queue} \ {0}
OnePlace ==
  /\ \A i, j \in DOMAIN queue : queue[i].sample = queue[j].sample => i = j
  /\ \A i, j \in DOMAIN batch : batch[i].sample = batch[j].sample => i = j
  /\ QueuedSamples \cap (BatchSamples \cup trained \cup abandoned) = {}
  /\ (BatchSamples \cup abandoned) \cap trained = {}
  /\ Generating \cap (QueuedSamples \cup BatchSamples \cup trained \cup abandoned) = {}
  /\ \A s \in Sample : s > got => task[s] = "none"

\* Accounting: what the queue dropped is what put_sample reported to a task, plus what the end
\* signal pushed out, which nobody counts.
Displaced == {s \in Sample : task[s] = "displaced"}
DropsReported ==
  /\ dropped - (droppedStale + Cardinality(Displaced)) \in {0, 1}
  /\ mpc = "stream" => dropped = droppedStale + Cardinality(Displaced)
  /\ processed = generated + droppedStale

\* No sample is lost or doubled on its way to the trainer without the rollouter counting it, even
\* when a task fails and the others outlive the processor.
SamplesKept == OnePlace /\ DropsReported

\* The end signal reaches the trainer: tasks that outlive a failed processor never push it out.
EndSignalSurvives ==
  mpc # "stream" /\ ~stopping => \E i \in DOMAIN queue : queue[i] = None

\* A run without failures loses nothing silently: when the trainer is done, every sample was
\* trained, dropped by the queue, or is one of fewer than required_samples left over.
Missing == Sample \ (trained \cup abandoned)
CompleteRun ==
  tpc = "done" /\ Crashes = {} =>
    /\ Cardinality(Missing) = dropped
    /\ Cardinality(abandoned) < Required
    /\ generated + droppedStale = Total

\* Parameter synchronisation happens after exactly trigger * required_samples samples.
SyncPeriod ==
  /\ tpc = "reset" /\ ~stopping => taken = Required * Trigger
  /\ tpc \in {"collect", "train"} => taken = (local - 1) * Required + Len(batch)

\* A checkpoint covers whole versions only, and the newest one that was saved.
CheckpointOK == tpc = "done" => lastCkpt = version

\* Weights are sent, and checkpoints written, at whole versions only, whichever of the three
\* conditions ends the training between two of them.
VersionsWhole == SyncPeriod /\ CheckpointOK

\* The comment in _fit_save_checkpoint: the last training step is among those that are saved.
LastStepSaved == tpc = "done" => saved = steps

\* The documentation: the rollouter generates at most rollout_num samples between two parameter
\* updates, the stale ones included: taken, queued or being generated.
RolloutNum == mpc = "stream" => taken + Len(queue) + Cardinality(Generating) <= MaxRequired

\* Both actors are done: the trainer has left its loop and the rollouter has stopped.
BothDone == tpc = "done" /\ mpc = "over"

\* The one state a run can stay in before that: the trainer waits on an empty queue, the rollouter
\* is paused, drained and waits for a reset of staleness, and its count has reached the budget
\* although less than the budget is taken or under way: the last reset counted finished tasks.
Starved ==
  /\ tpc = "collect" /\ queue = <<>>
  /\ ppc = "drain" /\ ~resume /\ Active = {}
  /\ staleness >= MaxRequired
  /\ taken + Outstanding < MaxRequired

\* Every run ends or starves in that way: the lock, the drain, the monitor and the end signal make
\* no other standstill, whatever order they run in and whichever task fails.
EndsOrStarves == <>[](BothDone \/ Starved)

\* A trainer that waits for samples is served, or told that there are no more.
TrainerServed == tpc = "collect" ~> tpc # "collect"
=============================================================================
