---------------------------- MODULE AsyncCheckpoint ---------------------------
(***************************************************************************)
(* Checkpoints of the fully asynchronous trainer                           *)
(* (verl/experimental/fully_async_policy/fully_async_trainer.py and        *)
(* fully_async_rollouter.py): when one is saved, in which order its parts  *)
(* are written while the rollouter goes on feeding samples, and what both  *)
(* make of it when the job starts again.                                   *)
(*                                                                         *)
(* Samples are numbered in the order in which the data loader yields them, *)
(* over all epochs and all starts of the job.  Weights are represented by  *)
(* the set of samples they were trained on, and a directory, whoever wrote *)
(* it, by the weights it was written from.  A training step takes one      *)
(* sample (required_samples = 1); which one is left to the rollouter.      *)
(* Samples that the message queue drops, FullyAsync's subject, are left    *)
(* out.                                                                    *)
(***************************************************************************)
EXTENDS CheckpointStore, FiniteSets

CONSTANTS
    DataSize, Epochs,  \* samples of an epoch, trainer.total_epochs
    Trigger,           \* trigger_parameter_sync_step
    SaveFreq,
    PendingMax,        \* maxsize of pending_queue, 128 in the code
    MaxFlight,         \* samples the processor has taken and the trainer not trained on: the
                       \* staleness control allows max_required_samples and the one it holds
    MaxCrashes         \* bound on the crashes

AsyncAssumption ==
    /\ {DataSize, Epochs, Trigger, SaveFreq, PendingMax, MaxFlight} \subseteq Nat \ {0}
    /\ KeepAssumption
    /\ MaxCrashes \in Nat

Total == DataSize * Epochs               \* total_rollout_steps
\* Each start feeds a sample, also when the versions before it took all of them.
MaxVersion == (Total + MaxCrashes) \div Trigger
Version == 1..MaxVersion
Dir == {"actor", "critic"}
Missing == {-1}
Partial == {-2}

VARIABLES
    phase,      \* "down", "train", "capacity", "save", "data", "open", "write" or "done"
    dir,        \* the directory that is being saved
    local,      \* local_trigger_step
    version, lastVersion, \* current_param_version, last_ckpt_version
    ending,     \* fit has left its loop
    weights,
    saved,      \* previous_saved_paths of the two worker groups' rank 0
    pos, end,   \* rollouter: next sample of the data loader, and where its iterator ends
    fed,        \* rollouter: global_steps
    feeding,    \* _feed_samples runs
    flight,     \* fed and not yet trained on
    got,        \* processor: the samples before this one are taken from pending_queue
    dirs, data, tracker, \* on disk
    crashes

trainer == <<phase, dir, local, version, lastVersion, ending, weights, saved>>
rollouter == <<pos, end, fed, feeding, flight, got>>
disk == <<dirs, data, tracker>>
vars == <<trainer, rollouter, disk, crashes>>

Init ==
    /\ phase = "down" /\ dir = "actor"
    /\ local = 1 /\ version = 0 /\ lastVersion = 0 /\ ending = FALSE
    /\ weights = {} /\ saved = [d \in Dir |-> <<>>]
    /\ pos = 0 /\ end = 0 /\ fed = 1 /\ feeding = FALSE /\ flight = {} /\ got = 0
    /\ dirs = [d \in Dir |-> [v \in Version |-> Missing]]
    /\ data = [v \in Version |-> -1]
    /\ tracker = NoFile
    /\ crashes = 0

Exists(v) == data[v] # -1 \/ \E d \in Dir : dirs[d][v] # Missing
Latest == IF tracker = NoFile \/ ~Exists(tracker) THEN 0 ELSE tracker
Loadable(v) == v # 0 => \A d \in Dir : dirs[d][v] \notin {Missing, Partial}

(* The data loader continues behind the last sample it yielded when its    *)
(* state was taken.                                                        *)
DataPosition(v) == IF v = 0 \/ data[v] = -1 THEN 0 ELSE data[v]

(* The position is restored within its epoch, the number of epochs is not: *)
(* _create_continuous_iterator runs all of them again, the first one       *)
(* shortened.                                                              *)
IteratorEnd(p) ==
    LET inEpoch == IF p = 0 THEN 0 ELSE ((p - 1) % DataSize) + 1 IN
    p + Epochs * DataSize - inEpoch

(* load_checkpoint of the trainer and of the rollouter.                    *)
Start ==
    /\ phase = "down"
    /\ tracker # Cut
    /\ Loadable(Latest)
    /\ LET v == Latest
           p == DataPosition(v) IN
        /\ IF v = 0 THEN weights' = {} ELSE \E d \in Dir : weights' = dirs[d][v]
        /\ version' = v /\ lastVersion' = v
        /\ fed' = v * Trigger + 1
        /\ pos' = p /\ got' = p /\ end' = IteratorEnd(p)
    /\ local' = 1 /\ ending' = FALSE
    /\ saved' = [d \in Dir |-> <<>>]
    /\ feeding' = TRUE /\ flight' = {}
    /\ phase' = "train" /\ dir' = "actor"
    /\ UNCHANGED <<disk, crashes>>

(* _feed_samples: the data loader yields one more sample, once the one     *)
(* before it is in pending_queue; after the last one comes the end signal. *)
Feed ==
    /\ feeding /\ pos < end /\ pos - got <= PendingMax
    /\ flight' = flight \cup {pos} /\ pos' = pos + 1
    /\ IF fed >= Total THEN feeding' = FALSE /\ UNCHANGED fed
                       ELSE fed' = fed + 1 /\ UNCHANGED feeding
    /\ UNCHANGED <<trainer, end, got, disk, crashes>>

FeedExhausted ==
    /\ feeding /\ pos = end
    /\ feeding' = FALSE
    /\ UNCHANGED <<trainer, pos, end, fed, flight, got, disk, crashes>>

(* What the rollouter has taken up, and its staleness control.             *)
TakenUp == {s \in flight : s < got}
Room == Cardinality(TakenUp) < MaxFlight

(* _processor_worker takes the next sample if it need not pause.           *)
Take ==
    /\ got < pos /\ Room
    /\ got' = got + 1
    /\ UNCHANGED <<trainer, pos, end, fed, feeding, flight, disk, crashes>>

(* _fit_save_checkpoint of the version v.                                  *)
ToSave(v, forced) == v # lastVersion /\ (forced \/ v % SaveFreq = 0)

(* _fit_update_local_step                                                  *)
VersionAfter == IF local < Trigger THEN version ELSE version + 1

(* fit_step: one sample is trained on, at the Trigger-th step the version  *)
(* goes up, and it may be time to save.                                    *)
Step(expiring) ==
    /\ phase = "train" /\ ~ending
    /\ \E s \in TakenUp : weights' = weights \cup {s} /\ flight' = flight \ {s}
    /\ local' = IF local < Trigger THEN local + 1 ELSE 1
    /\ version' = VersionAfter
    /\ phase' = IF ToSave(version', expiring) THEN "capacity" ELSE "train"
    /\ UNCHANGED <<dir, lastVersion, ending, saved, pos, end, fed, feeding, got, disk, crashes>>

(* The end signal reaches the trainer: the last version is saved.          *)
Stop ==
    /\ phase = "train" /\ ~ending /\ ~feeding /\ flight = {}
    /\ ending' = TRUE
    /\ phase' = IF ToSave(version, TRUE) THEN "capacity" ELSE "done"
    /\ UNCHANGED <<dir, local, version, lastVersion, weights, saved, rollouter, disk, crashes>>

Remove(d, vs) ==
    [dirs EXCEPT ![d] = [v \in Version |-> IF v \in vs THEN Missing ELSE @[v]]]

Capacity ==
    /\ phase = "capacity"
    /\ LET n == OverCapacity(saved[dir])
           kept == Remove(dir, Oldest(saved[dir], n)) IN
        /\ dirs' = [kept EXCEPT ![dir][version] = Partial]
        /\ saved' = [saved EXCEPT ![dir] = Without(@, n)]
    /\ phase' = "save"
    /\ UNCHANGED <<dir, local, version, lastVersion, ending, weights, rollouter, data, tracker, crashes>>

SaveDir ==
    /\ phase = "save"
    /\ LET all == Append(saved[dir], version)
           n == OverLimit(all)
           whole == [dirs EXCEPT ![dir][version] = weights] IN
        /\ dirs' = [whole EXCEPT ![dir] =
                      [v \in Version |-> IF v \in Oldest(all, n) THEN Missing ELSE @[v]]]
        /\ saved' = [saved EXCEPT ![dir] = Without(all, n)]
    /\ IF dir = "actor" THEN dir' = "critic" /\ phase' = "capacity"
                        ELSE dir' = "actor" /\ phase' = "data"
    /\ UNCHANGED <<local, version, lastVersion, ending, weights, rollouter, data, tracker, crashes>>

(* save_checkpoint of the rollouter, which has gone on feeding.            *)
SaveData ==
    /\ phase = "data"
    /\ data' = [data EXCEPT ![version] = pos]
    /\ phase' = "open"
    /\ UNCHANGED <<dir, local, version, lastVersion, ending, weights, saved, rollouter, dirs, tracker, crashes>>

OpenTracker ==
    /\ phase = "open"
    /\ tracker' = Cut
    /\ phase' = "write"
    /\ UNCHANGED <<dir, local, version, lastVersion, ending, weights, saved, rollouter, dirs, data, crashes>>

WriteTracker ==
    /\ phase = "write"
    /\ tracker' = version /\ lastVersion' = version
    /\ phase' = IF ending THEN "done" ELSE "train"
    /\ UNCHANGED <<dir, local, version, ending, weights, saved, rollouter, dirs, data, crashes>>

(* The trainer, the rollouter or the runner dies, and with it the job:     *)
(* memory, and every sample in flight, is lost.                            *)
Crash ==
    /\ phase \notin {"down", "done"} /\ crashes < MaxCrashes
    /\ phase' = "down" /\ dir' = "actor"
    /\ local' = 1 /\ version' = 0 /\ lastVersion' = 0 /\ ending' = FALSE
    /\ weights' = {} /\ saved' = [d \in Dir |-> <<>>]
    /\ pos' = 0 /\ end' = 0 /\ fed' = 1 /\ feeding' = FALSE /\ flight' = {} /\ got' = 0
    /\ crashes' = crashes + 1
    /\ UNCHANGED disk

TrainerStep ==
    \/ Start
    \/ \E expiring \in BOOLEAN : Step(expiring)
    \/ Stop
    \/ Capacity
    \/ SaveDir
    \/ SaveData
    \/ OpenTracker
    \/ WriteTracker

RollouterStep == Feed \/ FeedExhausted \/ Take

Next == TrainerStep \/ RollouterStep \/ Crash

Spec == Init /\ [][Next]_vars
LiveSpec == Spec /\ WF_vars(TrainerStep) /\ WF_vars(RollouterStep)

------------------------------------------------------------------------------
(* Every variable holds a value of its kind; a version never exceeds what  *)
(* the samples of the run allow, though a job may start again many times.  *)
TypeOK ==
    /\ phase \in {"down", "train", "capacity", "save", "data", "open", "write", "done"}
    /\ dir \in Dir /\ local \in 1..Trigger
    /\ version \in 0..MaxVersion /\ lastVersion \in 0..version
    /\ ending \in BOOLEAN /\ feeding \in BOOLEAN
    /\ \A d \in Dir : \A i \in DOMAIN saved[d] : saved[d][i] \in Version
    /\ pos \in 0..end /\ fed \in 1..(Total + MaxCrashes)
    /\ flight \subseteq 0..pos /\ got \in 0..pos
    /\ tracker \in {NoFile, Cut} \cup Version
    /\ crashes \in 0..MaxCrashes

(* The version the tracker names is whole: actor and critic were saved     *)
(* from the same weights, and the saved position of the data loader is     *)
(* past every sample they were trained on, although both go on while the   *)
(* parts are written one after the other.                                  *)
Resumable ==
    tracker \in Version =>
        /\ dirs["actor"][tracker] = dirs["critic"][tracker]
        /\ dirs["actor"][tracker] \notin {Missing, Partial}
        /\ \A s \in dirs["actor"][tracker] : s < data[tracker]

(* No sample is trained on twice: what is in flight or still to be yielded *)
(* is not in the weights, whatever they were resumed from.                 *)
NoSampleTwice ==
    phase # "down" => flight \cap weights = {} /\ \A s \in weights : s < pos

(* The samples a resumed job never trains on (the warning at               *)
(* fully_async_rollouter.py:326) are those in flight when a checkpoint was *)
(* saved: for each time the job died, what pending_queue held, what waited *)
(* to be put there, and what staleness control let the rollouter take up.  *)
MaxInFlight == MaxFlight + PendingMax + 1
LossBounded ==
    phase # "down" =>
        Cardinality((0..(pos - 1)) \ (weights \cup flight)) <= crashes * MaxInFlight

(* The job gets through, unless it died between the two halves of a        *)
(* tracker write, which the next start cannot read.                        *)
Trained == <>(\/ phase = "done"
              \/ phase = "down" /\ tracker = Cut)
==============================================================================
