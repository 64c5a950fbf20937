----------------------------- MODULE SyncTraining -----------------------------
(***************************************************************************)
(* RayPPOTrainer (verl/trainer/ppo/ray_trainer.py): the training loop of   *)
(* fit over epochs and batches, _save_checkpoint, a crash at any moment,   *)
(* and _load_checkpoint of the next start.                                 *)
(*                                                                         *)
(* A checkpoint is many writes: the actor's directory and the critic's,    *)
(* each one shard per rank and with its own retention, then the state of   *)
(* the data loader, then the tracker file that the next start reads.       *)
(*                                                                         *)
(* Weights are represented by the sequence of the batches they were        *)
(* trained on: batch i of epoch e is the number e * StepsPerEpoch + i.     *)
(* A shard, whoever wrote it, is the weights it was written from.          *)
(***************************************************************************)
EXTENDS CheckpointStore

CONSTANTS Rank, StepsPerEpoch, Epochs, SaveFreq,
          MaxCrashes   \* bound on the crashes

TrainingAssumption ==
    /\ StepsPerEpoch \in Nat \ {0}
    /\ Epochs \in Nat \ {0}
    /\ SaveFreq \in Nat \ {0}
    /\ KeepAssumption
    /\ MaxCrashes \in Nat
    /\ Rank # {}

Total == StepsPerEpoch * Epochs   \* total_training_steps
Version == 1..Total
Part == {"actor", "critic"}
NoShard == <<-1>>                 \* no file
NoData == -1

VARIABLES
    phase,     \* "down", "train", "capacity", "shards", "data", "open", "write" or "done"
    part,      \* whose directory is being saved
    step,      \* global_steps
    epoch, pos,\* the loop's epoch, and how far its iterator has come
    weights,   \* what the current weights were trained on
    saved,     \* previous_saved_paths of the actor's and the critic's rank 0
    shards,    \* on disk: shards[p][v][r]
    data,      \* on disk: data.pt of every version
    tracker,   \* on disk: latest_checkpointed_iteration.txt
    crashes

memory == <<phase, part, step, epoch, pos, weights, saved>>
disk == <<shards, data, tracker>>
vars == <<memory, disk, crashes>>

Init ==
    /\ phase = "down" /\ part = "actor"
    /\ step = 0 /\ epoch = 0 /\ pos = 0 /\ weights = <<>>
    /\ saved = [p \in Part |-> <<>>]
    /\ shards = [p \in Part |-> [v \in Version |-> [r \in Rank |-> NoShard]]]
    /\ data = [v \in Version |-> NoData]
    /\ tracker = NoFile
    /\ crashes = 0

(* find_latest_ckpt_path: the version to resume from, 0 for none.  A       *)
(* truncated tracker file is not a number: int("") raises.                 *)
Exists(v) == data[v] # NoData \/ \E p \in Part, r \in Rank : shards[p][v][r] # NoShard
Latest == IF tracker = NoFile \/ ~Exists(tracker) THEN 0 ELSE tracker
Loadable(v) == v # 0 => \A p \in Part, r \in Rank : shards[p][v][r] # NoShard

\* Mutant: a state of the end of an epoch is used as it is.
PositionAlways(v) == IF v = 0 \/ data[v] = NoData THEN 0 ELSE data[v]

(* Where the iterator of the first epoch starts: a state that was saved at *)
(* the end of an epoch says that the loader is exhausted and is left out.  *)
Position(v) ==
    IF v = 0 \/ v % StepsPerEpoch = 0 \/ data[v] = NoData THEN 0 ELSE data[v]

(* fit counts from the step behind the resumed one.                        *)
FirstStep(v) == v + 1

(* The job starts: _load_checkpoint, then fit up to its loops.  With a     *)
(* shard missing or an unreadable tracker the start raises and the job     *)
(* stays down.                                                             *)
Start ==
    /\ phase = "down"
    /\ tracker # Cut
    /\ Loadable(Latest)
    /\ LET v == Latest IN
       /\ IF v = 0 THEN weights' = <<>>
                   ELSE \E p \in Part, r \in Rank : weights' = shards[p][v][r]
       /\ step' = FirstStep(v)
       /\ epoch' = v \div StepsPerEpoch
       /\ pos' = Position(v)
    /\ saved' = [p \in Part |-> <<>>]
    /\ phase' = IF Latest \div StepsPerEpoch < Epochs THEN "train" ELSE "done"
    /\ part' = "actor"
    /\ UNCHANGED <<disk, crashes>>

AfterStep(s) == IF s >= Total THEN "done" ELSE "train"

(* One batch: generation, critic and actor update.  It is saved at the     *)
(* save frequency, as the last step, or when the machine is about to       *)
(* expire (should_save_ckpt_esi), which can happen at any step.            *)
TrainBatch(expiring) ==
    /\ phase = "train" /\ pos < StepsPerEpoch
    /\ weights' = Append(weights, epoch * StepsPerEpoch + pos)
    /\ pos' = pos + 1
    /\ IF step >= Total \/ step % SaveFreq = 0 \/ expiring
       THEN phase' = "capacity" /\ UNCHANGED step
       ELSE phase' = AfterStep(step) /\ step' = step + 1
    /\ UNCHANGED <<part, epoch, saved, disk, crashes>>

(* The iterator of an epoch is exhausted; the next one starts afresh.      *)
NextEpoch ==
    /\ phase = "train" /\ pos = StepsPerEpoch
    /\ epoch' = epoch + 1 /\ pos' = 0
    /\ phase' = IF epoch + 1 < Epochs THEN "train" ELSE "done"
    /\ UNCHANGED <<part, step, weights, saved, disk, crashes>>

Remove(p, vs) ==
    [shards EXCEPT ![p] = [v \in Version |-> IF v \in vs THEN [r \in Rank |-> NoShard] ELSE @[v]]]

(* save_checkpoint of a worker group, up to its first barrier.             *)
Capacity ==
    /\ phase = "capacity"
    /\ LET n == OverCapacity(saved[part]) IN
        /\ shards' = Remove(part, Oldest(saved[part], n))
        /\ saved' = [saved EXCEPT ![part] = Without(@, n)]
    /\ phase' = "shards"
    /\ UNCHANGED <<part, step, epoch, pos, weights, data, tracker, crashes>>

WriteShard(r) ==
    /\ phase = "shards" /\ shards[part][step][r] # weights
    /\ shards' = [shards EXCEPT ![part][step][r] = weights]
    /\ UNCHANGED <<memory, data, tracker, crashes>>

(* The last barrier has been passed: rank 0 registers the checkpoint, and  *)
(* the call returns to the trainer.                                        *)
Written == \A r \in Rank : shards[part][step][r] = weights

Register ==
    /\ phase = "shards" /\ Written
    /\ LET all == Append(saved[part], step)
           n == OverLimit(all) IN
       /\ shards' = Remove(part, Oldest(all, n))
       /\ saved' = [saved EXCEPT ![part] = Without(all, n)]
    /\ IF part = "actor" THEN part' = "critic" /\ phase' = "capacity"
                         ELSE part' = "actor" /\ phase' = "data"
    /\ UNCHANGED <<step, epoch, pos, weights, data, tracker, crashes>>

SaveData ==
    /\ phase = "data"
    /\ data' = [data EXCEPT ![step] = pos]
    /\ phase' = "open"
    /\ UNCHANGED <<part, step, epoch, pos, weights, saved, shards, tracker, crashes>>

(* open(..., "w") truncates the tracker file; the number reaches the disk  *)
(* when the file is closed.                                                *)
OpenTracker ==
    /\ phase = "open"
    /\ tracker' = Cut
    /\ phase' = "write"
    /\ UNCHANGED <<part, step, epoch, pos, weights, saved, shards, data, crashes>>

WriteTracker ==
    /\ phase = "write"
    /\ tracker' = step
    /\ phase' = AfterStep(step)
    /\ step' = step + 1
    /\ UNCHANGED <<part, epoch, pos, weights, saved, shards, data, crashes>>

(* The job dies: only the disk is left.                                    *)
Crash ==
    /\ phase \notin {"down", "done"} /\ crashes < MaxCrashes
    /\ phase' = "down" /\ part' = "actor"
    /\ step' = 0 /\ epoch' = 0 /\ pos' = 0 /\ weights' = <<>>
    /\ saved' = [p \in Part |-> <<>>]
    /\ crashes' = crashes + 1
    /\ UNCHANGED disk

Work ==
    \/ Start
    \/ \E expiring \in BOOLEAN : TrainBatch(expiring)
    \/ NextEpoch
    \/ Capacity
    \/ \E r \in Rank : WriteShard(r)
    \/ Register
    \/ SaveData
    \/ OpenTracker
    \/ WriteTracker

Next == Work \/ Crash

Spec == Init /\ [][Next]_vars
LiveSpec == Spec /\ WF_vars(Work)

------------------------------------------------------------------------------
(* Every variable holds a value of its kind, and global_steps counts the   *)
(* steps the weights went through, in this start and in earlier ones.      *)
TypeOK ==
    /\ phase \in {"down", "train", "capacity", "shards", "data", "open", "write", "done"}
    /\ part \in Part
    /\ step \in 0..(Total + 1) /\ epoch \in 0..Epochs /\ pos \in 0..StepsPerEpoch
    /\ phase = "train" => step = Len(weights) + 1
    /\ \A p \in Part : \A i \in DOMAIN saved[p] : saved[p][i] \in Version
    /\ \A v \in Version : data[v] \in {NoData} \cup 1..StepsPerEpoch
    /\ tracker \in {NoFile, Cut} \cup Version
    /\ crashes \in 0..MaxCrashes

(* The tracker file names a version whose every part is there, written in  *)
(* one save: the shards of actor and critic hold the same weights, trained *)
(* for that many steps, and data.pt the position that goes with them.      *)
(* Whenever the job dies, the next one can start from there.  Removal of   *)
(* old checkpoints, which looks at neither, must leave it alone.           *)
Resumable ==
    tracker \in Version =>
        \E w \in {shards["actor"][tracker][r] : r \in Rank} :
            /\ w # NoShard /\ Len(w) = tracker
            /\ \A p \in Part, r \in Rank : shards[p][tracker][r] = w
            /\ data[tracker] = ((tracker - 1) % StepsPerEpoch) + 1

(* However often the job died and wherever, the weights have been trained  *)
(* on every batch of every epoch so far, once and in order.                *)
EachBatchOnce ==
    phase # "down" => \A i \in DOMAIN weights : weights[i] = i - 1

(* The comment at ray_trainer.py:956 calls the tracker file there "for     *)
(* atomic usage": a job that is down finds no half-written one.            *)
TrackerAtomic == phase = "down" => tracker # Cut

(* The job gets through, with all the batches, unless it died between the  *)
(* two halves of a tracker write.                                          *)
Trained == <>(\/ phase = "done" /\ Len(weights) = Total
              \/ phase = "down" /\ tracker = Cut)
==============================================================================
