----------------------------- MODULE SFTTraining -----------------------------
(***************************************************************************)
(* The supervised trainer (verl/trainer/sft_trainer.py) with its           *)
(* CheckpointHandler (verl/utils/checkpoint/checkpoint_handler.py).        *)
(*                                                                         *)
(* The ranks run the same program, in step where they meet in a collective *)
(* operation and otherwise each at its own pace.  A checkpoint is one      *)
(* directory: a shard per rank, a data_<rank>.pt per rank; then rank 0     *)
(* renames the new tracker file into place.                                *)
(*                                                                         *)
(* Weights are what each rank's data loader gave to train them: its own    *)
(* part of batch i of epoch e is the number e * StepsPerEpoch + i.         *)
(***************************************************************************)
EXTENDS CheckpointStore

CONSTANTS Ranks, StepsPerEpoch, Epochs, SaveFreq,
          MaxCrashes   \* bound on the crashes

TrainingAssumption ==
    /\ {Ranks, StepsPerEpoch, Epochs, SaveFreq} \subseteq Nat \ {0}
    /\ KeepAssumption
    /\ MaxCrashes \in Nat

Rank == 0..(Ranks - 1)
Total == StepsPerEpoch * Epochs
Version == 1..Total
NoShard == <<>>
NoData == -1

VARIABLES
    pc,        \* pc[r]: "down", "train", "shard", "barrier", "data", "track", "end" or "done"
    step,      \* global_step, the same in every rank
    epoch,
    pos,       \* pos[r]: how far the iterator of rank r has come
    weights,   \* weights[r]: the batches rank r has contributed
    saved,     \* previous_saved_paths of rank 0
    shards,    \* on disk: shards[v][r]
    data,      \* on disk: data[v][r]
    tracker,
    crashes

disk == <<shards, data, tracker>>
vars == <<pc, step, epoch, pos, weights, saved, disk, crashes>>

All(state) == [r \in Rank |-> state]
At(state) == \A r \in Rank : pc[r] = state

Init ==
    /\ pc = All("down") /\ step = 0 /\ epoch = 0 /\ pos = All(0)
    /\ weights = All(<<>>) /\ saved = <<>>
    /\ shards = [v \in Version |-> All(NoShard)]
    /\ data = [v \in Version |-> All(NoData)]
    /\ tracker = NoFile
    /\ crashes = 0

Exists(v) == \E r \in Rank : shards[v][r] # NoShard \/ data[v][r] # NoData
Latest == IF tracker = NoFile \/ ~Exists(tracker) THEN 0 ELSE tracker
Loadable(v) == v # 0 => \A r \in Rank : shards[v][r] # NoShard

(* _load_dataloader_state: without its file a rank starts from scratch.    *)
Position(v, r) == IF v = 0 \/ data[v][r] = NoData THEN 0 ELSE data[v][r]

FirstStep(v) == v

Start ==
    /\ At("down")
    /\ Loadable(Latest)
    /\ LET v == Latest IN
        /\ weights' = IF v = 0 THEN All(<<>>) ELSE shards[v][0]
        /\ step' = FirstStep(v)
        /\ epoch' = v \div StepsPerEpoch
        /\ pos' = [r \in Rank |-> Position(v, r)]
        /\ pc' = All(IF v \div StepsPerEpoch < Epochs THEN "train" ELSE "done")
    /\ saved' = <<>>
    /\ UNCHANGED <<disk, crashes>>

AfterStep(s) == IF s >= Total THEN "done" ELSE "train"

\* Mutant: the last step is not saved.
ToSaveAtFrequency(s) == s % SaveFreq = 0

ToSave(s) == s >= Total \/ s % SaveFreq = 0

(* train_batch is collective: it needs every rank's data.  At the save     *)
(* frequency and at the last step the ranks go on to save_checkpoint.      *)
(* There rank 0 makes room before the first barrier.                       *)
TrainBatch ==
    /\ At("train") /\ \A r \in Rank : pos[r] < StepsPerEpoch
    /\ weights' = [r \in Rank |-> Append(weights[r], epoch * StepsPerEpoch + pos[r])]
    /\ pos' = [r \in Rank |-> pos[r] + 1]
    /\ step' = step + 1
    /\ IF ToSave(step')
       THEN LET n == OverCapacity(saved) IN
            /\ pc' = All("shard")
            /\ saved' = Without(saved, n)
            /\ shards' = [v \in Version |-> IF v \in Oldest(saved, n) THEN All(NoShard) ELSE shards[v]]
            /\ data' = [v \in Version |-> IF v \in Oldest(saved, n) THEN All(NoData) ELSE data[v]]
       ELSE pc' = All(AfterStep(step')) /\ UNCHANGED <<saved, shards, data>>
    /\ UNCHANGED <<epoch, tracker, crashes>>

NextEpoch ==
    /\ At("train") /\ \A r \in Rank : pos[r] = StepsPerEpoch
    /\ epoch' = epoch + 1 /\ pos' = All(0)
    /\ pc' = All(IF epoch + 1 < Epochs THEN "train" ELSE "done")
    /\ UNCHANGED <<step, weights, saved, disk, crashes>>

WriteShard(r) ==
    /\ pc[r] = "shard"
    /\ shards' = [shards EXCEPT ![step][r] = weights]
    /\ pc' = [pc EXCEPT ![r] = "barrier"]
    /\ UNCHANGED <<step, epoch, pos, weights, saved, data, tracker, crashes>>

Written == \A r \in Rank : pc[r] \notin {"train", "shard"}

(* Behind the barrier each rank goes on by itself, rank 0 after it has     *)
(* registered the directory and removed older ones, data files included.   *)
PassBarrier(r) ==
    /\ pc[r] = "barrier" /\ Written
    /\ IF r = 0
       THEN LET all == Append(saved, step)
                n == OverLimit(all) IN
            /\ saved' = Without(all, n)
            /\ shards' = [v \in Version |-> IF v \in Oldest(all, n) THEN All(NoShard) ELSE shards[v]]
            /\ data' = [v \in Version |-> IF v \in Oldest(all, n) THEN All(NoData) ELSE data[v]]
       ELSE UNCHANGED <<saved, shards, data>>
    /\ pc' = [pc EXCEPT ![r] = "data"]
    /\ UNCHANGED <<step, epoch, pos, weights, tracker, crashes>>

SaveData(r) ==
    /\ pc[r] = "data"
    /\ data' = [data EXCEPT ![step][r] = pos[r]]
    /\ pc' = [pc EXCEPT ![r] = IF r = 0 THEN "track" ELSE "end"]
    /\ UNCHANGED <<step, epoch, pos, weights, saved, shards, tracker, crashes>>

(* Rank 0 writes a temporary file and renames it.                          *)
Track ==
    /\ pc[0] = "track"
    /\ tracker' = step
    /\ pc' = [pc EXCEPT ![0] = "end"]
    /\ UNCHANGED <<step, epoch, pos, weights, saved, shards, data, crashes>>

(* The barrier at the end of save_checkpoint.                              *)
LastBarrier ==
    /\ At("end")
    /\ pc' = All(AfterStep(step))
    /\ UNCHANGED <<step, epoch, pos, weights, saved, disk, crashes>>

Crash ==
    /\ ~At("down") /\ ~At("done") /\ crashes < MaxCrashes
    /\ pc' = All("down") /\ step' = 0 /\ epoch' = 0 /\ pos' = All(0)
    /\ weights' = All(<<>>) /\ saved' = <<>>
    /\ crashes' = crashes + 1
    /\ UNCHANGED disk

Work ==
    \/ Start
    \/ TrainBatch
    \/ NextEpoch
    \/ \E r \in Rank : WriteShard(r) \/ PassBarrier(r) \/ SaveData(r)
    \/ Track
    \/ LastBarrier

Next == Work \/ Crash

Spec == Init /\ [][Next]_vars
LiveSpec == Spec /\ WF_vars(Work)

------------------------------------------------------------------------------
(* Every variable holds a value of its kind, and global_step counts the    *)
(* steps the weights went through, in this start and in earlier ones.      *)
TypeOK ==
    /\ \A r \in Rank :
        /\ pc[r] \in {"down", "train", "shard", "barrier", "data", "track", "end", "done"}
        /\ pos[r] \in 0..StepsPerEpoch
        /\ ~At("down") => step = Len(weights[r])
    /\ step \in 0..Total /\ epoch \in 0..Epochs
    /\ \A i \in DOMAIN saved : saved[i] \in Version
    /\ tracker \in {NoFile} \cup Version
    /\ crashes \in 0..MaxCrashes

(* What the tracker names can be loaded: every rank's shard, all of one    *)
(* save, is there, and rank 0's data file.                                 *)
Resumable ==
    tracker \in Version =>
        /\ \A r \in Rank : shards[tracker][r] = shards[tracker][0]
        /\ shards[tracker][0] # NoShard
        /\ \A r \in Rank : Len(shards[tracker][0][r]) = tracker
        /\ data[tracker][0] # NoData

(* sft_trainer.py:330: "we don't need to manually calculate epochs and     *)
(* steps.  The dataloader will automatically resume from where it left     *)
(* off": every rank contributes every batch of every epoch, once and in    *)
(* order.                                                                  *)
EachBatchOnce ==
    ~At("down") => \A r \in Rank : \A i \in DOMAIN weights[r] : weights[r][i] = i - 1

(* checkpoint_handler.py:108: the position of the data loader is "identical *)
(* in each dp rank".                                                       *)
RanksAgree == \A r \in Rank : pos[r] = pos[0]

(* The job gets through with all the batches and its last step is saved.   *)
Trained == <>(At("done") /\ step = Total /\ tracker = Total)
==============================================================================
