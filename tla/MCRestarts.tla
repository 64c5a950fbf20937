----------------------------- MODULE MCRestarts -----------------------------
(***************************************************************************)
(* TLC instances of the jobs that save checkpoints, may die at any moment  *)
(* and start again: the one step off policy trainer (OneStepOff), the      *)
(* synchronous one (Sync), the supervised one (Sft) on one rank and on     *)
(* NumRanks, and the fully asynchronous one (Async).  A behaviour is a     *)
(* behaviour of the job that the variable job names.  OneStepOff has       *)
(* variables of its own and stays down in the behaviours of the others,    *)
(* which share theirs: they all write shards, the position of a data       *)
(* loader and a tracker file.                                              *)
(***************************************************************************)
EXTENDS OneStepOff

CONSTANTS
  Keep,                                           \* of every job
  SyncRank, SyncSteps, SyncEpochs, SyncFreq, SyncCrashes,
  NumRanks, SftFreq, SftCrashes,
  DataSize, AsyncEpochs, Trigger, AsyncFreq, PendingMax, MaxFlight, AsyncCrashes

VARIABLES
  job,
  \* memory and disk of Sync, Sft and Async
  part, jobStep, epoch, jobPos, weights, saved, shards, data, tracker, jobCrashes,
  syncPhase, rankPhase,  \* how far Sync, and a rank of Sft, has come
  \* of Async only
  asyncPhase, lastVersion, ending, end, fed, feeding, flight, got

common == <<jobStep, epoch, jobPos, weights, saved, shards, data, tracker, jobCrashes>>
sftVars == <<rankPhase, common>>
syncVars == <<syncPhase, part, common>>
onlyAsync == <<asyncPhase, lastVersion, ending, end, fed, feeding, flight, got>>
asyncVars == <<part, common, onlyAsync>>
jobVars == <<syncPhase, rankPhase, asyncVars>>

Sync == INSTANCE SyncTraining WITH
  Rank <- SyncRank, StepsPerEpoch <- SyncSteps, Epochs <- SyncEpochs, SaveFreq <- SyncFreq,
  MaxCrashes <- SyncCrashes,
  phase <- syncPhase, step <- jobStep, pos <- jobPos, crashes <- jobCrashes

Sft(Ranks) == INSTANCE SFTTraining WITH
  SaveFreq <- SftFreq, MaxCrashes <- SftCrashes,
  pc <- rankPhase, step <- jobStep, pos <- jobPos, crashes <- jobCrashes

Async == INSTANCE AsyncCheckpoint WITH
  Epochs <- AsyncEpochs, SaveFreq <- AsyncFreq, MaxCrashes <- AsyncCrashes,
  phase <- asyncPhase, dir <- part, local <- epoch, version <- jobStep, pos <- jobPos,
  dirs <- shards, crashes <- jobCrashes

ASSUME MCRestartsAssumption ==
  /\ Sync!TrainingAssumption /\ Async!AsyncAssumption
  /\ \A n \in {1, NumRanks} : Sft(n)!TrainingAssumption

NoSft == rankPhase = [r \in {0} |-> "down"]
NoSync == syncPhase = "down"
NoPart == part = "actor"
NoAsync ==
  /\ asyncPhase = "down"
  /\ lastVersion = 0 /\ ending = FALSE /\ end = 0 /\ fed = 1 /\ feeding = FALSE /\ flight = {}
  /\ got = 0

MCInit ==
  /\ Init
  /\ \/ job \in {"oneStep", "sync"} /\ Sync!Init /\ NoSft /\ NoAsync
     \/ job = "sft" /\ Sft(1)!Init /\ NoSync /\ NoPart /\ NoAsync
     \/ job = "sftRanks" /\ Sft(NumRanks)!Init /\ NoSync /\ NoPart /\ NoAsync
     \/ job = "async" /\ Async!Init /\ NoSync /\ NoSft

MCNext ==
  /\ UNCHANGED job
  /\ \/ job = "oneStep" /\ Next /\ UNCHANGED jobVars
     \/ job = "sync" /\ Sync!Next /\ UNCHANGED <<vars, rankPhase, onlyAsync>>
     \/ job = "sft" /\ Sft(1)!Next /\ UNCHANGED <<vars, syncPhase, part, onlyAsync>>
     \/ job = "sftRanks" /\ Sft(NumRanks)!Next /\ UNCHANGED <<vars, syncPhase, part, onlyAsync>>
     \/ job = "async" /\ Async!Next /\ UNCHANGED <<vars, syncPhase, rankPhase>>

\* The fairness of each module, for the one that takes the steps.
MCSpec ==
  /\ MCInit
  /\ [][MCNext]_<<job, vars, jobVars>>
  /\ WF_vars(job = "oneStep" /\ Trainer)
  /\ WF_vars(job = "oneStep" /\ Generated)
  /\ WF_syncVars(job = "sync" /\ Sync!Work)
  /\ WF_sftVars(job = "sft" /\ Sft(1)!Work)
  /\ WF_asyncVars(job = "async" /\ Async!TrainerStep)
  /\ WF_asyncVars(job = "async" /\ Async!RollouterStep)

-----------------------------------------------------------------------------
(* What is checked of every job. *)

\* Whenever a job dies, the version that the tracker file names is whole, all of one save.
Resumable ==
  /\ job = "sync" => Sync!TypeOK /\ Sync!Resumable
  /\ job = "sft" => Sft(1)!TypeOK /\ Sft(1)!Resumable
  /\ job = "sftRanks" => Sft(NumRanks)!TypeOK /\ Sft(NumRanks)!Resumable
  /\ job = "async" => Async!TypeOK /\ Async!Resumable

\* However often the job died, the weights are trained on every batch of every epoch so far, once
\* and in order; the asynchronous job trains on no sample twice, whatever its rollouter fed while
\* it saved.
EachBatchOnce ==
  /\ job = "sync" => Sync!EachBatchOnce
  /\ job = "sft" => Sft(1)!EachBatchOnce
  /\ job = "async" => Async!NoSampleTwice

\* Each time the asynchronous job dies it loses the samples in flight at the last save, pending or
\* taken up, no more; the one step off job loses at most the batch that was being generated.
LossBounded ==
  /\ job = "oneStep" => FewLost
  /\ job = "async" => Async!LossBounded

\* A job gets through with all its batches: one step off without a crash, the others however often
\* they died, unless inside the write of a tracker file.
AllTrained ==
  /\ job = "oneStep" => Trained
  /\ job = "sync" => Sync!Trained
  /\ job = "sft" => Sft(1)!Trained
  /\ job = "async" => Async!Trained
=============================================================================
