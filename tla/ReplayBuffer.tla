---------------------------- MODULE ReplayBuffer ----------------------------
(***************************************************************************)
(* The rollout of verl/trainer/main_ppo_sync.py.  The trainer marks the    *)
(* prompts of a batch as running in its replay buffer and hands them to    *)
(* the agent loop workers, which answer at once: each prompt runs its      *)
(* sessions in the background and puts their outputs, and at the end a tag *)
(* under its own key, into the transfer queue.  A thread of the trainer    *)
(* copies the tags of the transfer queue to the replay buffer over and     *)
(* over; the trainer samples the batch when no prompt of its step is       *)
(* running any more, uses it and removes its keys from both.               *)
(*                                                                         *)
(* A key is <<batch, prompt, session>>; session 0 is the prompt's own key. *)
(* Training gives every batch a step of its own; _validate hands over all  *)
(* batches of the validation set under one step (Steps).                   *)
(*                                                                         *)
(* The transfer queue is not part of the repository: kv_list is taken to   *)
(* be one consistent listing, and each put or clear one change.            *)
(***************************************************************************)
EXTENDS Integers, Sequences, FiniteSets

CONSTANTS
  Prompts,      \* the prompts of each batch
  N,            \* rollout.n: the sessions of a prompt
  Steps         \* Steps[b]: the global_steps of the b-th batch

ASSUME NAssumption == N \in Nat \ {0}
ASSUME StepsAssumption == Steps \in Seq(Nat) /\ Steps # <<>>

VARIABLES
  batch,        \* the batch the trainer is at
  pc,           \* "generate", "sample", "use", "remove" or "done"
  partition,    \* the replay buffer: the status of each key it holds
  keys,         \* KVBatchMeta.keys of the batch last sampled
  tq,           \* the transfer queue: the status of each key it holds
  listing,      \* what the poll thread has listed and not added yet
  session       \* each session: "none", "running", "ended" or "failed"

vars == <<batch, pc, partition, keys, tq, listing, session>>

Batches == DOMAIN Steps
Sessions == 1 .. N
Uids == Batches \X Prompts \X {0}
Outputs == Batches \X Prompts \X Sessions
StepOf(key) == Steps[key[1]]

NoKeys == [key \in {} |-> ""]
Without(f, S) == [key \in DOMAIN f \ S |-> f[key]]
Put(f, S, status) == [key \in DOMAIN f \cup S |-> IF key \in S THEN status ELSE f[key]]
Updated(f, g) == [key \in DOMAIN f \cup DOMAIN g |-> IF key \in DOMAIN g THEN g[key] ELSE f[key]]

----------------------------------------------------------------------------

Init ==
  /\ batch = 1
  /\ pc = "generate"
  /\ partition = NoKeys
  /\ keys = {}
  /\ tq = NoKeys
  /\ listing = NoKeys
  /\ session = [o \in Outputs |-> "none"]

(* AgentLoopManagerTQ.generate_sequences: the marks come first.            *)
Generate ==
  /\ pc = "generate"
  /\ partition' = Put(partition, {u \in Uids : u[1] = batch}, "running")
  /\ session' = [o \in Outputs |-> IF o[1] = batch THEN "running" ELSE session[o]]
  /\ pc' = "sample"
  /\ UNCHANGED <<batch, keys, tq, listing>>

----------------------------------------------------------------------------
(* AgentLoopWorkerTQ: _run_prompt and its sessions.                        *)

\* _agent_loop_postprocess: the output of a session goes into the queue; a
\* session without output puts nothing.
EndSession(o) ==
  /\ session[o] = "running"
  /\ session' = [session EXCEPT ![o] = "ended"]
  /\ tq' \in {Put(tq, {o}, "success"), tq}
  /\ UNCHANGED <<batch, pc, partition, keys, listing>>

FailSession(o) ==
  /\ session[o] = "running"
  /\ session' = [session EXCEPT ![o] = "failed"]
  /\ UNCHANGED <<batch, pc, partition, keys, tq, listing>>

SessionsOf(u) == {<<u[1], u[2], s>> : s \in Sessions}

\* Mutant: the prompt is finished when its first session is.
FinishWithOne(u) ==
  /\ u \notin DOMAIN tq
  /\ \E o \in SessionsOf(u) : session[o] = "ended"
  /\ tq' = Put(tq, {u}, "finished")
  /\ UNCHANGED <<batch, pc, partition, keys, listing, session>>

\* gather returns when all sessions have ended ...
FinishPrompt(u) ==
  /\ u \notin DOMAIN tq
  /\ \A o \in SessionsOf(u) : session[o] = "ended"
  /\ tq' = Put(tq, {u}, "finished")
  /\ UNCHANGED <<batch, pc, partition, keys, listing, session>>

\* Mutant: the failure of a prompt is logged, not reported.
FailLogged(u) ==
  /\ u \notin DOMAIN tq
  /\ \E o \in SessionsOf(u) : session[o] = "failed"
  /\ UNCHANGED vars

\* ... and raises the first exception; the other sessions keep running.
FailPrompt(u) ==
  /\ u \notin DOMAIN tq
  /\ \E o \in SessionsOf(u) : session[o] = "failed"
  /\ tq' = Put(tq, {u}, "failure")
  /\ UNCHANGED <<batch, pc, partition, keys, listing, session>>

----------------------------------------------------------------------------
(* ReplayBuffer: the poll thread and the calls of the trainer.             *)

List ==
  /\ listing = NoKeys
  /\ listing' = tq
  /\ UNCHANGED <<batch, pc, partition, keys, tq, session>>

Add ==
  /\ listing # NoKeys
  /\ partition' = Updated(partition, listing)
  /\ listing' = NoKeys
  /\ UNCHANGED <<batch, pc, keys, tq, session>>

\* Mutant: the keys of every step are sampled.
OfAnyStep == DOMAIN partition

OfStep == {key \in DOMAIN partition : StepOf(key) = Steps[batch]}

Sample ==
  /\ pc = "sample"
  /\ \A key \in OfStep : partition[key] # "running"
  /\ keys' = {key \in OfStep : partition[key] = "success"}
  /\ pc' = "use"
  /\ UNCHANGED <<batch, partition, tq, listing, session>>

\* The batch is trained on, or measured, and its keys go: from the transfer
\* queue first ...
Clear ==
  /\ pc = "use"
  /\ tq' = Without(tq, keys)
  /\ pc' = "remove"
  /\ UNCHANGED <<batch, partition, keys, listing, session>>

\* ... then from the replay buffer.
Remove ==
  /\ pc = "remove"
  /\ partition' = Without(partition, keys)
  /\ IF batch < Len(Steps)
     THEN batch' = batch + 1 /\ pc' = "generate"
     ELSE batch' = batch /\ pc' = "done"
  /\ UNCHANGED <<keys, tq, listing, session>>

----------------------------------------------------------------------------

Trainer == Generate \/ Sample \/ Clear \/ Remove
Poll == List \/ Add
Run(o) == EndSession(o) \/ FailSession(o)
Report(u) == FinishPrompt(u) \/ FailPrompt(u)

Next ==
  \/ Trainer
  \/ Poll
  \/ \E o \in Outputs : Run(o)
  \/ \E u \in Uids : Report(u)

\* A session ends or fails, and everything else that can run is run: the
\* threads by the system, the coroutines by their event loops.
Fairness ==
  /\ WF_vars(Trainer)
  /\ WF_vars(List) /\ WF_vars(Add)
  /\ \A o \in Outputs : WF_vars(Run(o))
  /\ \A u \in Uids : WF_vars(Report(u))

Spec == Init /\ [][Next]_vars
FairSpec == Spec /\ Fairness

----------------------------------------------------------------------------
(* Properties.                                                             *)

Statuses == {"running", "success", "finished", "failure"}

TypeOK ==
  /\ batch \in Batches
  /\ pc \in {"generate", "sample", "use", "remove", "done"}
  /\ keys \subseteq Outputs
  /\ \A f \in {partition, tq, listing} :
       /\ DOMAIN f \subseteq Uids \cup Outputs
       /\ \A key \in DOMAIN f : f[key] \in Statuses
  /\ session \in [Outputs -> {"none", "running", "ended", "failed"}]

\* A batch that was sampled holds every output of each of its prompts that
\* finished: the tag of the prompt reaches the buffer in the same listing
\* as its outputs or in a later one, whatever the thread and the sessions do
\* in between.  A group short of a session would get the wrong baseline.
WholeGroups ==
  pc = "use" =>
    \A u \in Uids :
      u[1] = batch /\ u \in DOMAIN tq /\ tq[u] = "finished"
        => \A o \in SessionsOf(u) : o \in DOMAIN tq => o \in keys

\* A batch is sampled only when each of its prompts has reported.
NotBefore ==
  pc = "use" => \A u \in Uids : u[1] = batch => u \in DOMAIN tq

\* Every key of the batch is one of its own step's prompts and is still in
\* the transfer queue when the trainer reads the batch: no key comes from an
\* earlier batch that was cleaned up.
OnlyOwnKeys ==
  pc = "use" => \A o \in keys : o[1] = batch /\ o \in DOMAIN tq

\* What stays in the transfer queue of the batches that are over is the tag
\* of each prompt and the outputs of prompts that failed: no output of a
\* finished prompt is left behind.
LeftBehind ==
  \A o \in DOMAIN tq \cap Outputs :
    o[1] < batch => tq[<<o[1], o[2], 0>>] = "failure"

\* Every batch is sampled in the end, and the trainer gets through all.
Completes == <>(pc = "done")

\* main_ppo_sync.py:247 says of sample's global_steps: "wait until all
\* prompts of this global steps have finished".
AllSessionsEnded ==
  pc = "use" => \A o \in Outputs : o[1] = batch => session[o] # "running"

\* main_ppo_sync.py:948 says of the two removals: "cleanup transfer queue and
\* replay buffer".  A key that was removed from both is in no later batch:
\* the batch just sampled can be read from the transfer queue.
StaysRemoved == pc = "use" => keys \subseteq DOMAIN tq
============================================================================
