# A verification project for CIKM

CIKM trains a language model to recommend items and to give faithful reasons for it. The repository
has two halves. `src/src/faithrec`, `src/scripts` and `src/teacher` hold the RecBench data pipeline
and the reward. `src/verl` is a copy of the verl reinforcement learning framework with the same
reward added in `utils/reward_score/recbench_json.py`. This directory holds TLA+ modules of the
parts whose control is worth checking, the TLC configurations that check them on small instances,
and theorems about them that TLAPS proves for every value of the constants.

`PROJECT.json` relates every definition to the lines it models and lists the runs, the hazards in
the code with the properties that cover them, and for every property a mutant: a plausible bug in a
mapped definition with which TLC finds that property violated. The mutated forms stand in the
modules, marked `Mutant`, before the definition they change; nothing else uses them.

Source files are named below without their directory; `RO`, `TR` and `MQ` are
`fully_async_rollouter.py`, `fully_async_trainer.py` and `message_queue.py` of
`src/verl/verl/experimental/fully_async_policy`.

## 1. Inventory

### Fully asynchronous policy training

Three Ray actors and the runner that creates them.

| Part | State | Operations | Correct when |
|---|---|---|---|
| Message queue (`MQ`) | bounded deque, `running`, counters, one lock with a condition | `put_sample`, `get_sample`, `clear_queue`, `shutdown`, sizes | nobody sleeps beside an entry; entries leave in order; every entry is accounted for |
| Rollouter (`RO`) | `pending_queue`, `active_tasks`, `paused` and its event, `staleness_samples`, one lock | feeder, processor, a task per sample, monitor, streaming main, `reset_staleness` | it works no further ahead of the trainer than the staleness threshold allows, and ends the stream unless it starves the trainer (section 7) |
| Trainer (`TR`) | batch being collected, `local_trigger_step`, `current_param_version`, `last_ckpt_version` | `fit`, `fit_step`, weight synchronisation, checkpoint | parameters are synchronised after exactly the configured number of samples; no sample is trained twice or lost silently; the last version is saved |
| Task runner (`fully_async_main.py`) | futures of the two `fit` calls | create, wait, cancel, clear the queue | a failure of one component ends the other |

They interact through the queue (samples, and the `None` that ends the stream) and through
`reset_staleness`, which the trainer calls on the rollouter after it has sent new weights. The
rollouter is one event loop with about six kinds of coroutine; the hard part is what may happen
between two awaits. Some state is under `self.lock` and some is not: `staleness_samples += 1` is
not, `len(active_tasks)` is read under the lock but used after an await, the queue size is always
read in one actor and used in another, and the processor waits for sample tasks with the lock held.

### Rollout service and weight updates

| Part | State | Hard behaviour | Correct when |
|---|---|---|---|
| LLM server client, load balancer (`workers/rollout/llm_server.py`) | sticky routes, in-flight counts | a request is aborted in the middle by a weight update and resumed with the tokens so far | counts return to zero; resumed output has no gap and respects the token limit; the weight versions recorded for it enclose the ones used |
| Checkpoint engine manager (`checkpoint_engine/base.py`), vLLM servers | replicas and their phase, paused engines | abort, sleep, transfer, wake, resume over all replicas, any of which may fail | no replica generates while its weights change; every request is answered in the end |
| Weight transfer (`nixl_checkpoint_engine.py`, `base.py`, `bucketed_weight_transfer.py`) | two buffers per rank, offers, notifications; chunks, buckets | a chain of ranks that read, lend and load at once; weights that do not fit a bucket | every engine gets every weight whole, once and in order |
| Agent loop (`experimental/agent_loop`) | prompt, response mask, log probabilities, turn counts | several turns of generation and parallel tool calls cut at length limits | mask, tokens and log probabilities stay aligned; tools are released; the score is on a token of the model |
| Reward loop (`experimental/reward_loop`) | token bucket, semaphore | many callers of a rate limiter with borrowed tokens and a timeout | the rate is respected and everybody is served |

### Jobs and their checkpoints

| Part | State | Hard behaviour | Correct when |
|---|---|---|---|
| Synchronous trainer (`ppo/ray_trainer.py`), supervised trainer (`sft_trainer.py`), asynchronous trainer | weights, step, data loader; on disk shards, data files, tracker | a checkpoint is many writes, old ones are removed in between, the job may die at any of them | what the tracker names is whole; no batch is trained on twice or skipped |
| One step off policy trainer (`one_step_off_policy/ray_trainer.py`) | a task that generates the next batch | the task shares weights and data loader with the step that runs | a batch is generated by one policy, at most one update old; a resume loses at most one batch |
| Replay buffer (`main_ppo_sync.py`) | tags and keys in a transfer queue, a polling thread's copy | sessions run in the background and may fail; the listing is stale when it is merged | the sampled batch is whole and its own |

### Batches

| Part | State | Hard behaviour | Correct when |
|---|---|---|---|
| Sequence length balancing (`seqlen_balancing.py`) | heap of partial partitions | largest differencing, ties, groups, equal sizes | every sample in one partition, none empty, sums close; outputs come back in order |
| Dispatch (`decorator.py`, `protocol.py`, `megatron_utils.py`) | rank layout, padding | cut by data parallel rank, collected by worker | answer i belongs to row i |

### Recommendation task

| Part | State | Hard behaviour | Correct when |
|---|---|---|---|
| Reward (`faithrec/reward.py`, `recbench_json.py`) | none, a function of an answer | some twenty format and rationale errors that together decide what is paid, in two copies | only complete rankings are paid, faithful answers are the ones the rules call so, the two copies agree |
| Data pipeline (`faithrec/recbench.py`, `scripts`) | none | choice of positives, hard and random negatives from a catalog | a set of distinct candidates of the right size with its positives marked |
| Teacher data (`teacher/build_sft.py`) | files | network calls, filtering by the reward | as the reward |

### The rest of verl

PPO algorithms, model execution, datasets, models, kernels, third-party patches and tools are tensor
arithmetic, sequential drivers or input and output (section 8).

## 2. Plan

The order follows what the training depends on most.

1. **Done.** `SampleQueue`, `MessageQueue`: the queue's calls as steps, which `FullyAsync` uses too,
   and the queue with its waiting consumers. `MessageQueueProofs`.
2. **Done.** `FlowControl`, `FullyAsync`: the abstract promise of the staleness control, and the
   rollouter and the trainer composed with `SampleQueue`, which implement it.
   `FullyAsyncProofs` proves that.
3. **Done.** `Reward` and `RecBenchProofs`: the two rewards as functions, compared with each other and
   with declarative definitions of a complete ranking and of a faithful answer.
4. **Done.** `Generation`, `PartialRollout`: the promise of an uninterrupted generation per request,
   and load balancer, client and servers under `update_weights`, which implement it.
   `WeightUpdateProofs`.
5. **Done.** `WeightPipeline`, `WeightBuckets`: the chain of ranks and the packing of weights.
   `WeightUpdateProofs`.
6. **Done.** `CheckpointStore`, `SyncTraining`, `SFTTraining`, `AsyncCheckpoint`, `OneStepOff`: what
   jobs save, a crash at any point, and the resume. `RestartProofs`.
7. **Done.** `TaskRunner`: failure of either component, cancellation, clearing the queue.
   `TaskRunnerProofs`.
8. **Done.** `ReplayBuffer`, `ToolAgentLoop`, `RateLimitedReward`: what a prompt goes through.
   `RequestProofs`.
9. **Done.** `KarmarkarKarp`, `MicroBatches`, `Dispatch`: where the rows of a batch go.
   `BatchProofs`.
10. **Done.** `Candidates`: `attach_candidates` over bounded catalogs. `RecBenchProofs`.
11. **Done.** The conservation properties of `FullyAsync` (`SamplesKept`, `CompleteRun`), its
   `QueueLag`, and the invariants of the four checkpointing jobs as theorems.
12. **Done.** `AttemptsKept`, `ChainSound` and `WeightsLoaded` of `MCWeightUpdate` as theorems.
13. **Done.** `ToolsReleased`, `Reported` and `RowSound` of `MCRequests` as theorems.
14. **Done.** `PaidInOrder` and `RightlyLabelled` of `MCRecBench` as theorems.
15. **Done.** `WithinLimits` of `MCRequests` and `AnswersInPlace` of `MCBatches` as theorems.
16. **Done.** `RestoredInOrder` and `Loads` of `MCBatches` as theorems, with `Balanced` for the
    micro-batches too. Every invariant that a passing run checks is now stated by a theorem.
17. Next: the parts of section 8 that have state of their own, the single controller's resource pools
    first.

How they are composed. `MessageQueue` and `FullyAsync` extend `SampleQueue`; `FullyAsync` implements
`FlowControl`. `PartialRollout` implements `Generation`. `MicroBatches` extends
`KarmarkarKarp`; the three checkpointing jobs extend `CheckpointStore`.

Parts that do not share state are checked side by side. `MCWeightUpdate`, `MCRestarts`,
`MCBatches`, `MCRequests` and `MCRecBench` instantiate several modules, and a variable (`part`,
`job`) chosen in the initial state names the one whose steps a behaviour takes; the others rest in
an initial state. So the state space is the sum, not the product, and each property speaks of the
module it belongs to: either its part's name is its premise or it holds of the resting states too.
Fairness in these modules is that of the `LiveSpec` of each module, for the part that takes the
steps.

Modules that are proved about use no recursive operator; parameters are CONSTANTS with a named
assumption; invariants are conjunctions of named parts. Proofs stand in a module of their own.

## 3. The modules and the code

### SampleQueue and MessageQueue

Every method of `MessageQueue` takes `self._lock` first. The only await inside is
`Condition.wait`, which gives the lock up, so a call is one step up to that wait and one step after
each wakeup. `SampleQueue` has one action for each call that changes the queue: `Put` (which drops
the OLDEST entry of a full queue and appends), `Get`, `Clear`. `MessageQueue` adds what consumers
go through: `Wait`, `Deliver`, `ReturnNone`, and `Notified` for `notify_all`. `cleared`, which the
code only logs, `order`, `taken` and `clearedAt` are history. An entry is put once, so that entries
can be told apart. `val_queue`, which no code in the repository uses, is left out.

### FullyAsync

A step is what one coroutine does between two awaits. Program counters say where a coroutine is:

| Variable | Coroutine | Values |
|---|---|---|
| `ppc` | `_processor_worker` | `top`, `decide` (size of the queue asked for), `pause`/`submit`/`limit`/`end`/`harvest` (waiting for the lock), `limitwait`/`endwait` (awaiting tasks with the lock held), `get`, `drain`, `ended`, `failed` |
| `task` | `_process_single_sample_streaming` | `gen`, `stored`/`displaced` (the call has run and answered True or False, the reply is on its way), `done`/`failed` (ended, still in `active_tasks`), `gone`/`crashed` (taken out) |
| `mon` | `_async_monitor_loop` | `sleep`, `decide`, `want` |
| `rst` | `reset_staleness` | `idle`, `want`, `count`, `reply` (awaiting the queue size with the lock, before and after the queue has read it) |
| `mpc` | `_streaming_generation_main` | `stream`, `flag` (end signal sent), `over` |
| `tpc` | `fit`, `fit_step` | `collect`, `train`, `reset`, `save`, `stop`, `done` |

`lock` is only held between steps by the two coroutines that await under it. A coroutine that wants
it takes it at once when it is free and nobody waits (`CanLock`), as `asyncio.Lock` does; among
several waiters the model lets any go first, which allows more than the first-come order of the
code. `fed` and `got` count what went in and out of `pending_queue`; item `Total + 1` is its `None`.

Abstractions:
- A sample is its number. An entry of the queue also carries the version of the trainer when it was
  put (`at`), for `QueueLag` only.
- An RPC to the queue takes effect at one step and its reply is used at a later one.
  `get_queue_size` and `get_statistics` therefore show as "ask" and "decide" steps; in
  `reset_staleness` the number of active tasks is read before (`ResetLocked`), the size by `ResetAsk`,
  and their sum is assigned by `ResetFinish`: samples may be put between any two of these. The
  `get_statistics` call of a sample task before it puts its sample only fills a report and is left
  out.
- The transfer of weights is part of `TrainStep`; what it does to running generations is the
  subject of `PartialRollout`.
- The feeder does not raise; validation is left out; `test_freq` and `save_freq` are positive.
- A sample task may raise at most `MaxFailures` times (a bound of the model).
- The tests of `self.paused` at the top of the processor's loop (`RO` 511) and before a submission
  (`RO` 582) have no branch for a flag that is set: `PausedOnlyInDrain` proves that they never find
  it set.
- The monitor tests `running` under the lock, sleeps and then looks at `paused`; the model does both
  in `MonAsk`. While the monitor waits for that lock it changes nothing and delays the others only.
- `int(required * (threshold + 1) * trigger)` is computed exactly, with the threshold as a fraction;
  the code's floats can be one lower.
- `steps`, `saved`, `trained`, `abandoned`, `taken` are history.

### FlowControl

The same system with nothing but three variables: entries `ahead` of the trainer, entries `used`
since the last synchronisation, and whether the stream is `open`. `FC` in `FullyAsync` maps queue,
generating tasks and the held sample to `ahead`.

### Reward

An answer is a record of a ranking, a selected candidate, evidence references and a rationale, or
`Unparsed` when parsing raises. `LocalFormat` and `VerlFormat` are the two lists of format errors,
`Rationale` the list both files share (12 errors), each a record from the name of an error to its
condition. Scores are integers in units of 1/300, so that fifths, halves and thirds are exact for
the evidence lists used; a product of two scores is in 1/90000. Discounts `1/log2(rank + 1)` are
weights given to the model; the properties use only that they are positive and decreasing.
`ScoreLocal` and `ScoreVerl` are the two entry points. Only the score mode `faithrl_hybrid`, the one
`verl/scripts/train_recbench_rl.sh` selects, is modelled. (That script runs the synchronous trainer
with the GDPO estimator, which weighs the components `recommendation` and `faithfulness`, the mean
of `format`, `evidence` and `rationale`; `OutcomesAgree` and `VerlMatchesLocal` are about these
components as much as about the score.) What is not a function of the error
records and scores (the messages, `mrr`, hit rates) is left out.

### Generation and PartialRollout

A token is the version of the weights that sampled it. A request goes `ready`, `routed`, `running`,
`returned` and then `done` or `ready` again: `Acquire` is `acquire_server` with the sticky routing
table (`recent`, `route`) and the in-flight counts, `Start` to `Return` is `generate` of the vLLM
server, `Merge` what the client does with an attempt, with the release of the server on its way
(`release`). `BeginUpdate`, `Abort`, `LoadBegin`, `LoadEnd`, `SetGlobalSteps`, `Resume` and
`NextPhase` are `update_weights` of the manager, whose gathers let the replicas take their steps in
any order. `Generation` has only a text, an end and a published version; a token must come from the
version that was the newest published one.

- The version a server reports and the end of the request in its engine are one step.
- Ray runs the calls of one caller in their order; `sleep` and `wake_up` do nothing for a standalone
  server.
- `max_model_len` is taken to hold the two lengths: where it does not, the server lowers the limit of
  an attempt further and refuses a prompt that fills it (`vllm_async_server.py` 453-475).
- `Slack` is how far a prompt is below its limit. A resumed request may exceed `response_length` by
  that much (`RoomLeft` says by no more); the agent loop truncates afterwards.
- `Pausing` is vLLM 0.12 and later, `Partial` is `partial_rollout`; both are on in the runs.

### WeightPipeline and WeightBuckets

`WeightPipeline`: a rank has two buffers and a program counter; a transfer runs by itself between
`BeginRead` and `EndRead`, and what it read is `Torn` if the source was written meanwhile. `mail`
are the offers, `offered` an offer not yet answered. `WeightBuckets`: a chunk is a part of a weight;
`Add`, `Flush`, `FlushLast` are `send_weights`, `Merge` is `merge_weight_chunks`, and `Give` and
`Rest` within it the second packing for the engine. Weights without elements are left out.

### ToolAgentLoop

A token is its origin. `Pending`, `Generate`, `Step`, `Results` are the states of `run`; a call of a
tool (`CallTool`) may be rejected, fail while it is created, executed or released, and runs beside
the others. `gather` returns with the first exception (`Raise`) while the rest goes on; a result may
also be a video, or an image without a processor, which raises when all calls have returned. `Output` is
the end of `run` with the padding of `AgentLoopWorker`; `ScoreAt` is where the score is put.
`Room` covers the several attempts of an answer. `Cuts`, answers that were aborted and not resumed,
is off in the runs (section 7).

### RateLimitedReward

Time passes in ticks. A request decodes, asks the bucket (`Acquire`), sleeps, asks again, enters the
semaphore, computes and returns or times out. `coroutine` is `is_async_reward_score`: a reward function
that is a plain one, the default, runs in the thread pool, which decoding uses as well, and goes on
there after its timeout. It is chosen in the initial state, so that every run and proof is about both
kinds. The order of the semaphore's waiters is left open. `credit` and `recent` are history. A limiter
belongs to a worker process. A manager may have two buckets, of requests and of tokens, and asks one
after the other (`limited.py` 421-426); the module has one, whose costs differ from request to request
as the signature of `acquire` allows.

### ReplayBuffer

A key is batch, prompt and session; session 0 is the prompt's tag. `List` and `Add` are the two
halves of the polling thread; `Run` is a session, `Report` the end of `_run_prompt`. The transfer
queue is a library and is modelled from its use. One output per session; `keep_minibatch` has no
caller.

### CheckpointStore, SyncTraining, SFTTraining, AsyncCheckpoint

Weights are what they were trained on: a sequence of batches, or a set of samples where the order is
the rollouter's. A shard on disk is the weights it was written from, so a checkpoint made of parts of
two versions shows. `CheckpointStore` is the retention rule, from a list in memory that a start
empties. In `SyncTraining` a save goes through `capacity`, `shards`, `data`, `open`, `write`: each is
a step, shards are written in any order, and the tracker is truncated before it is written. In
`SFTTraining` the ranks save side by side and rank 0 renames the tracker. In `AsyncCheckpoint` the
rollouter goes on feeding while the trainer saves. `Crash` may happen at any step and leaves the disk.

- Removing a directory is one step. Critic warm-up and Megatron's asynchronous saves are left out;
  the save before an instance expires (ESI) may come at any step (`expiring`).
- `total_training_steps` is epochs times steps; shuffling is a fixed order, as the seed fixes it.
- What a `StatefulDataLoader` does that was saved when exhausted is taken from
  `ppo/ray_trainer.py` 1024-1031.
- `AsyncCheckpoint` trains on one sample a step (`required_samples` of 1), writes a directory in one
  step. Its feeder runs ahead until `pending_queue` is full (`PendingMax`, 128 in the code); what the
  processor takes from there (`Take`) and the trainer has not trained on is bounded by `MaxFlight`, the
  limit that `FlowControl` promises. Epochs are counted anew after a resume, as in the code. What the
  message queue drops is the subject of `FullyAsync`.
- `SFTTraining` has the FSDP checkpoint manager and data parallel ranks only.

### OneStepOff

A step awaits the task of its batch, copies the weights to the replicas (`Synced`), starts the task
of the next batch and then trains, validates and saves. A batch is its number and the version that
generates it. A save is one step, its parts are in `SyncTraining`; no shuffling; epochs are counted
anew on resume. After a second crash a batch may be trained on twice, so `FewLost` is checked with
one.

### KarmarkarKarp, MicroBatches, Dispatch

`KarmarkarKarp`: the heap is the set of its states, a tie of the heap or of two parts is broken
either way. `MicroBatches` extends it: the lengths of the samples (`seq_len`) give the workloads of the
groups, `Split` fills the heap, `MergeTop` is a step of `KarmarkarKarp` on the same variables, and
`Order` sorts and folds the micro-batches. `MaxSamples`, `Lengths` and `Arguments` bound the calls.
A sort gives each element the place of its rank (`SortedBy`), which is the list that Python's sort
returns because no two keys are the same. `restore_dynamic_batch` is a function of the result.
The other ranks are `peers`, the largest number one of them asks for. `Dispatch`: a row is a number
and its answer the same number; `Balance`, `Call`, `Compute`, `Answer`, `Collect`, `Return` follow a
batch through a worker group. With dynamic context parallelism a call has one micro-batch, and the
context parallel size is 1 otherwise. Automatic padding of `DP_COMPUTE_PROTO` is used by tests only.

### Candidates

An item is its place in the catalog; ground truths of the record that the catalog has not are
numbers above. `FindPositives`, `SelectPositives`, `ChooseHard`, `ChooseRandom`, `Attach` are the
steps of `attach_candidates`. Ids are unique, blank ids were dropped before, ids are known for the
first ground truths only. Positives and the final list are shuffled before anything reads them, so
both are sets; the hard negatives, which are sorted and cut, are a sequence.

### TaskRunner

`Produce`, `ProduceLate` and `Stream` are the stream: sample tasks put their samples, also those that
outlive a failed processor, behind the end signal. `Collect`, `Train` and `TrainerReturns` are the
trainer: batches, local steps and versions; the end signal gives up a batch that is incomplete, and the
forced save writes nothing if the version has been saved (`SaveVersion`). `Dies` is the death of an
actor, which includes an exception of a trainer's step; a cancelled call ends at an await. The queue is
never full here: `FullyAsync` has what it drops, and why it never drops the end signal.

## 4. What the runs show

| Run | Instance | Shows | Seconds |
|---|---|---|---|
| `queue` | 2 consumers, 4 entries, queue of 2 | no lost wakeup, `shutdown` releases everybody, entries leave oldest first and only newer ones push them out | 1 |
| `async` | 5 samples, 2 tasks (the budget), 1 failure, versions of 1 sample, threshold 1 | staleness bound, age in the queue, samples neither lost nor duplicated, drops reported, the end signal survives, refinement of `FlowControl` | 25 |
| `async_versions` | 5 samples, batches of 2, 2 local steps, threshold 0, 3 tasks, 1 failure, fair | period of synchronisation, incomplete last batch, final checkpoint; both actors end unless the trainer starves | 85 |
| `runner` | 7 samples, batches of 2, 2 local steps, any failure at any time, fair | what a returned run has trained, given up and saved; it ends and both calls with it | 2 |
| `replay` | 2 steps of 2 prompts of 2 sessions, symmetric prompts | sampled batches are whole and their own | 40 |
| `weight_update` | 2 requests, 2 servers, 2 updates, a routing table of 1, slack 1; with a caller's limit of 2: 1 update, 1 abort that raises; 4 ranks and 4 buckets; up to 4 weights of 1, 2, 3, 5 elements of 1 or 2 bytes, buckets of 4 and 5 bytes | refinement of `Generation`, exact counts, limits, labels, everybody is answered; buckets arrive whole and in order; weights are merged and loaded whole | 115 |
| `restarts` | one step off: 3 epochs of 3 batches, 7 steps, warm-up 2, 1 crash; synchronous: 3 epochs of 2, 2 ranks, 2 crashes; supervised: 3 epochs of 3, 1 and 2 ranks, 3 crashes; asynchronous: 2 epochs of 3 samples, 2 steps a version, 1 pending, 2 taken up, 2 crashes; 2 checkpoints kept | what the tracker names is whole; batches once, in order; losses bounded; the job gets through | 150 |
| `batches` | up to 6 workloads of 3 values in up to 4 parts; up to 5 samples, or 3 pairs, of lengths 1 to 4, limit 4; 8 workers as 2 data x 2 tensor x 2 pipeline ranks with 4 rows; 4 workers with 6 rows, padded; 4 ranks with dynamic context parallelism, 6 rows | partitions balanced; outputs restored, no micro-batch too heavy; answers at their rows | 65 |
| `requests` | 3 rewards of cost 3, 2, 1 on a bucket of 2 and one semaphore place, with coroutines and with threads; conversations of 2 tool turns or 6 response tokens, up to 3 tool calls; 2 batches of 2 prompts | rate and concurrency; turn limits, aligned rows, released tools; everything ends | 165 |
| `recbench` | 3 candidates, 2 positive, 1 unknown, 1 source, 1 invented reference, about 186 000 answers; catalogs of 4 items of 2 titles, up to 2 ground truths, lists of 3 | what is paid, what faithful means, the order of scores; who is a candidate, with which label | 25 |
| `synchronous`, `one_step_starved` | small | the findings of section 7 | 2 |

What a run checks of a part that it shares with others is one property, the conjunction of the named
parts of that module's invariant, its types first: `AttemptsKept`, `ChainSound`, `WeightsLoaded`,
`Resumable`, `RestoredInOrder`, `AnswersInPlace`, `WithinLimits`, `Reported`, `RightlyLabelled`.
`AllAnswered`, `AllTrained` and the two `AllEnd` are the liveness of all parts. Invariants that
section 5 proves for all values of the constants, the types of seven modules among them, are not
repeated as properties of a run unless they are what the reader wants to see: `OutstandingBound`,
`FlowControlled`, `NoLostWakeup`, `OldestFirst`, `ReturnsWhenDone`, `WholeGroups`,
`OnlyOwnKeys`, `OneStep`, `Balanced`, `OutcomesAgree`, `PaidInOrder`, `RightlyLabelled`, `LabelsCover`, `Uninterrupted`,
`VersionsWhole`, `EndSignalSurvives`, `SamplesKept`, `QueueLag`, `CompleteRun`, `FaithfulMeans`,
`Resumable`, `EachBatchOnce`, `LossBounded`, `AttemptsKept`, `ChainSound`, `WeightsLoaded`,
`Reported`, `ToolsReleased`, `RowSound`, `WithinLimits`, `AnswersInPlace`, `RestoredInOrder`, `Loads`.

Why the bounds are enough. In the asynchronous runs everything interesting happens around one
synchronisation: a pause, a drain that a resume interrupts, a reset with a sample held, tasks at
their limit, a full queue. With one sample to a version, five samples go through several
synchronisations and still leave some for the time after the last; the theorems then carry the
staleness properties to all sizes. `pending_queue` holds one item instead of 128: the properties do
not depend on it, and one makes the feeder wait. Two tasks are enough for one to outlive a failed
processor and for the queue to overflow behind the end signal. The number of tasks is that of the code,
16 a replica and at most `max_required_samples`, but for `async_versions`: there the budget is four
samples and `Capacity` 3. With four tasks its properties hold as well (712 000 states, 260 seconds).
`Total` of 5 with batches of 2 ends in the middle of a batch and, with two local steps, in the middle of
a version. Three finished tasks that are still counted at the reset leave room for the fifth sample and
not for the end signal, so the rollouter does starve the trainer in some runs of this instance, which is
what `EndsOrStarves` allows and `TrainerServed` does not. It also holds with threshold 1/2, three samples
in batches of two, one local step to a version and three tasks.

Four entries through a queue of two fill it, push out entries, and go on after `clear_queue`. Seven
samples in batches of two with two local steps to a version (`runner`) leave an incomplete batch behind
an incomplete version. With one item in `pending_queue` (`restarts`) the asynchronous job's loader is
two samples ahead of what staleness control has let through, one pending and one that the feeder holds.

A routing table of one entry makes every second request evict the other's route; two updates let a
request be aborted twice. Four buckets use each of the two buffers twice, and four ranks have an
inner rank between inner ranks. Weights of 1 to 10 bytes are smaller than, as large as, and more than
twice as large as a bucket. Two kept checkpoints and six to nine steps make retention remove while
the tracker still names an older version; two or three crashes let a job die again before its first
save. Six items in up to four parts give heaps of several states with empty parts; eight workers make
every rank of two in each dimension. Three rewards with one place make one wait for the bucket while
another waits for the semaphore. For the reward, three candidates and rankings of up to three over
four ids give every error, alone and together; rationales of up to two different steps over eight
supports do the same, and four equal steps exceed `MaxItems`, which is 3 there instead of 5.

### Fairness

`LiveSpec` of `FullyAsync` assumes weak fairness of every coroutine: the event loop runs what is
runnable, the data loader supplies the next item, the inference servers answer, the queue actor
replies; the sample tasks are fair together, which passes none over since each stores and replies once.
Waiting for the lock is strongly fair, because `asyncio.Lock` serves waiters in the order in
which they came: a waiter may see the lock taken by those before it, but gets it. Nothing is assumed
of `Fail`. `MessageQueue` assumes that a consumer that was woken runs again, and nothing of the
callers of `put_sample`, `shutdown` and `clear_queue`.

Elsewhere: requests, servers and the manager's gathers are weakly fair, new weight updates are not
(`PartialRollout`); ranks and their transfers are weakly fair (`WeightPipeline`); time passes weakly
fair and a request that can go on again and again does so, strongly, since woken sleepers and
semaphore waiters are served in order, but the reward function need not return
(`RateLimitedReward`; `Answered` therefore excepts what happens when plain functions hang in every
thread); the loop and each tool call are weakly fair, failing is a choice
(`ToolAgentLoop`); trainer, sessions and the polling thread are (`ReplayBuffer`); a job goes on and is
started again, crashes are not fair and bounded in number (checkpointing jobs; `Trained` of the
synchronous job excludes a crash inside the write of the tracker, section 7); `TaskRunner` assumes it
of the components and the runner and nothing of `Dies`; that its stream ends is an assumption too, which
`FullyAsync` shows to fail when the rollouter starves.

Deadlock is not checked where a system really stops: a job ends, a queue may be closed, an answer is
scored once by each copy, a batch is returned.

## 5. What is proved

`FullyAsyncProofs`, from `ConstantsAssumption` alone (samples, batch, trigger, capacity positive;
threshold a non-negative fraction):

- `TypeCorrect`, `LockDiscipline`, `PausedDiscipline`: invariants that are inductive with the type
  invariant, one step per action.
- `StalenessCounted`: `StalenessCovers` is the strengthening that makes the rest inductive.
  `OutstandingBound` is not inductive: whether a submission keeps within the bound depends on
  `staleness`, which `reset_staleness` overwrites with a sum of two numbers read at different times.
  So one has to know (a) that `staleness_samples` covers everything taken and outstanding except
  the sample in the processor's hand, (b) that a processor that awaits an item decided to do so with
  room left, and that a reset meanwhile can only make room, and (c) that from the first read of
  `reset_staleness` to its assignment no task starts, since starting needs the lock, so that each task
  that may still put a sample is in the count, whether it puts it before or after the queue is asked. `EndAfterProcessor` is needed for the end signal.
- `Refinement`: each step maps to a step of `FlowControl` or a stutter. Actions are grouped by what
  they do to the count: quiet ones change nothing, some start a sample, some lose one, and the end
  signal, `Collect` and `ResetFinish` have a lemma each.
- `StalenessControl`: `OutstandingBound`, from the refinement and the promise of `FlowControl`.
- `VersionsAreWhole`: `VersionInv` says where the trainer is in its batch and in its local steps:
  a batch is full when it is trained, and the trainer stops or resets with none.
- `EndSignalReaches`: `ActiveInv` leaves room for one more task whenever the processor submits, ends
  or fails. So once the end signal is put, the entries behind it and the tasks still generating are
  together fewer than the queue holds (`EndPlace`): each task that ends moves one from the second
  number to the first.
- `TaskLifecycle`, an action property, and `SamplesAreKept`: the processor holds the last sample it
  took (`TaskInv`), a sample that is anywhere has been put (`PlaceInv`), and `TasksMove` shows that
  it is never put again.
- `QueueLagBounded`: entry i of the queue will be trained when the trainer has taken i - 1 more
  samples than now, and from the start of the version at which it was put until then it takes at
  most `MaxRequired` (`QueueFresh`). A new entry satisfies this by `StalenessControl`'s invariant.
- `NothingLost`: counts of the samples that have been answered (`ProgressInv`) and of those that were
  put and are nowhere (`LossInv`, as many as the queue dropped), and the end signal as the last entry
  when nothing failed (`EndLast`).

`RecBenchProofs`, the reward, from `RewardAssumption` (candidate ids are distinct, positives are
candidates, answers are typed as `_parse` of `recbench_json.py` leaves them, with claims that can be
looked up in a set, discounts are positive and decrease with the rank):

- `ValidMeansComplete`, `OnlyPermutations`: a list as long as the candidates, without repetition and
  with the same set of elements is a permutation, and the different checks of the two files each
  come to that.
- `FaithfulExactly`: no error means faithful, and conversely each of the conditions of a faithful
  answer excludes some of the errors; a full outcome means that a positive is ranked first.
- `Agreement`: the two lists of format errors are empty for the same answers, so that outcome and
  ranking score agree although the format scores need not.
- `PaidRightly`, also from `DefaultWeights`: the hybrid weight is positive and so small that what it
  weighs stays below the two baselines, as with the defaults 0.5, 0.5 and 0.1; with a weight of 1 a
  wrong answer could be paid more than a right one. What is weighed is bounded because no places are
  worth more than as many at the top (`FirstAreBest`) and a ranking has no more hits than there are
  positives (`HitsFew`); a faithful answer is paid at least its format, evidence and rationale. A
  swap within the cutoff changes the hits at one or two places (`SwapPays`).

Gains are sums over sets. `SumTakes` says of a sum over any finite set that any element may be taken
first. The library's induction theorems cannot be used for it; the argument is by a set of least size
for which it fails, from the well-foundedness of the natural numbers (`SmallestSet`).

`RecBenchProofs`, the candidates, for any catalog and any number of candidates, positives and hard
negatives: `RightlyLabelled` speaks of the finished list. The invariant (`CandidatesInv`) says of
each step what it has chosen: the selected positives are among the positives and no more than the
list holds; the hard negatives are the best matches outside them, in order (`BestOf`); the random
ones are outside both. That such an order exists is shown by placing each item after as many as
match better (`Places`). What remains is counting sets that do not meet (`Finished`).

`MessageQueueProofs`, for any consumers, items and queue size: the invariant is types,
`Accounted` (the counters account for every entry), `NoLostWakeup` and `QueueIsSuffix` (entries leave
in order, in spite of drops), the last said entry by entry (`Suffix`), which a step can keep without
reasoning about `SubSeq`. `QueueWakes` needs no more than that a call which ends a wait's premise
notifies in the same step. `QueueOldestFirst` is about what left the queue: entries are delivered
from older places of `order` than any that are queued and in growing order, and a place before the
queue that was not delivered lies before the last `clear_queue` or was pushed out of a full queue, whose
entries are all newer.

`TaskRunnerProofs`, for any number of samples and any sizes of batch and version: what a returned run
has done is not inductive. The invariant adds the shape of the queue (the end signal is there when the
stream is over and the trainer has not met it, and all behind it came late), that each sample is queued,
in the batch, trained on, given up or late while nothing has cleared the queue, where the trainer is in
its version, that a trainer that has completed has met the end signal, and that nothing is cancelled
while the runner still waits.

`WeightUpdateProofs`, for any number of requests, servers and updates, any limits and any size of
the routing table. The first invariant, whichever aborts raise, adds two facts to types, `CountsExact`
and `RoomLeft`: a request that is at a server has no release on its way (`Places`), so that each step
moves it between places that are counted once; and an answer that was aborted had not reached the
limit (`AbortedRoom`), so that the attempt that follows it has a token left. The rest assumes
`Seamless`: every abort pauses its engine, none raises, and the client resumes what was aborted. Then
the invariant also says what a replica holds in each phase of an update (`Versions`), that all
replicas are paused while any loads, and therefore that a request that runs has tokens of one version
only, the one its server will name (`RunsOnOneVersion`, `ReturnsOneVersion`). `LabelsCover` follows
with the order of the recorded versions (`StepsOrdered`). `GeneratesUninterrupted` maps the end of the
loading phase to the publication of new weights, each sampled token to one of `Generation`, and every
other step to a stutter; that an aborted answer is always sent again (`MergeResumes`) needs
`AbortedRoom` once more. `AttemptsAreKept` says the first invariant of both instances, the second
with a limit of the caller's and aborts that raise.

The same module proves `ChainAlwaysSound` for a chain of any length and any number of buckets. That
every server is given whole buckets in order is an invariant of neighbours (`Link`): what a rank has
offered (`Published`) is what the next one has taken (`Taken`) or one bucket more; the offer is in
the mail or being read, never both; and it lies in the buffer that its owner does not write to
(`Held`), because the owner swaps its buffers only after the reader has told it that the read is
over. `ReceiverPlace` adds where a rank is in its loop. `Depth` is the sum of these differences.
`AllWeightsLoaded`, for any sizes: the buckets partition the weights. `Packed` says of a bucket that
it begins where n weights and g bytes of the next are packed and that its chunks lie side by side; the
invariant (`PackInv`) chains three such places: the receiver has merged up to where the bucket that has
arrived begins, that one ends where the sender's begins, and this one where the sender is. A bucket
therefore holds at most one chunk of a weight, and a chunk continues what is being merged. These
three theorems are about `MCSpec`, whose constants a configuration sets; a step of the instance that
moves is a step of that part, and the others stutter (`UpdateSteps`).

`BatchProofs`, the partition, for any list of workloads, any number of partitions and any order of ties:
the invariant is that each state on the heap is shaped (`Shaped`): its parts are in decreasing order,
the empty ones last, a state with an empty part has no part of two items, its spread is at most one
item's workload, and with `equal_size` its parts have one size. Joining two such states in opposite
orders fills empty parts first, and the differences of the two cancel; the parts are then sorted
again. `PartitionNoneEmpty` counts: an empty part in the last state would leave at most one item to
each of fewer than k parts.

`BatchProofs`, the calls (`AnswersReturn`), for groups of any tensor, data and pipeline parallel
sizes and batches of any number of rows, balanced, padded or with dynamic context parallelism. The
invariant (`CallInv`) says that what a worker has computed is its share of the rows that were sent
and what it answers is all it was given. The work is in two lemmas about sequences. `CollectCut`:
the answers that are collected are slices of the rows, cut where the workers that collect follow
each other, so that the answers put together are the rows (`SlicesJoin`). `MergeCut` says the same
of the ranks of which one is taken in each context parallel group, the last slices cut off by the
end of the rows and some of them empty. Both need that the three ranks of a worker name it
(`RanksOf`, `WorkerOf`), which is arithmetic of quotients. That no row is computed by two ranks is
that quotients grow with what is divided (`DivGrows`). `Dispatch` puts answers together by a
function over the workers in their order (`Joined`), which can be reasoned about where sorting
cannot.

`BatchProofs`, the micro-batches, for any list of lengths up to the limit, any size of the groups,
any other ranks, and with or without balancing. `MicroBatches` fills the heap as the first part does
and merges by its steps, so the invariant (`MicroInv`) has `IInv` in it; it adds that the workload of a
group is the sum of its samples' (`Sampled`), that the sum a part carries is that of its items
(`Summed`), and that there are as many micro-batches as groups or as many as hold all tokens
(`BatchCount`).

- `OutputsReturn`: a sort by rank is a bijection (`RankSorts`), which asks for an order: two
  micro-batches of the same workload differ in their first sample because none is empty and no two
  share one. The fold with the light ones at both ends permutes them (`Places`), so each part is run
  once (`Deal`), and its rows are the members of its groups, each once (`RowsAre`). Rows that are apart
  stay apart when they are put one after another (`FlattenIs`): the row numbers name every sample
  once, and their inverse restores it.
- `LoadsHold`: of a micro-batch with the weight of `group` + 1 full samples all others would be at
  least full, for no two differ by more than one group weighs. All together would then weigh more than
  `k` full ones, but a sample of length n weighs no more than n tokens of a full one, and the tokens of
  all are at most `k` times the limit. If there are as many micro-batches as groups instead, each is
  one group (`OneEach`). The order of the light ones is that of the fold: up to the middle it runs
  towards the heaviest, after it away from it.
- `HeapBalanced`: the spread of a state, among the micro-batches as in a partition.

Sums over sets and their laws (`SumTakes`, `SumAdds`, `SumScales`, `SumOfSums`) are proved there again,
since `RecBenchProofs` is about other constants.

The proof corrected the model: it claimed that no micro-batch has twice `max_token_len` tokens, which
TLC found true of its short lengths only. The method balances workloads, and the square of the length
makes them unlike tokens: 5 samples of 45875 tokens and 563 of 256 with a limit of 65536 give six
micro-batches, one of them with 2.02 times the limit. What holds is `LoadBounded`.

`RestartProofs`, for any number of steps, epochs, ranks and crashes and any save frequency. The one
step off job: the version of the batch that is trained on was fixed a step earlier, when its task
began. What carries it over is that a task's version is that of the replicas as long as it lasts
(`TaskVersion`), and how far the replicas are behind in each phase (`Behind`), on disk as in memory.
`OneLostAtMost` adds where the iterator is from the batch that comes next, in memory (`Ahead`) and in
what was saved (`FirstDisk`).

The other three jobs have an invariant each (`SyncInv`, `SftInv`, `AsyncInv`) of the same parts. What
the save under way has written (`Progress`) is not yet what the tracker file names, and the version
named is the newest that the job remembers (`Retention`), so it is removed only when more than one is
kept and a newer one has been named: this is `AlwaysResumable`. It assumes `Keep # 1`, with which the
property is false (section 7). `TrainedOnce` adds where the loop is in its data: that the weights are
those of all batches up to the step, in memory and on every shard, and that the loader's position is
that step's. It assumes `NoneAtEnd`, that no inner end of an epoch is a multiple of the supervised
job's save frequency, again because it is false otherwise; for the asynchronous job it is the weaker
`NoSampleTwice`, whose invariant says which samples are fed, in flight and trained, and what the
checkpoint will have of each. `BoundedLoss` counts: the samples fed and neither trained nor in flight
are at most those in flight at each save from which the job was resumed. These are the pending ones and
one more, by the feeder's test (`AsyncPending`), and what has been taken up (`AsyncRoom`). For the one step off job it
assumes one crash: at a second one the loader that was loaded is itself ahead (`NewPass`, section 7).

The proof corrected the model: `AsyncCheckpoint` bounded its versions by `Total \div Trigger`, which a
job that loses a local step at each crash exceeds; the bound now allows for `MaxCrashes` more.

`RequestProofs`. The replay buffer, for any batches, prompts and sessions: the invariant relates the
three places a tag can be (`Faithful`): what the thread has listed and what it has added are never
ahead of the transfer queue, and the tag of a finished prompt is nowhere without the outputs of its
sessions that the transfer queue still holds. `OnlyOwnOutputs` assumes `OwnSteps`, that no two batches
have the same step. Training satisfies it and validation does not (section 7).

The conversations, for any response length, limits of turns, number of calls, lengths of results and
updates, and for answers that are resumed when they are aborted (`Cuts` off, without which `RowSound`
is false, section 7): none of the three properties is inductive, since each speaks of the end or of
what the whole conversation did. `RowsAreSound` needs that tokens, mask and log probabilities stay
matched from the first answer on (`Matching`), and two facts about where a conversation can stop: it
ends with an answer, and the results of tools are dropped when they would reach the response length,
so that what is cut there is part of an answer and the last token that is kept is the model's.
`TurnsReported` counts the places where the origin of the tokens changes (`Changes`); a block adds one
because prompt, answers and results take turns (`Alternating`), and the limits hold because the loop
compares before it goes on (`InLimits`); `Enclosed` is the order of the recorded versions.
`ToolsAreReleased` says which phases of a call hold an instance and that a call can be under way only
while the results are awaited or after one has raised (`Held`). As in `WeightUpdateProofs` the
theorems are about the instance (`MCSpec`), whose constants a configuration sets.

The rate-limited rewards, for any requests, workers, costs, rate and bucket. A request that costs
more than the bucket holds runs into debt: its cost is taken from the bucket before it sleeps and
from what the rate allows (`credit`) when it wakes. The invariant says of each worker that the
credit is at least what the bucket holds and the sleepers owe, and (`Covered`) that t ticks from now
the bucket covers all but what those who still sleep then owe, for every t: sums over the sleepers,
of which a step adds or wakes one. How deep the debt is, and so how long anybody sleeps, is bounded
by what such requests cost (`Charged`). `RateKept` holds with threads too. `LimitsHold` adds the
semaphore: its bound is for coroutines, since a reward function in a thread goes on after its timeout
(section 7).

Only model-checked, and why:

- Liveness and `ENABLED`, which are beyond the prover.
- `WithinLimit`, `NeverRefused` and the other properties of section 7, which are false.

## 6. Hazards

`PROJECT.json` lists thirty-nine, each with the line where it bites and the properties that would catch it.
One has no property: the float product of `RO` 228, which the model computes exactly.

## 7. Where code and documents disagree

Two runs show disagreements as counterexamples:

- `synchronous`: `docs/advance/fully_async.md` says that at threshold 0 a fixed number of samples is
  generated between two updates. If the reply of `put_sample` reaches the rollouter only after the
  trainer has used the sample, trained and synchronised, `reset_staleness` still counts the task and
  leaves no room for another sample; the trainer then waits for ever. A reply so late is unlikely;
  nothing in the code excludes it. The document promises nothing of the kind for other thresholds, but
  the trainer may starve there too: with threshold 1/2, three samples in batches of two and one local
  step to a version, finished tasks that are still counted and the sample left in the queue fill the
  budget of three, the rollouter waits for a reset and the trainer for a second sample (`TrainerServed`
  is violated with `Capacity` 16).
- `one_step_starved`: the loop of `docs/advance/one_step_off.md` ends when there is no more data.
  A checkpoint holds the data loader as the task of the next batch left it, so a resume skips that
  batch, the data ends one step before `total_training_steps`, and unpacking the missing batch raises.

The modules state more of what documents, comments and tests say and the code does not do. Each of
the properties below is violated with the constants given; none is part of a run, so that the runs
stay few.

| Property | Constants | What happens |
|---|---|---|
| `FullyAsync!RolloutNum` | as `async`, one task, no failure | The rollouter exceeds the documented number of samples between two updates by one, the sample the processor holds while it waits at the concurrency limit (`RO` 272). `StalenessControl` proves it is never more than one. |
| `FullyAsync!LastStepSaved` | 3 samples, 2 local steps, threshold 0 | Local steps after the last parameter version are in no checkpoint: `_fit_save_checkpoint` returns before `force` is looked at (`TR` 655). |
| `Reward!VerlMatchesLocal` | as `recbench` | For an empty ranking or an unknown candidate `reward.py` counts an error that `recbench_json.py` does not have; the test of equal format scores tries one valid answer. |
| `PartialRollout!WaitsForTasks` | 1 request, `Partial` false | With `partial_rollout` off an update does not wait for running requests as documented: it aborts them and their truncated output is the answer. |
| `PartialRollout!NoMixedWeights` | 1 request, `Pausing` false | Below vLLM 0.12 the abort does not pause the engine; the client resends at once and is sampled while the weights are replaced. |
| `WeightBuckets!Viewable` | as `weight_update` | A wide weight behind an odd number of narrow elements starts at an offset where the receiver cannot view it. |
| `ToolAgentLoop!NoPromptInResponse` | length 6, `Cuts` true | An answer aborted before its first token leaves the mask empty, and `prompt_ids[-0:]` is the whole prompt. |
| `SyncTraining!Resumable` | `Keep` = 1 | The old actor is removed when the new one is written, while the tracker still names the old version. |
| `SyncTraining!TrackerAtomic` | `Keep` = 2 | `open(.., "w")` truncates the tracker first; a job that dies there leaves a file that `int()` cannot read. |
| `SFTTraining!EachBatchOnce` | 1 rank, `SaveFreq` = 3 | Saved at the end of an epoch, the loader is exhausted; the resumed job skips the next epoch. |
| `SFTTraining!RanksAgree` | 2 ranks, `SaveFreq` = 4 | Rank 0 moves the tracker while another rank has still to write its data file; resumed, the ranks stand at different batches. |
| `RateLimitedReward!LimitedTogether` | 2 workers | The limiter is documented as shared across workers; each worker is a process with its own. |
| `RateLimitedReward!SimultaneousCalls`, for plain functions too | 2 threads | A plain function goes on in its thread after the timeout, beside the next call. |
| `RateLimitedReward!StartsWithinRate` | equal costs, bucket of 1, timeout 3 | Tokens are taken before the semaphore: calls pile up behind a slow one and start together. |
| `MicroBatches!WithinLimit` | as `batches`, plain call | Lengths 2, 3 and 3 with a limit of 4 make two micro-batches, one above the documented maximum; `LoadBounded` is what holds, of workloads. |
| `MicroBatches!NeverRefused` | a minimum of 3 | The documented padding of empty micro-batches does not exist: an assertion fails when there are fewer samples than the minimum. |
| `ReplayBuffer!AllSessionsEnded` | steps 1, 2, two sessions | One session fails, the prompt reports, and the batch is sampled while the other session runs. |
| `ReplayBuffer!StaysRemoved` | steps 1, 1 (validation) | The thread adds a listing taken before the clean-up: removed keys are in the next validation batch. |
| `OneStepOff!NewPass` | 3 epochs of 3, 7 steps, no warm-up, 2 crashes | The loader is ahead of the steps: at a multiple of the epoch's steps its state lies inside a pass and is left out all the same. |
| `OneStepOff!FinalValidation` | 3 epochs of 2, 6 steps, no crash | The last validation measures the weights before the last update. |
| `Dispatch!AnswersInPlace` | 4 ranks, up to 3 rows, `Dynamic` | Every data parallel rank has all answers and collects: each comes back several times. |
| `Dispatch!NoEmptyShare` | 4 ranks, up to 5 rows, `Dynamic` | Five rows over four groups, rounded up, leave the last without a row. |
| `Candidates!TrulyNegative` | as `recbench` | A second item with the title of the ground truth is drawn as a negative. |
| `Candidates!PlacedFromCatalog` | as `recbench` | A ground truth that the catalog has not is placed as an item made up from the record, where the README speaks of filtering. |
| `TaskRunner!FailureReported` | as `runner` | The results of the stream are gathered and thrown away (`RO` 692): a failed stream ends as a completed run. |

What the code does and the properties leave room for or the modules leave out, where a reader might
expect more:

- Plain reward functions that hang (`limited.py` 361, 387) hold their threads after the timeout. Once
  they hold all of them, no further response is decoded (`limited.py` 414, outside any timeout) and its
  request is never answered: `Answered` excepts this state (`Exhausted`), and is violated without the
  exception.
- A returned run (`ReturnsWhenDone`) has not trained on everything: fewer than `required_samples` at the
  end signal are given up (`TR` 253, 270), samples that outlive a failed processor are cleared (`RO` 534,
  `fully_async_main.py` 191), and the local steps since the last version are in no checkpoint (`TR` 655).
- A crash of the asynchronous job loses all samples that were fed when the checkpoint was written, the
  up to 129 of the pending queue and the feeder (`RO` 205, 489) included, although staleness control
  never let them through: `LossBounded` counts them.
- `AllTrained` of the asynchronous job says that the job gets to its end, not that it trained on every
  sample.
- A rationale claim that is a list or an object makes the membership test raise `TypeError` out of both
  rewards (`recbench_json.py` 106, `reward.py` 165); the modules have claims that can be looked up.

## 8. Not modelled

- The implementation has about 98 700 lines in 366 files. The map covers about 5 000 of them,
  nearly all that has state shared between coroutines, threads, processes or starts of a job. Covering
  a third of it is out of reach for a reason that does not change with effort: the rest is arithmetic
  on tensors (`core_algos.py`, `rollout_corr_helper.py`, `kernels.py`, model definitions, losses,
  metrics), parallel execution of models on GPUs (FSDP, Megatron, TorchTitan, VeOmni back ends),
  patches of third-party engines, data sets and prompts, configuration classes, profiling, checkpoint
  conversion and tests' helpers. A TLA+ definition of these would be a transcription with no
  behaviour to check, or need real numbers.
- SGLang and TensorRT-LLM servers, NCCL, HCCL and Mooncake transfers: collective communication in
  libraries; the vLLM and NIXL paths stand for them.
- Validation in the asynchronous trainers, worker set-up, resource pools.
- The queue's validation side (`put_validate`), `greedy_partition` and `keep_minibatch`: no caller.
- `PROJECT.json` names for each component what of it is left out.
