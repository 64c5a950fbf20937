---------------------------- MODULE SampleQueue ----------------------------
(***************************************************************************)
(* The queue between the rollouter and the trainer, each call of           *)
(* MessageQueue (fully_async_policy/message_queue.py) taken as one step.   *)
(* Every method runs under one asyncio lock and, except for the wait of    *)
(* get_sample, holds no await inside it, so a call that returns is atomic. *)
(* The queue is bounded and drops its OLDEST entry when it is full.        *)
(*                                                                         *)
(* MessageQueue.tla adds the callers of get_sample, which wait and wake;   *)
(* FullyAsync.tla composes the queue with the rollouter and the trainer.   *)
(***************************************************************************)
EXTENDS Naturals, Sequences

CONSTANTS
  Item,         (* What put_sample may be given: samples and the None that ends the stream *)
  MaxQueueSize  (* max_queue_size *)

ASSUME MaxQueueSizeAssumption == MaxQueueSize \in Nat \ {0}

VARIABLES
  queue,     (* self.queue, oldest entry first *)
  produced,  (* self.total_produced *)
  consumed,  (* self.total_consumed *)
  dropped,   (* self.dropped_samples *)
  cleared    (* entries removed by clear_queue, which the code only logs *)

qvars == <<queue, produced, consumed, dropped, cleared>>

Full == Len(queue) >= MaxQueueSize

QInit ==
  /\ queue = <<>>
  /\ produced = 0
  /\ consumed = 0
  /\ dropped = 0
  /\ cleared = 0

\* Mutant: the new entry is put at the end that get_sample reads.
PutFront(x) ==
  /\ queue' = <<x>> \o (IF Full THEN Tail(queue) ELSE queue)
  /\ dropped' = IF Full THEN dropped + 1 ELSE dropped
  /\ produced' = produced + 1
  /\ UNCHANGED <<consumed, cleared>>

\* Mutant: a full queue gives up its newest entry.
PutDropsNewest(x) ==
  /\ queue' = Append(IF Full THEN SubSeq(queue, 1, Len(queue) - 1) ELSE queue, x)
  /\ dropped' = IF Full THEN dropped + 1 ELSE dropped
  /\ produced' = produced + 1
  /\ UNCHANGED <<consumed, cleared>>

\* put_sample: a full queue gives up its oldest entry, the new one is always appended.
\* The call returns ~Full: it reports a drop, but the dropped entry is not its argument.
Put(x) ==
  /\ queue' = Append(IF Full THEN Tail(queue) ELSE queue, x)
  /\ dropped' = IF Full THEN dropped + 1 ELSE dropped
  /\ produced' = produced + 1
  /\ UNCHANGED <<consumed, cleared>>

\* get_sample once there is an entry: the oldest leaves, the new length is reported with it.
Get(x) ==
  /\ queue # <<>>
  /\ x = Head(queue)
  /\ queue' = Tail(queue)
  /\ consumed' = consumed + 1
  /\ UNCHANGED <<produced, dropped, cleared>>

\* clear_queue: the task runner calls it once both actors have returned.
Clear ==
  /\ queue' = <<>>
  /\ cleared' = cleared + Len(queue)
  /\ UNCHANGED <<produced, consumed, dropped>>

(***************************************************************************)
(* Properties                                                              *)
(***************************************************************************)

\* The bound of the deque: put_sample makes room before it appends.
QTypeOK ==
  /\ queue \in Seq(Item)
  /\ Len(queue) <= MaxQueueSize
  /\ produced \in Nat
  /\ consumed \in Nat
  /\ dropped \in Nat
  /\ cleared \in Nat

\* Every entry ever put is delivered, dropped, cleared or still queued: the counters that
\* get_statistics reports account for all of them.
Accounted == produced = consumed + dropped + cleared + Len(queue)
=============================================================================
