------------------------------ MODULE Dispatch ------------------------------
(***************************************************************************)
(* One call of a worker group with a batch: the single controller reorders *)
(* the batch to balance the ranks (ppo/ray_trainer.py, _balance_batch),    *)
(* cuts it into chunks, one per data parallel rank, sends every worker the *)
(* chunk of its rank, and puts together the answers of the workers that    *)
(* collect (single_controller/base/decorator.py).  The agent loop workers  *)
(* are such a group, and validation pads its batches for them              *)
(* (protocol.py, pad_dataproto_to_divisor).  With dynamic context          *)
(* parallelism (utils/megatron_utils.py) the ranks report one data         *)
(* parallel rank, cut its chunk once more among themselves and gather the  *)
(* answers.                                                                *)
(*                                                                         *)
(* A row is a number and the answer to it the same number: the model is    *)
(* about where rows go and come from.  Workers answer in any order.        *)
(***************************************************************************)
EXTENDS Integers, Sequences, FiniteSetsExt

CONSTANTS
  TP, DP, PP,  \* tensor, data and pipeline parallel sizes of the group
  MaxRows,
  Padding,     \* the caller pads the batch and cuts the padding off again
  Balancing,   \* the caller balances the batch first
  Dynamic      \* dynamic_context_parallel

DispatchAssumption ==
  /\ TP \in Nat \ {0} /\ DP \in Nat \ {0} /\ PP \in Nat \ {0} /\ MaxRows \in Nat \ {0}
  /\ Padding \in BOOLEAN /\ Balancing \in BOOLEAN /\ Dynamic \in BOOLEAN

Workers == 0 .. TP * DP * PP - 1
Row == 1 .. MaxRows

VARIABLES
  phase,    \* "caller", "called", "collected", "returned" or "refused"
  batch,    \* the rows, in the caller's order
  parts,    \* the partition for each data parallel rank, when balanced
  padded,   \* the rows with the padding
  cp,       \* local_cp_size
  done,     \* of each worker: what it has computed, or None
  answers,  \* of each worker, or None
  output

None == <<0>>
vars == <<phase, batch, parts, padded, cp, done, answers, output>>

----------------------------------------------------------------------------
(* The ranks of a worker: tensor parallel ranks are next to each other,    *)
(* pipeline stages farthest apart.                                         *)

TpRank(w) == w % TP
MpuDpRank(w) == (w \div TP) % DP
PpRank(w) == w \div (TP * DP)

\* get_data_parallel_rank and get_data_parallel_size, as they are reported.
DpRank(w) == IF Dynamic THEN 0 ELSE MpuDpRank(w)
DpSize == IF Dynamic THEN 1 ELSE DP

CollectsStages(w) == TpRank(w) = 0  \* mutant: every pipeline stage collects

\* is_mp_src_rank_with_outputs
Collects(w) == TpRank(w) = 0 /\ PpRank(w) = PP - 1

\* The parts of equal size that a sequence is cut into.
Chunk(s, k, n) == SubSeq(s, (k * Len(s)) \div n + 1, ((k + 1) * Len(s)) \div n)

Init ==
  /\ phase = "caller"
  /\ \E n \in Row : batch = [i \in 1 .. n |-> i]
  /\ parts = <<>> /\ padded = <<>> /\ cp = 0
  /\ done = [w \in Workers |-> None] /\ answers = [w \in Workers |-> None]
  /\ output = None

\* _balance_batch: partitions of equal size, one after the other.  Within a
\* partition the rows are sorted by their workload, so any order is possible.
Balance ==
  /\ phase = "caller" /\ Balancing /\ parts = <<>>
  /\ Len(batch) % DP = 0
  /\ \E order \in Bijection(1 .. Len(batch), Range(batch)) :
       /\ batch' = order
       /\ parts' = [d \in 1 .. DP |-> Range(Chunk(order, d - 1, DP))]
  /\ UNCHANGED <<phase, padded, cp, done, answers, output>>

\* The rows from the front, as often as needed.
Padded(s, n) ==
  IF Len(s) % n = 0 THEN s
  ELSE s \o [i \in 1 .. n - (Len(s) % n) |-> s[((i - 1) % Len(s)) + 1]]

\* The call; a batch that cannot be cut equally is refused.
Call ==
  /\ phase = "caller"
  /\ Balancing => parts # <<>> \/ Len(batch) % DP # 0
  /\ padded' = IF Padding THEN Padded(batch, DpSize) ELSE batch
  /\ phase' = IF Len(padded') % DpSize = 0 THEN "called" ELSE "refused"
  \* the longest row decides the context parallel size, a power of two
  /\ cp' \in IF Dynamic THEN {k \in 1 .. DP : \E i \in 0 .. DP : k = 2^i} ELSE {1}
  /\ UNCHANGED <<batch, parts, done, answers, output>>

\* The chunk a worker is given.
Given(w) == Chunk(padded, DpRank(w), DpSize)

\* dynamic_cp_split_batch: nothing is cut when there are fewer rows than ranks
\* or one context parallel group.
Splits == Dynamic /\ Len(padded) >= DP /\ cp < DP

ShareOf(w) ==
  IF ~Splits THEN Given(w)
  ELSE LET rows == Given(w)
           groups == DP \div cp
           size == (Len(rows) + groups - 1) \div groups
           start == (MpuDpRank(w) \div cp) * size
       IN SubSeq(rows, start + 1, Min({start + size, Len(rows)}))

Compute(w) ==
  /\ phase = "called" /\ done[w] = None
  /\ done' = [done EXCEPT ![w] = ShareOf(w)]
  /\ UNCHANGED <<phase, batch, parts, padded, cp, answers, output>>

\* What these workers have, one after the other in the order of the workers.
Joined(ranks, has) ==
  LET upto[n \in 0 .. TP * DP * PP] ==
        IF n = 0 THEN <<>>
        ELSE IF n - 1 \in ranks THEN upto[n - 1] \o has[n - 1] ELSE upto[n - 1]
  IN upto[TP * DP * PP]

\* dynamic_cp_merge_output gathers what the data parallel group has computed,
\* and takes one rank of each context parallel group.
DpGroup(w) == {v \in Workers : TpRank(v) = TpRank(w) /\ PpRank(v) = PpRank(w)}

Merged(w) ==
  IF ~Splits THEN done[w]
  ELSE LET taken == {v \in DpGroup(w) : MpuDpRank(v) % cp = MpuDpRank(w) % cp}
       IN Joined(taken, done)

Answer(w) ==
  /\ phase = "called" /\ answers[w] = None
  /\ IF Splits THEN \A v \in DpGroup(w) : done[v] # None ELSE done[w] # None
  /\ answers' = [answers EXCEPT ![w] = Merged(w)]
  /\ UNCHANGED <<phase, batch, parts, padded, cp, done, output>>

\* collect_nd_compute_dataproto: the answers of those that collect, in the
\* order of the workers.
Collect ==
  /\ phase = "called" /\ \A w \in Workers : answers[w] # None
  /\ output' = Joined({w \in Workers : Collects(w)}, answers)
  /\ phase' = "collected"
  /\ UNCHANGED <<batch, parts, padded, cp, done, answers>>

\* unpad_dataproto
Return ==
  /\ phase = "collected"
  /\ output' = SubSeq(output, 1, Len(output) - (Len(padded) - Len(batch)))
  /\ phase' = "returned"
  /\ UNCHANGED <<batch, parts, padded, cp, done, answers>>

Next ==
  \/ Balance \/ Call \/ Collect \/ Return
  \/ \E w \in Workers : Compute(w) \/ Answer(w)

Spec == Init /\ [][Next]_vars

----------------------------------------------------------------------------
(* Properties.                                                             *)

TypeOK ==
  /\ phase \in {"caller", "called", "collected", "returned", "refused"}
  /\ batch \in Seq(Row) /\ Range(padded) \subseteq Row
  /\ Len(padded) < Len(batch) + DP
  /\ \A w \in Workers : done[w] # None => Range(done[w]) \subseteq Range(batch)

\* The caller gets the answer to its i-th row at place i, and no other: the
\* data parallel ranks, the mask of those that collect and the order of the
\* workers fit together, and the padding is cut off at the right end.
AnswersInPlace == phase = "returned" => output = batch

\* The workers of a data parallel rank compute the same rows, and without
\* padding no row is computed by two ranks.
OneRankPerRow ==
  \A v, w \in Workers : done[v] # None /\ done[w] # None =>
    /\ MpuDpRank(v) = MpuDpRank(w) => done[v] = done[w]
    /\ MpuDpRank(v) # MpuDpRank(w) /\ padded = batch /\ ~Dynamic =>
         Range(done[v]) \cap Range(done[w]) = {}

\* Each rank computes the partition that was balanced for it.
OwnPartition ==
  parts # <<>> => \A w \in Workers : done[w] # None =>
    Range(done[w]) = parts[MpuDpRank(w) + 1]

\* After the answers are gathered every worker has those to all the rows it was
\* given, in their order, however they were split.
MergedWhole == \A w \in Workers : answers[w] # None => answers[w] = Given(w)

\* megatron/transformer_impl.py:812: the batch is split to "give the sub-batches
\* to each dp-cp group": every group has one to compute.
NoEmptyShare == \A w \in Workers : done[w] # <<>>
=============================================================================
