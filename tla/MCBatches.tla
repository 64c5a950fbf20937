------------------------------ MODULE MCBatches ------------------------------
(***************************************************************************)
(* TLC instances of what happens to a batch on its way to the workers and  *)
(* back: the partition of its rows (KarmarkarKarp), the micro-batches of   *)
(* one rank (MicroBatches), and a call of a worker group (Call): with a    *)
(* balanced batch, with a padded one, as the agent loop workers get it,    *)
(* and with dynamic context parallelism.  The variable part names the one  *)
(* that takes the steps of a behaviour; the three calls share their        *)
(* variables, and so do the partition and the micro-batches.               *)
(***************************************************************************)
EXTENDS MicroBatches

CONSTANT Group  \* of each call: the sizes of its group, and the most rows

SomeGroups ==
  [balanced |-> [tp |-> 2, dp |-> 2, pp |-> 2, rows |-> 4],
   padded |-> [tp |-> 1, dp |-> 4, pp |-> 1, rows |-> 6],
   dynamic |-> [tp |-> 1, dp |-> 4, pp |-> 1, rows |-> 6]]

VARIABLES
  part,
  \* of the calls
  phase, batch, parts, padded, cp, done, answers, output

microVars == <<seq_len, args, micro_bsz_idx, pc>>
callVars == <<phase, batch, parts, padded, cp, done, answers, output>>

CallWith(limit, group, min, peers, divided_by, balance) ==
  [max_token_len |-> limit, group |-> group, min |-> min, peers |-> peers,
   divided_by |-> divided_by, balance |-> balance]

\* Single samples, with and without other ranks, for a pipeline that wants an even number and for
\* a caller that wants a minimum; and pairs.
MicroCalls ==
  {CallWith(4, 1, 0, 0, 1, TRUE), CallWith(4, 1, 0, 3, 2, TRUE), CallWith(4, 2, 0, 2, 1, TRUE),
   CallWith(4, 1, 2, 0, 1, FALSE)}

Calls == {"balanced", "padded", "dynamic"}

Call(c) == INSTANCE Dispatch WITH
  TP <- Group[c].tp, DP <- Group[c].dp, PP <- Group[c].pp, MaxRows <- Group[c].rows,
  Padding <- c = "padded", Balancing <- c = "balanced", Dynamic <- c = "dynamic"

ASSUME MCBatchesAssumption == \A c \in Calls : Call(c)!DispatchAssumption

NoPartition == workload = [x \in {0} |-> 0] /\ k = 1 /\ equal_size = FALSE /\ Push
NoMicro ==
  /\ seq_len = <<>> /\ args = CHOOSE a \in Arguments : TRUE
  /\ micro_bsz_idx = <<>> /\ pc = "split"
NoCall ==
  /\ phase = "caller" /\ batch = <<>> /\ parts = <<>> /\ padded = <<>> /\ cp = 0
  /\ done = <<>> /\ answers = <<>> /\ output = <<>>

MCInit ==
  \/ part = "partition" /\ Init /\ NoMicro /\ NoCall
  \/ part = "micro" /\ MInit /\ NoCall
  \/ part = "balanced" /\ Call("balanced")!Init /\ NoPartition /\ NoMicro
  \/ part = "padded" /\ Call("padded")!Init /\ NoPartition /\ NoMicro
  \/ part = "dynamic" /\ Call("dynamic")!Init /\ NoPartition /\ NoMicro

MCNext ==
  /\ UNCHANGED part
  /\ \/ part = "partition" /\ Next /\ UNCHANGED <<microVars, callVars>>
     \/ part = "micro" /\ MNext /\ UNCHANGED callVars
     \/ part = "balanced" /\ Call("balanced")!Next /\ UNCHANGED <<vars, microVars>>
     \/ part = "padded" /\ Call("padded")!Next /\ UNCHANGED <<vars, microVars>>
     \/ part = "dynamic" /\ Call("dynamic")!Next /\ UNCHANGED <<vars, microVars>>

MCSpec == MCInit /\ [][MCNext]_<<part, vars, microVars, callVars>>

-----------------------------------------------------------------------------
(* What is checked of the micro-batches and of the calls. *)

\* The output of every sample comes back to its row, however the rank's samples were grouped,
\* balanced and ordered, and the samples of a group are consecutive rows of one micro-batch.
RestoredInOrder == part = "micro" => MTypeOK /\ OutputsRestored /\ GroupsStay

\* No micro-batch of ungrouped samples is as heavy as two full ones, and the lightest ones run first
\* and last.
Loads == part = "micro" => LoadBounded /\ LightEnds

\* The caller of a worker group gets the answer to its i-th row at place i, and no other: the
\* workers of a data parallel rank compute the same rows, the partition that was balanced for it,
\* and with dynamic context parallelism each ends with the answers to all rows it was given.
AnswersInPlace ==
  \A c \in Calls : part = c =>
    /\ Call(c)!TypeOK /\ Call(c)!OneRankPerRow /\ Call(c)!OwnPartition
    /\ IF c = "dynamic" THEN Call(c)!MergedWhole ELSE Call(c)!AnswersInPlace
=============================================================================
