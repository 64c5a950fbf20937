---------------------------- MODULE MicroBatches ----------------------------
(***************************************************************************)
(* Dynamic micro-batches: rearrange_micro_batches of                       *)
(* verl/utils/seqlen_balancing.py cuts the samples of one rank into        *)
(* micro-batches by their lengths, the engine runs them one after another, *)
(* and restore_dynamic_batch puts the outputs back into the order of the   *)
(* samples.  The partition itself is the method of KarmarkarKarp, of       *)
(* groups of force_group_size consecutive samples.                         *)
(*                                                                         *)
(* The other ranks of the data parallel group appear as "peers", the       *)
(* largest number of micro-batches one of them asks for (0: no group).     *)
(***************************************************************************)
EXTENDS KarmarkarKarp, SequencesExt

CONSTANTS
  MaxSamples,   \* bound on the samples of a rank (rounded up to a whole group)
  Lengths,      \* the lengths of samples
  Arguments     \* the calls: records of the arguments, with peers

ASSUME MicroBatchesAssumption ==
  /\ MaxSamples \in Nat \ {0}
  /\ Lengths \subseteq Nat \ {0}
  /\ Arguments \subseteq [max_token_len : Nat \ {0}, group : Nat \ {0}, min : Nat, peers : Nat,
                           divided_by : Nat \ {0}, balance : BOOLEAN]

VARIABLES
  seq_len,        \* seq_len_effective: the length of each sample
  args,           \* the arguments of the call
  micro_bsz_idx,  \* the samples of each micro-batch, in the order they run
  pc              \* "split", "merge", "done" or "failed"

mvars == <<vars, seq_len, args, micro_bsz_idx, pc>>

----------------------------------------------------------------------------

\* 24576 * seqlen + seqlen ** 2
calculate_workload(n) == 24576 * n + n * n

ceildiv(a, b) == (a + b - 1) \div b
roundup_divisible(a, b) == ((a + b - 1) \div b) * b

Samples == DOMAIN seq_len
Tokens(S) == MapThenSumSet(LAMBDA i : seq_len[i], S)

num_groups == Cardinality(Samples) \div args.group
Members(g) == {g * args.group + j : j \in 0 .. args.group - 1}

\* The workload of the samples in S.
Load(S) == MapThenSumSet(LAMBDA i : calculate_workload(seq_len[i]), S)

\* What this rank needs, at least what its caller asked for.
Wanted ==
  Max({args.min, Min({num_groups, ceildiv(Tokens(Samples), args.max_token_len)})})

\* The largest of all ranks, then a multiple of num_batches_divided_by.
num_micro_batches == roundup_divisible(Max({Wanted, args.peers}), args.divided_by)

----------------------------------------------------------------------------

MInit ==
  /\ args \in Arguments
  /\ \E n \in 1 .. MaxSamples + args.group - 1 :
       /\ n % args.group = 0
       /\ seq_len \in [0 .. n - 1 -> {l \in Lengths : l <= args.max_token_len}]
       /\ args.peers <= n \div args.group
  /\ workload = [g \in 0 .. num_groups - 1 |-> Load(Members(g))]
  /\ k = 1
  /\ equal_size = FALSE
  /\ states_pq = {}
  /\ micro_bsz_idx = <<>>
  /\ pc = "split"

\* The asserts: no more micro-batches than groups.
Refuse ==
  /\ pc = "split"
  /\ num_micro_batches > num_groups
  /\ pc' = "failed"
  /\ UNCHANGED <<vars, seq_len, args, micro_bsz_idx>>

Split ==
  /\ pc = "split"
  /\ num_micro_batches <= num_groups
  /\ k' = num_micro_batches
  /\ states_pq' = {[i \in 1 .. k' |-> IF i = 1 THEN Single(g) ELSE Empty] : g \in Items}
  /\ pc' = "merge"
  /\ UNCHANGED <<workload, equal_size, seq_len, args, micro_bsz_idx>>

MergeTop ==
  /\ pc = "merge"
  /\ Merge
  /\ UNCHANGED <<seq_len, args, micro_bsz_idx, pc>>

\* The elements of S, none of which comes with another in one place.
SortedBy(S, Precedes(_, _)) ==
  [i \in 1 .. Cardinality(S) |->
     CHOOSE x \in S : Cardinality({y \in S : Precedes(y, x)}) = i - 1]

\* The sort of the micro-batches: by workload, then by first sample.
HeavierThan(p, q) ==
  \/ p.sum > q.sum
  \/ p.sum = q.sum /\ Min(p.items) > Min(q.items)

\* Mutant: the other way round, the heavy ones at both ends.
HeavyAtEnds(seq) ==
  LET half == (Len(seq) + 1) \div 2 IN
  [i \in DOMAIN seq |-> IF i <= half THEN seq[2 * i - 1] ELSE seq[2 * (Len(seq) - i) + 2]]

\* seq[::2][::-1] + seq[1::2]: the light ones at both ends.
LightAtEnds(seq) ==
  LET half == (Len(seq) + 1) \div 2 IN
  [i \in DOMAIN seq |-> IF i <= half THEN seq[2 * (half - i) + 1] ELSE seq[2 * (i - half)]]

\* The samples of the groups of p, which are sorted, one group after another.
Rows(p) ==
  LET groups == SortedBy(p.items, <) IN
  [r \in 1 .. Len(groups) * args.group |->
     groups[(r - 1) \div args.group + 1] * args.group + ((r - 1) % args.group)]

Order ==
  /\ pc = "merge"
  /\ Done
  /\ \E s \in states_pq :
       LET parts == IF args.balance
                    THEN LightAtEnds(SortedBy({s[i] : i \in Parts}, HeavierThan))
                    ELSE s
       IN micro_bsz_idx' = [i \in Parts |-> Rows(parts[i])]
  /\ pc' = "done"
  /\ UNCHANGED <<vars, seq_len, args>>

MNext == Refuse \/ Split \/ MergeTop \/ Order

MSpec == MInit /\ [][MNext]_mvars

----------------------------------------------------------------------------
(* The way back: restore_dynamic_batch.                                    *)

\* The rows of the outputs, micro-batch after micro-batch: row r belongs to
\* sample indices[r].
indices == FlattenSeq(micro_bsz_idx)

get_reverse_idx(idx_map) == [j \in Range(idx_map) |-> CHOOSE i \in DOMAIN idx_map : idx_map[i] = j]

\* Mutant: the index list is used where its inverse belongs.
restore_forwards(rows) == [j \in Samples |-> rows[indices[j + 1] + 1]]

restore_dynamic_batch(rows) ==
  LET revert == get_reverse_idx(indices) IN [j \in DOMAIN revert |-> rows[revert[j]]]

----------------------------------------------------------------------------
(* Properties.                                                             *)

MTypeOK ==
  /\ args \in Arguments
  /\ seq_len \in [Samples -> Lengths]
  /\ pc \in {"split", "merge", "done", "failed"}
  /\ pc = "done" => micro_bsz_idx \in [Parts -> Seq(Samples)]

\* The output of every sample comes back to the row of that sample, through
\* the grouping, the balancing and the order the micro-batches run in:
\* log-probabilities in a wrong row would train, silently, on noise.
OutputsRestored ==
  pc = "done" =>
    /\ Len(indices) = Cardinality(Samples)
    /\ restore_dynamic_batch(indices) = [j \in Samples |-> j]

\* The samples of a group (the two sides of a preference pair) are
\* consecutive rows of one micro-batch, in their order.
GroupsStay ==
  pc = "done" =>
    \A g \in Items : \E b \in DOMAIN micro_bsz_idx : \E r \in 0 .. Len(micro_bsz_idx[b]) :
      \A j \in 0 .. args.group - 1 :
        /\ r + j + 1 \in DOMAIN micro_bsz_idx[b]
        /\ micro_bsz_idx[b][r + j + 1] = g * args.group + j

\* No micro-batch is as heavy as two full ones: what the count of
\* micro-batches and the balance of the method do promise of the work and
\* the memory one takes, when its samples are not grouped.  A group adds
\* what its samples may weigh.
LoadBounded ==
  pc = "done" =>
    \A b \in DOMAIN micro_bsz_idx :
       Load(Range(micro_bsz_idx[b])) < (args.group + 1) * calculate_workload(args.max_token_len)

\* The lightest micro-batches run first and last: the one in between two
\* others is never lighter than both.
LightEnds ==
  pc = "done" /\ args.balance =>
    LET At(b) == Load(Range(micro_bsz_idx[b]))
    IN \A a, b, c \in DOMAIN micro_bsz_idx : a < b /\ b < c => At(b) >= Min({At(a), At(c)})

\* seqlen_balancing.py:363 calls max_token_len the "max sum of
\* attention_mask per micro-batch".
WithinLimit ==
  pc = "done" =>
    \A b \in DOMAIN micro_bsz_idx : Tokens(Range(micro_bsz_idx[b])) <= args.max_token_len

\* seqlen_balancing.py:367 says min_num_micro_batch will "force at least
\* this many splits (pads empty ones)".
NeverRefused == pc # "failed"
============================================================================
