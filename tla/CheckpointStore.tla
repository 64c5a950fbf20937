--------------------------- MODULE CheckpointStore ---------------------------
(***************************************************************************)
(* The retention rule of BaseCheckpointManager                             *)
(* (verl/utils/checkpoint/checkpoint_manager.py).  A manager remembers, in *)
(* memory only, the checkpoints this process saved, oldest first, and      *)
(* removes the oldest before a save (ensure_checkpoint_capacity) and after *)
(* one (register_checkpoint).  Keep = 0 stands for None: keep everything.  *)
(***************************************************************************)
EXTENDS Integers, Sequences

CONSTANT Keep

KeepAssumption == Keep \in Nat

\* What stands in the tracker file when it holds no number.
NoFile == -1   \* there is no tracker file
Cut == -2      \* truncated by open(.., "w"), the number not yet written

\* Mutant: the last checkpoint goes before the next is written.
OverCapacityAll(saved) == IF Keep > 0 THEN Len(saved) ELSE 0

(* How many checkpoints go before a save: one place is made, except that   *)
(* the only checkpoint to keep is left alone.                              *)
OverCapacity(saved) ==
    IF Keep > 1 /\ Len(saved) >= Keep THEN Len(saved) - Keep + 1 ELSE 0

(* How many go when a new one has been added.                              *)
OverLimit(saved) == IF Keep > 0 /\ Len(saved) > Keep THEN Len(saved) - Keep ELSE 0

Oldest(saved, n) == {saved[i] : i \in 1..n}
Without(saved, n) == SubSeq(saved, n + 1, Len(saved))
==============================================================================
