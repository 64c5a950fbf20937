---------------------------- MODULE FlowControl ----------------------------
(***************************************************************************)
(* What the staleness control of the rollouter promises to the trainer,    *)
(* with everything about tasks, locks and queues left out: the rollouter   *)
(* holds a number of samples it has started, the trainer takes them, and a *)
(* parameter synchronisation allows new ones.  FullyAsync implements it.   *)
(***************************************************************************)
EXTENDS Naturals

CONSTANT Budget  (* Samples the rollouter may work ahead of a synchronisation *)

VARIABLES
  ahead,  (* entries started and not taken *)
  used,   (* entries taken since the last synchronisation *)
  open    (* the rollouter has not sent its end signal *)

fvars == <<ahead, used, open>>

FInit == ahead = 0 /\ used = 0 /\ open = TRUE

\* A sample is started while the budget is not exceeded: one may exceed it.
Start == open /\ used + ahead <= Budget /\ ahead' = ahead + 1 /\ UNCHANGED <<used, open>>

\* The trainer takes an entry; the end signal is taken without being counted.
Take == ahead > 0 /\ ahead' = ahead - 1 /\ used' \in {used, used + 1} /\ UNCHANGED open

\* A started sample is lost: its task fails, or a full queue drops it.
Lose == ahead > 0 /\ ahead' = ahead - 1 /\ UNCHANGED <<used, open>>

\* The end signal is sent; it may take the place of the sample it pushes out.
Close == open /\ open' = FALSE /\ ahead' \in {ahead, ahead + 1} /\ UNCHANGED used

\* New parameters reached the rollouter: what it has started still counts, what was used does not.
Synchronise == used' = 0 /\ UNCHANGED <<ahead, open>>

FNext == Start \/ Take \/ Lose \/ Close \/ Synchronise

FSpec == FInit /\ [][FNext]_fvars

\* The promise: one sample beyond the budget at most, and the end signal.
FBound ==
  /\ ahead \in Nat /\ used \in Nat /\ open \in BOOLEAN
  /\ used + ahead <= Budget + 1 + (IF open THEN 0 ELSE 1)
=============================================================================
