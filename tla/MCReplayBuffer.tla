--------------------------- MODULE MCReplayBuffer ---------------------------
(* TLC instance of ReplayBuffer: the steps at which training takes a batch. *)
EXTENDS ReplayBuffer, TLC
TrainSteps == <<1, 2>>

Symmetry == Permutations(Prompts)
=============================================================================
