---------------------------- MODULE MCFullyAsync ----------------------------
(***************************************************************************)
(* TLC instances of FullyAsync.  A run ends, so its last state repeats.    *)
(***************************************************************************)
EXTENDS FullyAsync
=============================================================================
