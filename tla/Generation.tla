----------------------------- MODULE Generation -----------------------------
(***************************************************************************)
(* What partial rollout promises the agent loop: a request is generated as *)
(* if nothing interrupted it, and every token by the weights that were the *)
(* newest published ones when it was sampled.  Aborts, resends, servers,   *)
(* and the order in which replicas load weights do not exist here.         *)
(* PartialRollout.tla implements this module.                              *)
(***************************************************************************)
EXTENDS Naturals, Sequences

CONSTANT Request  (* requests of the agent loops *)

VARIABLES
  version,  (* the newest weights the inference servers have been given *)
  text,     (* of each request the tokens so far, each the version that sampled it *)
  ended     (* the requests whose generation is over *)

gvars == <<version, text, ended>>

GInit ==
  /\ version = 0
  /\ text = [r \in Request |-> <<>>]
  /\ ended = {}

Publish ==
  /\ version' = version + 1
  /\ UNCHANGED <<text, ended>>

\* One more token, the last one of its request or not.
Emit(r) ==
  /\ r \notin ended
  /\ text' = [text EXCEPT ![r] = Append(@, version)]
  /\ ended' \in {ended, ended \cup {r}}
  /\ UNCHANGED version

GNext == Publish \/ \E r \in Request : Emit(r)

GSpec == GInit /\ [][GNext]_gvars
=============================================================================
