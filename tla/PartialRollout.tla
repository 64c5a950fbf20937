--------------------------- MODULE PartialRollout ---------------------------
(***************************************************************************)
(* Requests that live through weight updates.  FullyLLMServerClient        *)
(* (workers/rollout/llm_server.py) sends a request to the server that the  *)
(* GlobalRequestLoadBalancer names, and sends it again with the tokens so  *)
(* far whenever it comes back aborted.  CheckpointEngineManager            *)
(* (checkpoint_engine/base.py) aborts all requests of all replicas, lets   *)
(* them load the new weights and resumes them.  A replica is a server of   *)
(* vllm_async_server.py in standalone mode.                                *)
(*                                                                         *)
(* A token is the version of the weights that sampled it.                  *)
(***************************************************************************)
EXTENDS Integers, Sequences, FiniteSets

CONSTANTS
  Request,      (* ids of the conversations, the keys of sticky routing *)
  NumServers,   (* replicas, in the order of the load balancer's dictionary *)
  ResponseLength,  (* rollout.response_length *)
  Slack,        (* prompt_length minus the length of the prompt *)
  CallerLimit,  (* max_tokens among the sampling parameters, NoLimit if there is none *)
  CacheSize,    (* max_cache_size of the routing table *)
  Pausing,      (* vLLM >= 0.12: the abort also keeps new requests from running *)
  Partial,      (* async_training.partial_rollout *)
  MaxUpdates,   (* weight updates: a bound of the model *)
  MaxFailures   (* aborts that raise: a bound of the model *)

Server == 1 .. NumServers
NoLimit == 0
Unset == -1     \* min_global_steps before the first answer
Mixed == -1   \* weights of a server that has received some of the new tensors

ASSUME PartialRolloutAssumption ==
  /\ IsFiniteSet(Request)
  /\ NumServers \in Nat \ {0}
  /\ ResponseLength \in Nat \ {0}
  /\ Slack \in Nat
  /\ CallerLimit \in Nat
  /\ CacheSize \in Nat \ {0}
  /\ Pausing \in BOOLEAN
  /\ Partial \in BOOLEAN
  /\ MaxUpdates \in Nat
  /\ MaxFailures \in Nat

VARIABLES
  pc,        (* of a request: ready, routed, running, returned, done *)
  at,        (* server of its attempt *)
  merged,    (* final_output.token_ids *)
  chunk,     (* tokens of the attempt that runs or has returned *)
  reason,    (* stop_reason of what has returned: aborted or completed *)
  label,     (* global_steps of what has returned *)
  steps,     (* <<min_global_steps, max_global_steps>>, Unset before the first answer *)
  inflight,  (* _inflight_requests *)
  release,   (* of a request: the server whose release_server call is on its way, or 0 *)
  recent,    (* keys of _request_id_to_server, least recently used first *)
  route,     (* values of _request_id_to_server *)
  weights,   (* version of the weights of a server *)
  named,     (* global_steps of a server *)
  paused,    (* servers whose engine is paused *)
  phase,     (* of update_weights: idle, abort, load, resume *)
  stage,     (* of a server in that phase: todo, loading, loaded, over *)
  target,    (* global_steps given to update_weights *)
  failures   (* aborts that have raised *)

clientVars == <<pc, at, merged, chunk, reason, label, steps>>
balancerVars == <<inflight, release, recent, route>>
serverVars == <<weights, named, paused>>
managerVars == <<phase, stage, target, failures>>
vars == <<clientVars, balancerVars, serverVars, managerVars>>

Init ==
  /\ pc = [r \in Request |-> "ready"]
  /\ at = [r \in Request |-> 0]
  /\ merged = [r \in Request |-> <<>>]
  /\ chunk = [r \in Request |-> <<>>]
  /\ reason = [r \in Request |-> "completed"]
  /\ label = [r \in Request |-> 0]
  /\ steps = [r \in Request |-> <<Unset, Unset>>]
  /\ inflight = [s \in Server |-> 0]
  /\ release = [r \in Request |-> 0]
  /\ recent = <<>>
  /\ route = [r \in Request |-> 0]
  /\ weights = [s \in Server |-> 0]
  /\ named = [s \in Server |-> 0]
  /\ paused = {}
  /\ phase = "idle"
  /\ stage = [s \in Server |-> "over"]
  /\ target = 0
  /\ failures = 0

-----------------------------------------------------------------------------
(* The load balancer. *)

Cached(r) == \E i \in 1 .. Len(recent) : recent[i] = r

\* min over the dictionary: the first server among those with the fewest requests.
LeastLoaded(s) ==
  \A t \in Server : inflight[s] < inflight[t] \/ (inflight[s] = inflight[t] /\ s <= t)

\* LRUCache: a hit makes its key the most recent, a new key of a full table evicts the oldest.
Touch(r) ==
  LET i == CHOOSE i \in 1 .. Len(recent) : recent[i] = r
      Others == IF Cached(r) THEN SubSeq(recent, 1, i - 1) \o SubSeq(recent, i + 1, Len(recent))
                ELSE IF Len(recent) >= CacheSize THEN Tail(recent) ELSE recent
  IN  Append(Others, r)

Counted(r, s) == [inflight EXCEPT ![s] = @ + 1]

\* acquire_server.  Ray runs the calls of one caller in order, the release of an earlier attempt
\* first.
Acquire(r) ==
  /\ pc[r] = "ready"
  /\ release[r] = 0
  /\ \E s \in Server :
       /\ IF Cached(r) THEN s = route[r] ELSE LeastLoaded(s)
       /\ inflight' = Counted(r, s)
       /\ at' = [at EXCEPT ![r] = s]
       /\ route' = [route EXCEPT ![r] = s]
  /\ recent' = Touch(r)
  /\ pc' = [pc EXCEPT ![r] = "routed"]
  /\ UNCHANGED <<merged, chunk, reason, label, steps, release, serverVars, managerVars>>

\* release_server, sent without waiting for it.
Release(r) ==
  /\ release[r] # 0
  /\ inflight' = [inflight EXCEPT ![release[r]] = @ - 1]
  /\ release' = [release EXCEPT ![r] = 0]
  /\ UNCHANGED <<clientVars, recent, route, serverVars, managerVars>>

-----------------------------------------------------------------------------
(* The servers. *)

\* Mutant: an attempt gets the whole response length, whatever came before it.
AttemptLimitWhole(r) == ResponseLength + Slack

\* Most tokens an attempt may add: what the caller left (line 239 rewrites its parameter), or
\* what the server derives from the length of the prompt and the tokens sent with it.  max_model_len,
\* which would clamp the limit and refuse a longer prompt, is taken to hold both lengths.
AttemptLimit(r) ==
  IF CallerLimit # NoLimit
    THEN CallerLimit - Len(merged[r])
    ELSE LET Room == Slack + ResponseLength - Len(merged[r])
         IN  IF Room < ResponseLength THEN Room ELSE ResponseLength

\* Mutant: a paused engine runs new requests all the same.
MayRunPaused(r) == TRUE

MayRun(r) == at[r] \notin paused

\* generate reaches the engine, which a pause keeps from taking it.
Start(r) ==
  /\ pc[r] = "routed"
  /\ MayRun(r)
  /\ pc' = [pc EXCEPT ![r] = "running"]
  /\ UNCHANGED <<at, merged, chunk, reason, label, steps, balancerVars, serverVars, managerVars>>

\* The coroutine of generate names its server's version when the engine is done with the request.
\* It is scheduled then, before any later call to the server.
Return(R, why) ==
  /\ pc' = [r \in Request |-> IF r \in R THEN "returned" ELSE pc[r]]
  /\ reason' = [r \in Request |-> IF r \in R THEN why ELSE reason[r]]
  /\ label' = [r \in Request |-> IF r \in R THEN named[at[r]] ELSE label[r]]

\* The engine samples a token; it stops at the limit, or where the model ends its answer.
Sample(r) ==
  /\ pc[r] = "running"
  /\ chunk' = [chunk EXCEPT ![r] = Append(@, weights[at[r]])]
  /\ \/ /\ Len(chunk[r]) + 1 < AttemptLimit(r)
        /\ UNCHANGED <<pc, reason, label>>
     \/ Return({r}, "completed")
  /\ UNCHANGED <<at, merged, steps, balancerVars, serverVars, managerVars>>

-----------------------------------------------------------------------------
(* The client. *)

\* Mutant: the versions of the first answer are kept, as for a request that is never resumed.
StepsFirst(r) == IF steps[r][1] = Unset THEN <<label[r], label[r]>> ELSE steps[r]

StepsAfter(r) == <<IF steps[r][1] = Unset THEN label[r] ELSE steps[r][1], label[r]>>

\* FullyLLMServerClient.generate sends the request again.
Resumes(r) ==
  /\ reason[r] = "aborted"
  /\ Partial
  /\ CallerLimit # NoLimit => Len(merged[r]) + Len(chunk[r]) < CallerLimit

\* The answer reaches the client: its server is released, its tokens are merged.
Merge(r) ==
  /\ pc[r] = "returned"
  /\ merged' = [merged EXCEPT ![r] = @ \o chunk[r]]
  /\ chunk' = [chunk EXCEPT ![r] = <<>>]
  /\ steps' = [steps EXCEPT ![r] = StepsAfter(r)]
  /\ release' = [release EXCEPT ![r] = at[r]]
  /\ at' = [at EXCEPT ![r] = 0]
  /\ pc' = [pc EXCEPT ![r] = IF Resumes(r) THEN "ready" ELSE "done"]
  /\ UNCHANGED <<reason, label, inflight, recent, route, serverVars, managerVars>>

-----------------------------------------------------------------------------
(* update_weights. *)

BeginUpdate ==
  /\ phase = "idle"
  /\ target < MaxUpdates
  /\ target' = target + 1
  /\ phase' = "abort"
  /\ stage' = [s \in Server |-> "todo"]
  /\ UNCHANGED <<failures, clientVars, balancerVars, serverVars>>

Running(s) == {r \in Request : pc[r] = "running" /\ at[r] = s}

\* abort_all_requests: the running requests come back with what they have.
Abort(s) ==
  /\ phase = "abort"
  /\ stage[s] = "todo"
  /\ stage' = [stage EXCEPT ![s] = "over"]
  /\ Return(Running(s), "aborted")
  /\ paused' = IF Pausing THEN paused \cup {s} ELSE paused
  /\ UNCHANGED <<at, merged, chunk, steps, balancerVars, weights, named, phase, target, failures>>

\* abort_all_requests logs an exception and returns.
AbortRaises(s) ==
  /\ phase = "abort"
  /\ stage[s] = "todo"
  /\ failures < MaxFailures
  /\ failures' = failures + 1
  /\ stage' = [stage EXCEPT ![s] = "over"]
  /\ UNCHANGED <<clientVars, balancerVars, serverVars, phase, target>>

\* A replica receives weights bucket by bucket, then is told their version.
LoadBegin(s) ==
  /\ phase = "load"
  /\ stage[s] = "todo"
  /\ stage' = [stage EXCEPT ![s] = "loading"]
  /\ weights' = [weights EXCEPT ![s] = Mixed]
  /\ UNCHANGED <<clientVars, balancerVars, named, paused, phase, target, failures>>

LoadEnd(s) ==
  /\ phase = "load"
  /\ stage[s] = "loading"
  /\ stage' = [stage EXCEPT ![s] = "loaded"]
  /\ weights' = [weights EXCEPT ![s] = target]
  /\ UNCHANGED <<clientVars, balancerVars, named, paused, phase, target, failures>>

SetGlobalSteps(s) ==
  /\ phase = "load"
  /\ stage[s] = "loaded"
  /\ stage' = [stage EXCEPT ![s] = "over"]
  /\ named' = [named EXCEPT ![s] = target]
  /\ UNCHANGED <<clientVars, balancerVars, weights, paused, phase, target, failures>>

\* Mutant: resume_generation does nothing, as it does for engines that do not pause.
UnpausedNot(s) == paused

Unpaused(s) == paused \ {s}

Resume(s) ==
  /\ phase = "resume"
  /\ stage[s] = "todo"
  /\ stage' = [stage EXCEPT ![s] = "over"]
  /\ paused' = Unpaused(s)
  /\ UNCHANGED <<clientVars, balancerVars, weights, named, phase, target, failures>>

\* asyncio.gather and ray.get wait for every replica.
Gathered == \A s \in Server : stage[s] = "over"

NextPhase ==
  /\ phase # "idle"
  /\ Gathered
  /\ phase' = CASE phase = "abort" -> "load" [] phase = "load" -> "resume" [] OTHER -> "idle"
  /\ stage' = [s \in Server |-> IF phase = "resume" THEN "over" ELSE "todo"]
  /\ UNCHANGED <<target, failures, clientVars, balancerVars, serverVars>>

-----------------------------------------------------------------------------
RequestStep(r) == Acquire(r) \/ Release(r) \/ Start(r) \/ Sample(r) \/ Merge(r)

ServerStep(s) ==
  Abort(s) \/ AbortRaises(s) \/ LoadBegin(s) \/ LoadEnd(s) \/ SetGlobalSteps(s) \/ Resume(s)

Next ==
  \/ \E r \in Request : RequestStep(r)
  \/ \E s \in Server : ServerStep(s)
  \/ BeginUpdate
  \/ NextPhase

Spec == Init /\ [][Next]_vars

\* The engines sample, calls arrive and are answered, the manager goes on with an update.
LiveSpec ==
  /\ Spec
  /\ \A r \in Request : WF_vars(RequestStep(r))
  /\ \A s \in Server : WF_vars(ServerStep(s))
  /\ WF_vars(NextPhase)
-----------------------------------------------------------------------------
(* Properties. *)

TypeOK ==
  /\ pc \in [Request -> {"ready", "routed", "running", "returned", "done"}]
  /\ at \in [Request -> 0 .. NumServers]
  /\ merged \in [Request -> Seq(Int)]
  /\ chunk \in [Request -> Seq(Int)]
  /\ reason \in [Request -> {"aborted", "completed"}]
  /\ label \in [Request -> Nat]
  /\ steps \in [Request -> Int \X Int]
  /\ inflight \in [Server -> Nat]
  /\ release \in [Request -> 0 .. NumServers]
  /\ recent \in Seq(Request)
  /\ route \in [Request -> 0 .. NumServers]
  /\ weights \in [Server -> Int]
  /\ named \in [Server -> Nat]
  /\ paused \subseteq Server
  /\ phase \in {"idle", "abort", "load", "resume"}
  /\ stage \in [Server -> {"todo", "loading", "loaded", "over"}]
  /\ target \in Nat
  /\ failures \in Nat

\* The load balancer's count of a server is what it has been given and has not been told to
\* release, the releases on their way included: it never drops below zero, where release_server
\* raises, and it returns to zero, whatever is aborted, resent or evicted from the routing table.
CountsExact ==
  \A s \in Server :
    inflight[s] = Cardinality({r \in Request : at[r] = s})
                  + Cardinality({r \in Request : release[r] = s})

TotalLimit == IF CallerLimit = NoLimit THEN Slack + ResponseLength ELSE CallerLimit

\* All attempts of a request together stay within its limit, and an attempt that is sent can
\* still add a token: the engine refuses a request with none left.
RoomLeft ==
  \A r \in Request :
    /\ Len(merged[r]) + Len(chunk[r]) <= TotalLimit
    /\ pc[r] \in {"ready", "routed", "running"} => Len(merged[r]) + Len(chunk[r]) < TotalLimit

\* min_global_steps and max_global_steps, which the trainer uses for the staleness of a sample,
\* enclose the versions that sampled its tokens, and the last token is of the maximum.
LabelsCover ==
  \A r \in Request :
    /\ \A i \in 1 .. Len(merged[r]) : steps[r][1] <= merged[r][i] /\ merged[r][i] <= steps[r][2]
    /\ pc[r] = "done" => merged[r][Len(merged[r])] = steps[r][2]

\* No token comes from weights that are part old and part new.
NoMixedWeights ==
  \A r \in Request : \A i \in 1 .. Len(chunk[r]) : chunk[r][i] # Mixed

\* Without partial rollout a weight update waits for the requests that run.
WaitsForTasks == \A r \in Request : pc[r] = "done" => reason[r] = "completed"

\* Every request is answered in the end, however often it is aborted.
Answered == \A r \in Request : <>(pc[r] = "done")

GVersion == IF phase \in {"abort", "load"} THEN target - 1 ELSE target
GText == [r \in Request |-> merged[r] \o chunk[r]]
GEnded == {r \in Request : pc[r] = "done" \/ (pc[r] = "returned" /\ reason[r] = "completed")}

G == INSTANCE Generation WITH version <- GVersion, text <- GText, ended <- GEnded

\* Interruptions are invisible to the agent loop: requests, servers and updates implement
\* Generation, in which a request is never interrupted and always sampled by the newest weights.
Uninterrupted == G!GSpec
=============================================================================
