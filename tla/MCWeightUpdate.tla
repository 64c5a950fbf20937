--------------------------- MODULE MCWeightUpdate ---------------------------
(***************************************************************************)
(* TLC instances of what happens when the trainer has new weights: the     *)
(* requests that live through the update (PartialRollout, with two weight  *)
(* updates), requests with a token limit of their own and an abort that    *)
(* raises (Limited), the chain of ranks that the weights pass (Chain) and  *)
(* their way through two kinds of buckets (Packing).  The four share no    *)
(* state; a behaviour is a behaviour of the one that part names, and the   *)
(* others stay in their initial states.                                    *)
(***************************************************************************)
EXTENDS PartialRollout

CONSTANTS
  r1, r2,
  \* of Limited
  OwnLimit, OwnCacheSize, OwnUpdates, OwnFailures,
  \* of Chain
  LastRank, NumBuckets,
  \* of Packing
  Numels, Items, BucketSize, IpcSize, MaxWeights

Two == {r1, r2}

VARIABLES
  part,  \* the instance that takes the steps: requests, limited, chain, packing
  \* of Limited
  limPc, limAt, limMerged, limChunk, limReason, limLabel, limSteps, limInflight, limRelease,
  limRecent, limRoute, limWeights, limNamed, limPaused, limPhase, limStage, limTarget, limFailures,
  \* of Chain
  rankPc, front, buf, current, coming, mail, offered, xfer, seen, from, delivered,
  \* of Packing
  tensors, cut, bucket, offset, closed, arrived, mergeOffset, ipc, ipcOffset, loaded, over

limVars == <<limPc, limAt, limMerged, limChunk, limReason, limLabel, limSteps, limInflight,
             limRelease, limRecent, limRoute, limWeights, limNamed, limPaused, limPhase, limStage,
             limTarget, limFailures>>
chainVars == <<rankPc, front, buf, current, coming, mail, offered, xfer, seen, from, delivered>>
packVars == <<tensors, cut, bucket, offset, closed, arrived, mergeOffset, ipc, ipcOffset, loaded, over>>

Limited == INSTANCE PartialRollout WITH
  CallerLimit <- OwnLimit, CacheSize <- OwnCacheSize, MaxUpdates <- OwnUpdates,
  MaxFailures <- OwnFailures,
  pc <- limPc, at <- limAt, merged <- limMerged, chunk <- limChunk, reason <- limReason,
  label <- limLabel, steps <- limSteps, inflight <- limInflight, release <- limRelease,
  recent <- limRecent, route <- limRoute, weights <- limWeights, named <- limNamed,
  paused <- limPaused, phase <- limPhase, stage <- limStage, target <- limTarget,
  failures <- limFailures

Chain == INSTANCE WeightPipeline WITH Last <- LastRank, Buckets <- NumBuckets, pc <- rankPc

Packing == INSTANCE WeightBuckets WITH weights <- tensors, merged <- mergeOffset

ASSUME MCWeightUpdateAssumption ==
  Limited!PartialRolloutAssumption /\ Chain!WeightPipelineAssumption /\ Packing!WeightBucketsAssumption

MCVars == <<part, vars, limVars, chainVars, packVars>>

MCInit ==
  /\ part \in {"requests", "limited", "chain", "packing"}
  /\ Init /\ Limited!Init /\ Chain!Init /\ Packing!Init

Requests == Next /\ UNCHANGED <<limVars, chainVars, packVars>>
LimitedRequests == Limited!Next /\ UNCHANGED <<vars, chainVars, packVars>>
Ranks == Chain!Next /\ UNCHANGED <<vars, limVars, packVars>>
Weights == Packing!Next /\ UNCHANGED <<vars, limVars, chainVars>>

MCNext ==
  /\ UNCHANGED part
  /\ \/ part = "requests" /\ Requests
     \/ part = "limited" /\ LimitedRequests
     \/ part = "chain" /\ Ranks
     \/ part = "packing" /\ Weights

\* The fairness of LiveSpec of each module, for the one that takes the steps.
MCSpec ==
  /\ MCInit
  /\ [][MCNext]_MCVars
  /\ \A r \in Request :
       /\ WF_vars(part = "requests" /\ RequestStep(r))
       /\ WF_limVars(part = "limited" /\ Limited!RequestStep(r))
  /\ \A s \in Server :
       /\ WF_vars(part = "requests" /\ ServerStep(s))
       /\ WF_limVars(part = "limited" /\ Limited!ServerStep(s))
  /\ WF_vars(part = "requests" /\ NextPhase)
  /\ WF_limVars(part = "limited" /\ Limited!NextPhase)
  /\ WF_chainVars(part = "chain" /\ (Chain!Fill \/ Chain!Filled \/ Chain!Send \/ Chain!Sent))
  /\ \A n \in 1 .. LastRank : WF_chainVars(part = "chain" /\ Chain!ReceiverStep(n))

-----------------------------------------------------------------------------
(* What the runs check of the instances. *)

\* The load balancer counts each attempt at its server once, until it is released; all attempts of
\* a request stay within its limit together, the caller's max_tokens or the model's length, and one
\* that is sent can still add a token.
AttemptsKept ==
  /\ TypeOK /\ CountsExact /\ RoomLeft
  /\ Limited!TypeOK /\ Limited!CountsExact /\ Limited!RoomLeft

\* Every inference server is given the buckets in order, each one whole: no rank writes to a buffer
\* that the next one may read, and none is more than three buckets ahead of the next.
ChainSound == Chain!TypeOK /\ Chain!InOrder /\ Chain!OffersStand /\ Chain!Depth

\* The engine is given every weight once, in order, and nothing stays behind: the chunks of a
\* bucket lie side by side, and a chunk continues the weight that is being merged.
WeightsLoaded ==
  Packing!TypeOK /\ Packing!BucketSound /\ Packing!MergeSound /\ Packing!InOrder /\ Packing!AllLoaded

\* Every request is answered, whatever is aborted and although an abort may raise, and all weights
\* arrive at every rank of the chain.
AllAnswered ==
  /\ part = "requests" => Answered
  /\ part = "limited" => Limited!Answered
  /\ part = "chain" => Chain!Arrives
=============================================================================
