----------------------------- MODULE MCRequests -----------------------------
(***************************************************************************)
(* TLC instances of what a prompt goes through: a conversation with tools  *)
(* (Talk), "turning" with limits on its turns and "growing" with none but  *)
(* its length, the rate limited computation of rewards (Limited) and the   *)
(* replay buffer that collects the sessions of a batch (ReplayBuffer).     *)
(* The variable part names the one that takes the steps of a behaviour;    *)
(* the two conversations share their variables.                            *)
(***************************************************************************)
EXTENDS ReplayBuffer

CONSTANTS
  w1, r1, r2, r3, p1, p2,
  PromptLength, MaxPrompt, MaxAssistantTurns, MaxParallelCalls, MaxCalls, MaxToolTokens,
  ResponseLengths, UserTurns, Updates,  (* of each conversation *)
  Worker, Request, Home, Cost, Rate, MaxTokens, MaxConcurrent, Timeout, Threads, Window

Talks == {"turning", "growing"}

\* The values of an instance.
SomeLengths == [turning |-> 7, growing |-> 6]
SomeTurns == [turning |-> 2, growing |-> 0]
SomeUpdates == [turning |-> 2, growing |-> 0]
TwoSteps == <<1, 2>>
OneWorker == [r \in Request |-> w1]
MixedCosts == [r \in Request |-> IF r = r1 THEN 3 ELSE IF r = r2 THEN 2 ELSE 1]

VARIABLES
  part,
  \* of the conversations
  loop, promptIds, mask, logprobs, user, assistant, steps, version, used, toolCall, instances, row,
  \* of Limited
  coroutine, tokens, age, state, timer, call, credit, recent

loopVars == <<loop, promptIds, mask, logprobs, user, assistant, steps, version, used, toolCall,
              instances, row>>
rewardVars == <<coroutine, tokens, age, state, timer, call, credit, recent>>

Talk(p) == INSTANCE ToolAgentLoop WITH
  ResponseLength <- ResponseLengths[p], MaxUserTurns <- UserTurns[p], MaxUpdates <- Updates[p],
  Cuts <- FALSE, state <- loop, tokens <- promptIds, call <- toolCall

Limited == INSTANCE RateLimitedReward

ASSUME MCRequestsAssumption ==
  /\ \A p \in Talks : Talk(p)!ToolAgentLoopAssumption
  /\ Limited!RateLimitedAssumption

MCInit ==
  /\ part \in {"reward", "turning", "growing", "buffer"}
  /\ Limited!Init /\ Talk("turning")!Init /\ Init
  /\ part # "reward" => coroutine

MCNext ==
  /\ UNCHANGED part
  /\ \/ part = "reward" /\ Limited!Next /\ UNCHANGED <<loopVars, vars>>
     \/ part = "turning" /\ Talk("turning")!Next /\ UNCHANGED <<rewardVars, vars>>
     \/ part = "growing" /\ Talk("growing")!Next /\ UNCHANGED <<rewardVars, vars>>
     \/ part = "buffer" /\ Next /\ UNCHANGED <<rewardVars, loopVars>>

\* The fairness of each module, for the one that takes the steps.
MCSpec ==
  /\ MCInit
  /\ [][MCNext]_<<part, rewardVars, loopVars, vars>>
  /\ WF_rewardVars(part = "reward" /\ Limited!Tick)
  /\ \A r \in Request : SF_rewardVars(part = "reward" /\ Limited!Progress(r))
  /\ WF_loopVars(part = "growing" /\ Talk("growing")!Loop)
  /\ \A c \in 1 .. MaxParallelCalls : WF_loopVars(part = "growing" /\ Talk("growing")!CallTool(c))
  /\ WF_vars(part = "buffer" /\ Trainer)
  /\ WF_vars(part = "buffer" /\ List)
  /\ WF_vars(part = "buffer" /\ Add)
  /\ \A o \in Outputs : WF_vars(part = "buffer" /\ Run(o))
  /\ \A u \in Uids : WF_vars(part = "buffer" /\ Report(u))

-----------------------------------------------------------------------------
(* What is checked of the conversations and of the buffer. *)

\* Whatever small and large requests wait for the bucket at the same time, those it has let go never
\* cost more than it held and was refilled; and no worker has more than max_concurrent calls of a
\* reward function open that is a coroutine, whose call ends when it times out.
WithinLimits ==
  part = "reward" => Limited!TypeOK /\ Limited!WithinRate /\ Limited!SimultaneousCalls

\* The limits of turns hold, the turns that are reported are those of the tokens, and the versions
\* recorded for a conversation enclose those that wrote its answers.
Reported ==
  /\ Talk("turning")!TypeOK /\ Talk("turning")!StepsCover
  /\ part = "turning" => Talk("turning")!Turns

\* No tool instance outlives the turn that made it.
ToolsReleased == Talk("turning")!ToolsReleased

\* Tokens, mask and log probabilities of a row agree, wherever it was cut; its score is on a token
\* that the model wrote, and its response holds no part of the prompt.
RowSound ==
  part = "growing" =>
    /\ Talk("growing")!Aligned
    /\ Talk("growing")!ScoreCounts
    /\ Talk("growing")!NoPromptInResponse

\* Every request for a reward is answered, however long a reward function takes, unless functions
\* that are not coroutines hang in all threads of the worker; every conversation ends, by its length
\* if by nothing else; every batch is sampled from the buffer in the end, whichever sessions fail.
AllEnd ==
  /\ part = "reward" => Limited!Answered
  /\ part = "growing" => Talk("growing")!Ends
  /\ part = "buffer" => Completes
=============================================================================
