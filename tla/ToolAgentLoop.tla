---------------------------- MODULE ToolAgentLoop ----------------------------
(***************************************************************************)
(* One conversation of ToolAgentLoop (experimental/agent_loop): the model  *)
(* answers, its tool calls run in parallel, their results are appended to  *)
(* the prompt, and so on until a limit is reached or no tool is called.    *)
(* AgentLoopWorker then cuts and pads it into the rows of a batch.         *)
(*                                                                         *)
(* A token is its origin; log probabilities are Real for a token that the  *)
(* engine sampled and Zero where the loop fills in 0.0.                    *)
(***************************************************************************)
EXTENDS Integers, Sequences, FiniteSets

CONSTANTS
  PromptLength, ResponseLength,  (* rollout.prompt_length, rollout.response_length *)
  MaxPrompt,         (* longest prompt, at most PromptLength: overlong ones are filtered *)
  MaxAssistantTurns, (* 0 is no limit, as in the code *)
  MaxUserTurns,
  MaxParallelCalls,
  MaxCalls,          (* tool calls in an answer: a bound of the model *)
  MaxToolTokens,     (* tokens of the results of a turn: a bound of the model *)
  MaxUpdates,        (* weight updates: a bound of the model *)
  Cuts               (* answers may come back aborted, without partial rollout *)

ToolAgentLoopAssumption ==
  /\ PromptLength \in Nat \ {0} /\ ResponseLength \in Nat \ {0}
  /\ MaxPrompt \in 1 .. PromptLength
  /\ MaxAssistantTurns \in Nat /\ MaxUserTurns \in Nat
  /\ MaxParallelCalls \in Nat \ {0} /\ MaxCalls \in Nat
  /\ MaxToolTokens \in Nat \ {0} /\ MaxUpdates \in Nat
  /\ Cuts \in BOOLEAN

VARIABLES
  state,        (* pending, generating, tools, terminated, failed; output when the row is made *)
  tokens,       (* prompt_ids *)
  mask,         (* response_mask *)
  logprobs,     (* response_logprobs *)
  user, assistant,  (* user_turns, assistant_turns *)
  steps,        (* min_global_steps and max_global_steps in extra_fields, <<>> before the first *)
  version,      (* of the weights of the engine *)
  used,         (* versions that have answered *)
  call,         (* of a tool call: none, new, open, closing, done, raised *)
  instances,    (* calls whose tool instance exists *)
  row           (* what AgentLoopWorker makes of the conversation, <<>> before *)

vars == <<state, tokens, mask, logprobs, user, assistant, steps, version, used, call, instances, row>>

Calls == 1 .. MaxParallelCalls
NoCalls == [c \in Calls |-> "none"]

Repeat(x, n) == [i \in 1 .. n |-> x]

Init ==
  /\ state = "pending"
  /\ tokens = <<>> /\ mask = <<>> /\ logprobs = <<>>
  /\ user = 0 /\ assistant = 0
  /\ steps = <<>> /\ version = 0 /\ used = {}
  /\ call = NoCalls /\ instances = {}
  /\ row = <<>>

\* _handle_pending_state
Pending ==
  /\ state = "pending"
  /\ \E n \in 1 .. MaxPrompt : tokens' = Repeat("prompt", n)
  /\ state' = "generating"
  /\ UNCHANGED <<mask, logprobs, user, assistant, steps, version, used, call, instances, row>>

\* The inference servers get new weights.
Update ==
  /\ version < MaxUpdates
  /\ version' = version + 1
  /\ UNCHANGED <<state, tokens, mask, logprobs, user, assistant, steps, used, call, instances, row>>

-----------------------------------------------------------------------------
\* The server's limit for an answer (vllm_async_server.py); one answer may take several attempts,
\* see PartialRollout, which together may use all of it.
Room == PromptLength + ResponseLength - Len(tokens)

\* Mutant: only the first answer's versions are kept.
StepsOfFirst == IF steps = <<>> THEN <<version, version>> ELSE steps

\* extra_fields: the first answer's, then max_global_steps of the later ones if it is truthy.
StepsOfAnswer ==
  IF steps = <<>> THEN <<version, version>>
  ELSE IF version = 0 THEN steps ELSE <<steps[1], version>>

\* An answer of n tokens is the last one.
LimitReached(n) ==
  \/ Len(mask) + n >= ResponseLength
  \/ MaxAssistantTurns # 0 /\ assistant + 1 >= MaxAssistantTurns
  \/ MaxUserTurns # 0 /\ user >= MaxUserTurns

\* _handle_generating_state.  The engine samples one token at least, unless it was aborted.
Generate ==
  /\ state = "generating"
  /\ \E n \in (IF Cuts THEN 0 ELSE 1) .. Room, k \in 0 .. MaxCalls :
       /\ tokens' = tokens \o Repeat("model", n)
       /\ mask' = mask \o Repeat(1, n)
       /\ logprobs' = logprobs \o Repeat("Real", n)
       /\ n = 0 => k = 0
       /\ state' = IF LimitReached(n) \/ k = 0 THEN "terminated" ELSE "tools"
       /\ call' = [c \in Calls |-> IF state' = "tools" /\ c <= k THEN "new" ELSE "none"]
  /\ steps' = StepsOfAnswer
  /\ used' = used \cup {version}
  /\ assistant' = assistant + 1
  /\ UNCHANGED <<user, version, instances, row>>

-----------------------------------------------------------------------------
Step(c, from, to) ==
  /\ call[c] = from
  /\ call' = [call EXCEPT ![c] = to]
  /\ UNCHANGED <<state, tokens, mask, logprobs, user, assistant, steps, version, used, row>>

\* The name is unknown, the arguments are no JSON, or create raises: a message is the result.
Reject(c) ==
  /\ Step(c, "new", "done")
  /\ UNCHANGED instances

Create(c) ==
  /\ Step(c, "new", "open")
  /\ instances' = instances \cup {c}

\* Mutant: the instance is not released when execute raises.
AfterExecuteLeaky == {"closing", "done"}

\* execute returns or raises; the instance is released in both cases.
AfterExecute == {"closing"}

Execute(c) ==
  /\ \E to \in AfterExecute : Step(c, "open", to)
  /\ UNCHANGED instances

Release(c) ==
  /\ Step(c, "closing", "done")
  /\ instances' = instances \ {c}

\* An exception of release is not caught.
ReleaseRaises(c) ==
  /\ Step(c, "closing", "raised")
  /\ UNCHANGED instances

CallTool(c) == Reject(c) \/ Create(c) \/ Execute(c) \/ Release(c) \/ ReleaseRaises(c)

\* asyncio.gather ends with the first exception, while the other calls go on; when all have returned,
\* a result may be a video, or an image that no processor is there for.
Raise ==
  /\ state = "tools"
  /\ \/ \E c \in Calls : call[c] = "raised"
     \/ \A c \in Calls : call[c] \in {"none", "done"}
  /\ state' = "failed"
  /\ UNCHANGED <<tokens, mask, logprobs, user, assistant, steps, version, used, call, instances, row>>

ResultsFit(n) == Len(mask) + n < ResponseLength

\* The rest of _handle_processing_tools_state, for results of text or of images.
Results ==
  /\ state = "tools"
  /\ \A c \in Calls : call[c] \in {"none", "done"}
  /\ call' = NoCalls
  /\ \E n \in 1 .. MaxToolTokens :
       IF ResultsFit(n)
         THEN /\ tokens' = tokens \o Repeat("tool", n)
              /\ mask' = mask \o Repeat(0, n)
              /\ logprobs' = IF logprobs = <<>> THEN <<>> ELSE logprobs \o Repeat("Zero", n)
              /\ user' = user + 1
              /\ state' = "generating"
         ELSE /\ state' = "terminated"
              /\ UNCHANGED <<tokens, mask, logprobs, user>>
  /\ UNCHANGED <<assistant, steps, version, used, instances, row>>

-----------------------------------------------------------------------------
Shorter(s) == SubSeq(s, 1, IF Len(s) < ResponseLength THEN Len(s) ELSE ResponseLength)

\* prompt_ids[-len(response_mask):], which is all of prompt_ids if the mask is empty.
LastTokens(n) == IF n = 0 THEN tokens ELSE SubSeq(tokens, Len(tokens) - n + 1, Len(tokens))

\* Mutant: the minus sign of the slice is missing.
ResponseUnsigned(n) == Shorter(SubSeq(tokens, n + 1, Len(tokens)))

ResponseOf(n) == Shorter(LastTokens(n))

Padded(s, x) == s \o Repeat(x, ResponseLength - Len(s))

\* AgentLoopOutput and its padding by _agent_loop_postprocess.
RowOf ==
  [prompt |-> SubSeq(tokens, 1, Len(tokens) - Len(mask)),
   response |-> Padded(ResponseOf(Len(mask)), "pad"),
   mask |-> Padded(Shorter(mask), 0),
   logprobs |-> IF logprobs = <<>> THEN "None" ELSE Padded(Shorter(logprobs), "Zero")]

Output ==
  /\ state = "terminated"
  /\ row' = RowOf
  /\ state' = "output"
  /\ UNCHANGED <<tokens, mask, logprobs, user, assistant, steps, version, used, call, instances>>

Loop == Pending \/ Generate \/ Raise \/ Results \/ Output

Next == Loop \/ Update \/ \E c \in Calls : CallTool(c)

Spec == Init /\ [][Next]_vars

\* Engine, tools and the coroutine of the conversation go on.
LiveSpec == /\ Spec
            /\ WF_vars(Loop)
            /\ \A c \in Calls : WF_vars(CallTool(c))

-----------------------------------------------------------------------------
TypeOK ==
  /\ state \in {"pending", "generating", "tools", "terminated", "failed", "output"}
  /\ tokens \in Seq({"prompt", "model", "tool"})
  /\ mask \in Seq({0, 1})
  /\ logprobs \in Seq({"Real", "Zero"})
  /\ user \in Nat /\ assistant \in Nat
  /\ steps \in {<<>>} \cup (Nat \X Nat)
  /\ version \in Nat /\ used \subseteq Nat
  /\ call \in [Calls -> {"none", "new", "open", "closing", "done", "raised"}]
  /\ instances \subseteq Calls

\* A row's columns say the same of every token: the mask is 1 and the log probability a sampled one
\* exactly where the model wrote the token, whatever was cut off at the response length.
Aligned ==
  state = "output" =>
    /\ Len(row.response) = ResponseLength /\ Len(row.mask) = ResponseLength
    /\ Len(row.logprobs) = ResponseLength
    /\ \A i \in 1 .. ResponseLength :
         /\ row.mask[i] = 1 <=> row.response[i] = "model"
         /\ row.logprobs[i] = "Real" <=> row.response[i] = "model"
    /\ \A i \in 1 .. Len(row.prompt) : row.prompt[i] = "prompt"

\* _postprocess puts the score on the last token that is not padding, index -1 being the last one.
ScoreAt ==
  LET n == Cardinality({i \in 1 .. ResponseLength : row.response[i] # "pad"})
  IN  IF n = 0 THEN ResponseLength ELSE n

\* The reward of the conversation lands on a token that the model wrote: elsewhere the mask would
\* take it out of the advantages.
ScoreCounts == state = "output" => row.mask[ScoreAt] = 1

\* responses holds answers of the model and results of tools, as the docstring of generate_sequences
\* says, and never a part of the prompt.
NoPromptInResponse ==
  state = "output" => \A i \in 1 .. ResponseLength : row.response[i] # "prompt"

\* The limits of turns hold, and the turns reported (user + assistant + 1) are those of the tokens.
Turns ==
  /\ MaxAssistantTurns # 0 => assistant <= MaxAssistantTurns
  /\ MaxUserTurns # 0 => user <= MaxUserTurns
  /\ Len(tokens) > 0 =>
       Cardinality({i \in 2 .. Len(tokens) : tokens[i] # tokens[i - 1]}) = user + assistant

\* The versions recorded for a conversation enclose those that wrote its answers.
StepsCover ==
  used # {} => /\ \A v \in used : steps[1] <= v /\ v <= steps[2]
               /\ steps[2] \in used

\* No tool instance outlives the turn that made it, whatever its calls raise.
ToolsReleased == state \in {"generating", "terminated", "output"} => instances = {}

\* A conversation ends: every turn uses up some of the response length.
Ends == <>(state \in {"output", "failed"})
=============================================================================
