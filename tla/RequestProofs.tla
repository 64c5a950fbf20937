------------------------- MODULE RequestProofs -------------------------
(***************************************************************************)
(* Proofs about what a prompt goes through (MCRequests).                   *)
(*                                                                         *)
(* The replay buffer of the synchronous trainer, for every number of       *)
(* batches, prompts and sessions, and every interleaving of the sessions,  *)
(* the poll thread and the trainer: a batch is sampled when all its        *)
(* prompts have reported (NotBefore), it holds the whole group of each     *)
(* that finished (WholeGroups), and nothing of a finished prompt stays in  *)
(* the transfer queue (LeftBehind).  If every batch has a step of its own, *)
(* as in training, it holds nothing else (OnlyOwnKeys).  The invariant     *)
(* behind it relates the three places a tag can be: what the thread has    *)
(* listed and what it has added are never ahead of the transfer queue, and *)
(* the tag of a finished prompt is nowhere without the outputs of its      *)
(* sessions that the transfer queue still holds (Faithful).                *)
(*                                                                         *)
(* A conversation with tools, for every length, limit of turns, number of  *)
(* calls and of updates: turns and versions are reported as they were      *)
(* (Reported), no tool instance is left over (ToolsReleased), and the row  *)
(* says the same of every token in each of its columns, wherever it was    *)
(* cut (RowSound).  The invariant behind it keeps tokens, mask and log     *)
(* probabilities matched from the first answer on (Matching), and has      *)
(* prompt, answers and results take turns (Alternating): so a conversation *)
(* ends with an answer, and what reaches beyond the response length is     *)
(* part of one.                                                            *)
(*                                                                         *)
(* The rate limited rewards, for every number of requests and workers, any *)
(* costs, rate and size of the bucket: what was served never cost more     *)
(* than the rate allows (RateKept), and with reward functions that are     *)
(* coroutines no more calls are open than the semaphore admits             *)
(* (LimitsHold).  What a large request owes is taken from the bucket       *)
(* before it sleeps and served after; the invariant behind it says that    *)
(* the bucket has the time to earn what its sleepers owe (Covered).        *)
(***************************************************************************)
EXTENDS MCRequests, SequenceTheorems, FiniteSetTheorems, NaturalsInduction, WellFoundedInduction,
        TLAPS

PromptOf(o) == <<o[1], o[2], 0>>

\* Batches not begun, batches that may have been sampled, and batches whose
\* outputs were removed from the transfer queue.
Future(b) == b > batch \/ (b = batch /\ pc = "generate")
Sampled(b) == b < batch \/ (b = batch /\ pc \in {"use", "remove", "done"})
Cleared(b) == b < batch \/ (b = batch /\ pc \in {"remove", "done"})

NotBegun == \A o \in Outputs : Future(o[1]) => session[o] = "none"

\* What the transfer queue says of sessions and prompts.
Queue ==
  /\ \A o \in Outputs : o \in DOMAIN tq => tq[o] = "success" /\ session[o] = "ended"
  /\ \A u \in Uids : u \in DOMAIN tq =>
       /\ tq[u] \in {"finished", "failure"}
       /\ tq[u] = "finished" => \A o \in SessionsOf(u) : session[o] = "ended"
       /\ tq[u] = "failure" => \E o \in SessionsOf(u) : session[o] = "failed"

\* What a copy of its tags says of the transfer queue.
Faithful(f) ==
  /\ \A o \in Outputs : o \in DOMAIN f => f[o] = "success" /\ session[o] = "ended"
  /\ \A u \in Uids : u \in DOMAIN f /\ f[u] # "running" =>
       /\ u \in DOMAIN tq /\ f[u] = tq[u]
       /\ f[u] = "finished" => \A o \in SessionsOf(u) : o \in DOMAIN tq => o \in DOMAIN f

\* The prompts of a batch are in the replay buffer once it has begun.
Marked == \A u \in Uids : ~Future(u[1]) => u \in DOMAIN partition

AllReported == \A u \in Uids : Sampled(u[1]) => u \in DOMAIN tq

OnlyFailed ==
  \A o \in Outputs : o \in DOMAIN tq /\ Cleared(o[1]) => tq[PromptOf(o)] = "failure"

\* What was removed from the transfer queue is not put there again.
Gone ==
  /\ pc \in {"use", "remove"} => \A o \in keys : session[o] = "ended"
  /\ pc = "remove" => \A o \in keys : o \notin DOMAIN tq

\* Every batch has a step of its own.
OwnSteps == \A a, b \in Batches : Steps[a] = Steps[b] => a = b

Own ==
  /\ pc \in {"use", "remove"} => \A o \in keys : o[1] = batch
  /\ pc = "use" => \A o \in keys : o \in DOMAIN tq
  /\ \A o \in Outputs : ~Cleared(o[1]) /\ o \in DOMAIN partition \cup DOMAIN listing
       => o \in DOMAIN tq

IInv ==
  /\ TypeOK /\ NotBegun /\ Queue /\ Faithful(listing) /\ Faithful(partition)
  /\ Marked /\ AllReported /\ WholeGroups /\ OnlyFailed /\ Gone
  /\ OwnSteps => Own

----------------------------------------------------------------------------
(* Keys of the buffer.                                                     *)

LEMMA BatchNumbers == Len(Steps) \in Nat /\ Len(Steps) >= 1 /\ Batches = 1 .. Len(Steps)
  BY StepsAssumption DEF Batches

LEMMA Keys ==
  /\ \A o \in Outputs :
       /\ PromptOf(o) \in Uids /\ PromptOf(o)[1] = o[1] /\ o \in SessionsOf(PromptOf(o))
       /\ o \notin Uids /\ o[1] \in Int
  /\ \A u \in Uids :
       /\ u \notin Outputs /\ u[1] \in Int
       /\ \A o \in SessionsOf(u) : o \in Outputs /\ o[1] = u[1] /\ PromptOf(o) = u
       /\ \E o \in Outputs : o \in SessionsOf(u)
  <1>1. \A b \in Batches : b \in Int
    BY BatchNumbers
  <1>2. \A s \in Sessions : s # 0
    BY NAssumption DEF Sessions
  <1>3. 1 \in Sessions
    BY NAssumption DEF Sessions
  <1>. HIDE DEF Batches, Sessions
  <1>4. ASSUME NEW o \in Outputs
        PROVE  /\ PromptOf(o) \in Uids /\ PromptOf(o)[1] = o[1] /\ o \in SessionsOf(PromptOf(o))
               /\ o \notin Uids /\ o[1] \in Int
    <2>1. PICK b \in Batches, p \in Prompts, s \in Sessions : o = <<b, p, s>>
      BY DEF Outputs
    <2>2. PromptOf(o) = <<b, p, 0>>
      BY <2>1 DEF PromptOf
    <2>3. o \in SessionsOf(<<b, p, 0>>)
      BY <2>1 DEF SessionsOf
    <2>4. o \notin Uids
      BY <1>2, <2>1 DEF Uids
    <2>. QED
      BY <1>1, <2>1, <2>2, <2>3, <2>4 DEF Uids
  <1>5. ASSUME NEW u \in Uids
        PROVE  /\ u \notin Outputs /\ u[1] \in Int
               /\ \A o \in SessionsOf(u) : o \in Outputs /\ o[1] = u[1] /\ PromptOf(o) = u
               /\ \E o \in Outputs : o \in SessionsOf(u)
    <2>1. PICK b \in Batches, p \in Prompts : u = <<b, p, 0>>
      BY DEF Uids
    <2>2. u \notin Outputs
      BY <1>2, <2>1 DEF Outputs
    <2>3. \A s \in Sessions :
            <<b, p, s>> \in Outputs /\ <<b, p, s>>[1] = u[1] /\ PromptOf(<<b, p, s>>) = u
      BY <2>1 DEF Outputs, PromptOf
    <2>4. SessionsOf(u) = {<<b, p, s>> : s \in Sessions}
      BY <2>1 DEF SessionsOf
    <2>. QED
      BY <1>1, <1>3, <2>1, <2>2, <2>3, <2>4
  <1>. QED
    BY <1>4, <1>5

LEMMA Initially == Init => IInv
  <1>. SUFFICES ASSUME Init PROVE IInv
    OBVIOUS
  <1>. USE DEF Init, NoKeys
  <1>1. TypeOK
    BY BatchNumbers DEF TypeOK
  <1>2. NotBegun /\ Queue /\ Faithful(listing) /\ Faithful(partition) /\ WholeGroups /\ OnlyFailed
        /\ Gone
    BY DEF NotBegun, Queue, Faithful, WholeGroups, OnlyFailed, Gone
  <1>3. \A u \in Uids : u[1] \in 1 .. Len(Steps) /\ u[1] \in Int
    BY Keys, BatchNumbers DEF Uids
  <1>4. Marked /\ AllReported
    BY <1>3, BatchNumbers DEF Marked, AllReported, Future, Sampled
  <1>5. Own
    BY DEF Own
  <1>. QED
    BY <1>1, <1>2, <1>4, <1>5 DEF IInv

----------------------------------------------------------------------------
(* The steps.  The types and the rest of the invariant are separate.       *)

LEMMA TypesKept == IInv /\ [Next]_vars => TypeOK'
  <1>. SUFFICES ASSUME IInv, TypeOK, [Next]_vars PROVE TypeOK'
    BY DEF IInv
  <1>. DEFINE Tags(f) ==
         DOMAIN f \subseteq Uids \cup Outputs /\ \A key \in DOMAIN f : f[key] \in Statuses
  <1>0. Tags(partition) /\ Tags(tq) /\ Tags(listing)
    BY DEF TypeOK
  <1>. USE DEF Statuses
  <1>1. ASSUME NEW f, Tags(f), NEW S \in SUBSET (Uids \cup Outputs), NEW status \in Statuses
        PROVE  Tags(Put(f, S, status))
    BY <1>1 DEF Put
  <1>2. ASSUME NEW f, Tags(f), NEW S PROVE Tags(Without(f, S))
    BY <1>2 DEF Without
  <1>3. ASSUME NEW f, Tags(f), NEW g, Tags(g) PROVE Tags(Updated(f, g))
    BY <1>3 DEF Updated
  <1>4. Tags(NoKeys)
    BY DEF NoKeys
  <1>5. ASSUME Tags(partition'), Tags(tq'), Tags(listing'), batch' \in Batches,
               pc' \in {"generate", "sample", "use", "remove", "done"}, keys' \subseteq Outputs,
               session' \in [Outputs -> {"none", "running", "ended", "failed"}]
        PROVE  TypeOK'
    BY <1>5 DEF TypeOK
  <1>. HIDE DEF Tags
  <1>6. CASE Generate
    <2>1. Tags(partition')
      BY <1>0, <1>1, <1>6 DEF Generate
    <2>. QED
      BY <1>0, <1>5, <1>6, <2>1 DEF Generate, TypeOK
  <1>7. CASE Sample
    <2>1. keys' \subseteq Outputs
      <3>1. \A u \in Uids : u \in DOMAIN partition => partition[u] # "success"
        BY DEF IInv, Faithful, Queue
      <3>2. DOMAIN partition \subseteq Uids \cup Outputs
        BY DEF TypeOK
      <3>. QED
        BY <1>7, <3>1, <3>2 DEF Sample, OfStep
    <2>. QED
      BY <1>0, <1>5, <1>7, <2>1 DEF Sample, TypeOK
  <1>8. CASE Clear
    <2>1. Tags(tq')
      BY <1>0, <1>2, <1>8 DEF Clear
    <2>. QED
      BY <1>0, <1>5, <1>8, <2>1 DEF Clear, TypeOK
  <1>9. CASE Remove
    <2>1. Tags(partition')
      BY <1>0, <1>2, <1>9 DEF Remove
    <2>2. batch' \in Batches
      BY <1>9, BatchNumbers DEF Remove, TypeOK
    <2>. QED
      BY <1>0, <1>5, <1>9, <2>1, <2>2 DEF Remove, TypeOK
  <1>10. CASE List
    BY <1>0, <1>5, <1>10 DEF List, TypeOK
  <1>11. CASE Add
    <2>1. Tags(partition')
      BY <1>0, <1>3, <1>11 DEF Add
    <2>. QED
      BY <1>0, <1>4, <1>5, <1>11, <2>1 DEF Add, TypeOK
  <1>12. ASSUME NEW o \in Outputs, EndSession(o) PROVE TypeOK'
    <2>1. Tags(tq')
      BY <1>0, <1>1, <1>12 DEF EndSession
    <2>2. session' \in [Outputs -> {"none", "running", "ended", "failed"}]
      BY <1>12 DEF EndSession, TypeOK
    <2>. QED
      BY <1>0, <1>5, <1>12, <2>1, <2>2 DEF EndSession, TypeOK
  <1>13. ASSUME NEW o \in Outputs, FailSession(o) PROVE TypeOK'
    <2>1. session' \in [Outputs -> {"none", "running", "ended", "failed"}]
      BY <1>13 DEF FailSession, TypeOK
    <2>. QED
      BY <1>0, <1>5, <1>13, <2>1 DEF FailSession, TypeOK
  <1>14. ASSUME NEW u \in Uids, Report(u) PROVE TypeOK'
    <2>1. Tags(tq')
      BY <1>0, <1>1, <1>14 DEF Report, FinishPrompt, FailPrompt
    <2>. QED
      BY <1>0, <1>5, <1>14, <2>1 DEF Report, FinishPrompt, FailPrompt, TypeOK
  <1>15. CASE UNCHANGED vars
    BY <1>0, <1>5, <1>15 DEF vars, TypeOK
  <1>. QED
    BY <1>6, <1>7, <1>8, <1>9, <1>10, <1>11, <1>12, <1>13, <1>14, <1>15
    DEF Next, Trainer, Poll, Run

\* The prompts of a new batch are marked, its sessions run.
LEMMA GenerateKeeps == IInv /\ Generate => IInv'
  <1>. SUFFICES ASSUME IInv, Generate PROVE IInv'
    OBVIOUS
  <1>. USE DEF IInv, Generate
  <1>1. TypeOK' /\ batch \in Int /\ batch' = batch /\ pc = "generate" /\ pc' = "sample"
        /\ UNCHANGED <<keys, tq, listing>>
    BY TypesKept, BatchNumbers DEF Next, Trainer, TypeOK
  <1>2. /\ DOMAIN partition' = DOMAIN partition \cup {u \in Uids : u[1] = batch}
        /\ \A key \in DOMAIN partition' :
             partition'[key] = IF key \in Uids /\ key[1] = batch THEN "running" ELSE partition[key]
    BY DEF Put
  <1>3. \A o \in Outputs : session'[o] = IF o[1] = batch THEN "running" ELSE session[o]
    OBVIOUS
  <1>4. NotBegun'
    BY <1>1, <1>3, Keys DEF NotBegun, Future
  <1>11. \A o \in Outputs : session[o] # "none" => session'[o] = session[o]
    BY <1>1, <1>3, Keys DEF NotBegun, Future
  <1>5. Queue'
    <2>2. \A o \in Outputs : o \in DOMAIN tq => tq[o] = "success" /\ session'[o] = "ended"
      BY <1>11 DEF Queue
    <2>3. ASSUME NEW u \in Uids, u \in DOMAIN tq
          PROVE  /\ tq[u] = "finished" => \A o \in SessionsOf(u) : session'[o] = "ended"
                 /\ tq[u] = "failure" => \E o \in SessionsOf(u) : session'[o] = "failed"
      BY <1>11, <2>3, Keys DEF Queue
    <2>. QED
      BY <1>1, <2>2, <2>3 DEF Queue
  <1>6. Faithful(listing)'
    BY <1>1, <1>11 DEF Faithful
  <1>7. Faithful(partition)'
    <2>1. ASSUME NEW o \in Outputs, o \in DOMAIN partition'
          PROVE  partition'[o] = "success" /\ session'[o] = "ended"
      <3>1. o \in DOMAIN partition /\ partition'[o] = partition[o]
        BY <1>2, <2>1, Keys
      <3>2. partition[o] = "success" /\ session[o] = "ended"
        BY <3>1 DEF Faithful
      <3>. QED
        BY <1>11, <3>1, <3>2
    <2>2. ASSUME NEW u \in Uids, u \in DOMAIN partition', partition'[u] # "running"
          PROVE  /\ u \in DOMAIN tq' /\ partition'[u] = tq'[u]
                 /\ partition'[u] = "finished" =>
                      \A o \in SessionsOf(u) : o \in DOMAIN tq' => o \in DOMAIN partition'
      <3>1. u \in DOMAIN partition /\ partition'[u] = partition[u]
        BY <1>2, <2>2
      <3>2. /\ u \in DOMAIN tq /\ partition[u] = tq[u]
            /\ partition[u] = "finished" =>
                 \A o \in SessionsOf(u) : o \in DOMAIN tq => o \in DOMAIN partition
        BY <2>2, <3>1 DEF Faithful
      <3>. QED
        BY <1>1, <1>2, <3>1, <3>2
    <2>. QED
      BY <2>1, <2>2 DEF Faithful
  <1>8. Marked'
    BY <1>1, <1>2, Keys DEF Marked, Future
  <1>9. AllReported' /\ WholeGroups' /\ OnlyFailed' /\ Gone'
    BY <1>1, Keys DEF AllReported, WholeGroups, OnlyFailed, Sampled, Cleared, Gone
  <1>10. OwnSteps => Own'
    BY <1>1, <1>2, Keys DEF Own, Cleared
  <1>. QED
    BY <1>1, <1>4, <1>5, <1>6, <1>7, <1>8, <1>9, <1>10

\* The batch is taken.
LEMMA SampleKeeps == IInv /\ Sample => IInv'
  <1>. SUFFICES ASSUME IInv, Sample PROVE IInv'
    OBVIOUS
  <1>. USE DEF IInv, Sample
  <1>1. TypeOK' /\ batch \in Batches /\ batch \in Int /\ pc = "sample" /\ pc' = "use"
        /\ UNCHANGED <<batch, partition, tq, listing, session>>
    BY TypesKept, BatchNumbers DEF Next, Trainer, TypeOK
  <1>2. NotBegun' /\ Queue' /\ Faithful(listing)' /\ Faithful(partition)' /\ Marked'
    BY <1>1 DEF NotBegun, Queue, Faithful, Marked, Future
  <1>3. \A u \in Uids : u[1] = batch =>
          u \in OfStep /\ partition[u] # "running" /\ u \in DOMAIN tq /\ partition[u] = tq[u]
    BY <1>1 DEF Marked, Future, Faithful, OfStep, StepOf
  <1>4. AllReported'
    BY <1>1, <1>3 DEF AllReported, Sampled
  <1>5. WholeGroups'
    <2>. SUFFICES ASSUME NEW u \in Uids, u[1] = batch, u \in DOMAIN tq, tq[u] = "finished",
                         NEW o \in SessionsOf(u), o \in DOMAIN tq
                  PROVE  o \in keys'
      BY <1>1 DEF WholeGroups
    <2>1. partition[u] = "finished" /\ u \in DOMAIN partition
      BY <1>3 DEF OfStep
    <2>2. o \in DOMAIN partition /\ partition[o] = "success"
      BY <2>1, Keys DEF Faithful
    <2>3. o[1] = batch
      BY Keys
    <2>. QED
      BY <2>2, <2>3 DEF OfStep, StepOf
  <1>6. OnlyFailed' /\ Gone'
    <2>1. keys' \subseteq Outputs /\ keys' \subseteq DOMAIN partition
      BY <1>1 DEF TypeOK, OfStep
    <2>. QED
      BY <1>1, <2>1 DEF OnlyFailed, Cleared, Gone, Faithful
  <1>7. OwnSteps => Own'
    <2>1. keys' \subseteq Outputs
      BY <1>1 DEF TypeOK
    <2>2. ASSUME OwnSteps, NEW o \in keys' PROVE o[1] = batch
      <3>1. o[1] \in Batches
        BY <2>1 DEF Outputs
      <3>. QED
        BY <1>1, <2>2, <3>1 DEF OwnSteps, OfStep, StepOf
    <2>3. ASSUME OwnSteps, NEW o \in keys' PROVE o \in DOMAIN tq
      <3>1. o \in Outputs /\ o \in DOMAIN partition
        BY <2>1 DEF OfStep
      <3>2. o[1] = batch
        BY <2>2, <2>3
      <3>. QED
        BY <1>1, <2>3, <3>1, <3>2 DEF Own, Cleared
    <2>. QED
      BY <1>1, <2>2, <2>3 DEF Own, Cleared
  <1>. QED
    BY <1>1, <1>2, <1>4, <1>5, <1>6, <1>7

\* Its outputs leave the transfer queue.
LEMMA ClearKeeps == IInv /\ Clear => IInv'
  <1>. SUFFICES ASSUME IInv, Clear PROVE IInv'
    OBVIOUS
  <1>. USE DEF IInv, Clear
  <1>1. TypeOK' /\ batch \in Int /\ pc = "use" /\ pc' = "remove" /\ keys \subseteq Outputs
        /\ UNCHANGED <<batch, partition, keys, listing, session>>
    BY TypesKept, BatchNumbers DEF Next, Trainer, TypeOK
  <1>2. DOMAIN tq' = DOMAIN tq \ keys /\ \A key \in DOMAIN tq' : tq'[key] = tq[key]
    BY DEF Without
  <1>3. \A u \in Uids : u \in DOMAIN tq => u \in DOMAIN tq' /\ tq'[u] = tq[u]
    BY <1>1, <1>2, Keys
  <1>4. NotBegun' /\ Marked' /\ AllReported'
    BY <1>1, <1>3 DEF NotBegun, Marked, AllReported, Future, Sampled
  <1>5. Queue'
    BY <1>1, <1>2 DEF Queue
  <1>6. Faithful(listing)' /\ Faithful(partition)'
    BY <1>1, <1>2, <1>3 DEF Faithful
  <1>7. WholeGroups' /\ Gone'
    BY <1>1, <1>2 DEF WholeGroups, Gone
  <1>8. OnlyFailed'
    <2>. SUFFICES ASSUME NEW o \in Outputs, o \in DOMAIN tq', Cleared(o[1])'
                  PROVE  tq'[PromptOf(o)] = "failure"
      BY DEF OnlyFailed
    <2>. DEFINE u == PromptOf(o)
    <2>1. u \in Uids /\ u[1] = o[1] /\ o \in SessionsOf(u) /\ o \in DOMAIN tq /\ o \notin keys
      BY <1>2, Keys
    <2>2. CASE Cleared(o[1])
      <3>1. tq[u] = "failure" /\ u \in DOMAIN tq
        BY <1>1, <2>1, <2>2 DEF OnlyFailed, AllReported, Sampled, Cleared
      <3>. QED
        BY <1>3, <2>1, <3>1
    <2>3. CASE ~Cleared(o[1])
      <3>1. o[1] = batch
        BY <1>1, <2>3 DEF Cleared
      <3>2. u \in DOMAIN tq /\ tq[u] \in {"finished", "failure"}
        BY <1>1, <2>1, <3>1 DEF AllReported, Sampled, Queue
      <3>3. tq[u] # "finished"
        BY <1>1, <2>1, <3>1, <3>2 DEF WholeGroups
      <3>. QED
        BY <1>3, <2>1, <3>2, <3>3
    <2>. QED
      BY <2>2, <2>3
  <1>9. OwnSteps => Own'
    BY <1>1, <1>2 DEF Own, Cleared
  <1>. QED
    BY <1>1, <1>4, <1>5, <1>6, <1>7, <1>8, <1>9

\* And the replay buffer; the next batch begins.
LEMMA RemoveKeeps == IInv /\ Remove => IInv'
  <1>. SUFFICES ASSUME IInv, Remove PROVE IInv'
    OBVIOUS
  <1>. USE DEF IInv, Remove
  <1>1. TypeOK' /\ batch \in Int /\ pc = "remove" /\ keys \subseteq Outputs
        /\ UNCHANGED <<keys, tq, listing, session>>
        /\ \/ batch' = batch + 1 /\ pc' = "generate"
           \/ batch' = batch /\ pc' = "done"
    BY TypesKept, BatchNumbers DEF Next, Trainer, TypeOK
  <1>2. DOMAIN partition' = DOMAIN partition \ keys
        /\ \A key \in DOMAIN partition' : partition'[key] = partition[key]
    BY DEF Without
  <1>3. \A b \in Int :
          /\ Future(b)' => Future(b)
          /\ ~Future(b)' => ~Future(b)
          /\ Sampled(b)' => Sampled(b)
          /\ Cleared(b)' <=> Cleared(b)
    BY <1>1 DEF Future, Sampled, Cleared
  <1>4. NotBegun' /\ AllReported' /\ OnlyFailed'
    BY <1>1, <1>3, Keys DEF NotBegun, AllReported, OnlyFailed
  <1>5. Queue' /\ WholeGroups' /\ Gone'
    BY <1>1 DEF Queue, WholeGroups, Gone
  <1>6. Faithful(listing)'
    BY <1>1 DEF Faithful
  <1>7. Marked'
    BY <1>1, <1>2, <1>3, Keys DEF Marked
  <1>8. OwnSteps => Own'
    BY <1>1, <1>2, <1>3, Keys DEF Own
  <1>9. Faithful(partition)'
    BY <1>1, <1>2, Keys DEF Faithful, Gone
  <1>. QED
    BY <1>1, <1>4, <1>5, <1>6, <1>7, <1>8, <1>9

\* An output reaches the transfer queue.
LEMMA EndSessionKeeps == ASSUME IInv, NEW e \in Outputs, EndSession(e) PROVE IInv'
  <1>. USE DEF IInv, EndSession
  <1>0. TypeOK'
    <2>1. Run(e)
      BY DEF Run
    <2>2. Next
      BY <2>1 DEF Next
    <2>. QED
      BY <2>2, TypesKept
  <1>1. TypeOK' /\ batch \in Int /\ UNCHANGED <<batch, pc, partition, keys, listing>>
    BY <1>0, BatchNumbers DEF TypeOK
  <1>2. session[e] = "running"
        /\ \A o \in Outputs : session'[o] = IF o = e THEN "ended" ELSE session[o]
    BY DEF TypeOK
  <1>3. /\ DOMAIN tq \subseteq DOMAIN tq' /\ DOMAIN tq' \subseteq DOMAIN tq \cup {e}
        /\ \A key \in DOMAIN tq' :
             tq'[key] = IF key \in DOMAIN tq /\ key # e THEN tq[key] ELSE "success"
    BY <1>2 DEF Put, Queue
  <1>4. \A u \in Uids : /\ u \in DOMAIN tq' <=> u \in DOMAIN tq
                        /\ u \in DOMAIN tq => tq'[u] = tq[u]
    BY <1>3, Keys
  <1>5. \A u \in Uids : u \in DOMAIN tq /\ tq[u] = "finished" => e \notin SessionsOf(u)
    BY <1>2 DEF Queue
  <1>6. NotBegun'
    BY <1>1, <1>2 DEF NotBegun, Future
  <1>7. Queue'
    <2>1. \A o \in Outputs : o \in DOMAIN tq' => tq'[o] = "success" /\ session'[o] = "ended"
      BY <1>2, <1>3 DEF Queue
    <2>2. ASSUME NEW u \in Uids, u \in DOMAIN tq
          PROVE  /\ tq[u] = "finished" => \A o \in SessionsOf(u) : session'[o] = "ended"
                 /\ tq[u] = "failure" => \E o \in SessionsOf(u) : session'[o] = "failed"
      BY <1>2, <2>2, Keys DEF Queue
    <2>. QED
      BY <1>4, <2>1, <2>2 DEF Queue
  <1>8. Faithful(listing)' /\ Faithful(partition)'
    BY <1>1, <1>2, <1>3, <1>4, <1>5, Keys DEF Faithful
  <1>9. Marked' /\ AllReported'
    BY <1>1, <1>4 DEF Marked, AllReported, Future, Sampled
  <1>10. WholeGroups'
    BY <1>1, <1>3, <1>4, <1>5 DEF WholeGroups
  <1>11. OnlyFailed'
    <2>. SUFFICES ASSUME NEW o \in Outputs, o \in DOMAIN tq', Cleared(o[1])'
                  PROVE  tq'[PromptOf(o)] = "failure"
      BY DEF OnlyFailed
    <2>. DEFINE u == PromptOf(o)
    <2>1. u \in Uids /\ u[1] = o[1] /\ o \in SessionsOf(u) /\ Cleared(o[1])
      BY <1>1, Keys DEF Cleared
    <2>2. u \in DOMAIN tq /\ tq[u] \in {"finished", "failure"}
      BY <2>1 DEF AllReported, Sampled, Cleared, Queue
    <2>3. tq[u] = "failure"
      BY <1>3, <1>5, <2>1, <2>2 DEF OnlyFailed
    <2>. QED
      BY <1>4, <2>1, <2>2, <2>3
  <1>12. Gone'
    BY <1>1, <1>2, <1>3 DEF Gone, TypeOK
  <1>13. OwnSteps => Own'
    BY <1>1, <1>3 DEF Own, Cleared
  <1>. QED
    BY <1>1, <1>6, <1>7, <1>8, <1>9, <1>10, <1>11, <1>12, <1>13

LEMMA FailSessionKeeps == ASSUME IInv, NEW e \in Outputs, FailSession(e) PROVE IInv'
  <1>. USE DEF IInv, FailSession
  <1>1. TypeOK' /\ UNCHANGED <<batch, pc, partition, keys, tq, listing>>
    BY TypesKept DEF Next, Run
  <1>2. session[e] = "running"
        /\ \A o \in Outputs : session'[o] = IF o = e THEN "failed" ELSE session[o]
    BY DEF TypeOK
  <1>3. NotBegun' /\ Marked' /\ AllReported' /\ WholeGroups' /\ OnlyFailed'
    BY <1>1, <1>2
    DEF NotBegun, Marked, AllReported, WholeGroups, OnlyFailed, Future, Sampled, Cleared
  <1>4. Queue'
    <2>1. ASSUME NEW u \in Uids, u \in DOMAIN tq
          PROVE  /\ tq[u] = "finished" => \A o \in SessionsOf(u) : session'[o] = "ended"
                 /\ tq[u] = "failure" => \E o \in SessionsOf(u) : session'[o] = "failed"
      BY <1>2, <2>1, Keys DEF Queue
    <2>. QED
      BY <1>1, <1>2, <2>1 DEF Queue
  <1>5. Faithful(listing)' /\ Faithful(partition)'
    BY <1>1, <1>2 DEF Faithful
  <1>6. Gone' /\ (OwnSteps => Own')
    BY <1>1, <1>2 DEF Gone, Own, Cleared, TypeOK
  <1>. QED
    BY <1>1, <1>3, <1>4, <1>5, <1>6

\* A prompt reports.
LEMMA ReportKeeps == ASSUME IInv, NEW p \in Uids, Report(p) PROVE IInv'
  <1>. USE DEF IInv
  <1>0. TypeOK'
    <2>1. Next
      BY DEF Next
    <2>. QED
      BY <2>1, TypesKept
  <1>1. TypeOK' /\ batch \in Int /\ UNCHANGED <<batch, pc, partition, keys, listing, session>>
        /\ p \notin DOMAIN tq
    BY <1>0, BatchNumbers DEF Report, FinishPrompt, FailPrompt, TypeOK
  <1>2. PICK how \in {"finished", "failure"} :
          /\ tq' = Put(tq, {p}, how)
          /\ how = "finished" => \A o \in SessionsOf(p) : session[o] = "ended"
          /\ how = "failure" => \E o \in SessionsOf(p) : session[o] = "failed"
    BY DEF Report, FinishPrompt, FailPrompt
  <1>3. /\ DOMAIN tq' = DOMAIN tq \cup {p} /\ tq'[p] = how
        /\ \A key \in DOMAIN tq : tq'[key] = tq[key]
    BY <1>1, <1>2 DEF Put
  <1>4. \A o \in Outputs : o \in DOMAIN tq' <=> o \in DOMAIN tq
    BY <1>3, Keys
  <1>5. NotBegun' /\ Marked' /\ AllReported'
    BY <1>1, <1>3 DEF NotBegun, Marked, AllReported, Future, Sampled
  <1>6. Queue'
    BY <1>1, <1>2, <1>3, <1>4 DEF Queue
  <1>7. Faithful(listing)' /\ Faithful(partition)'
    BY <1>1, <1>3, <1>4, Keys DEF Faithful
  <1>8. WholeGroups'
    BY <1>1, <1>3, <1>4, Keys DEF WholeGroups, AllReported, Sampled
  <1>9. OnlyFailed'
    <2>. SUFFICES ASSUME NEW o \in Outputs, o \in DOMAIN tq', Cleared(o[1])'
                  PROVE  tq'[PromptOf(o)] = "failure"
      BY DEF OnlyFailed
    <2>1. PromptOf(o) \in DOMAIN tq /\ Cleared(o[1]) /\ o \in DOMAIN tq
      BY <1>1, <1>4, Keys DEF AllReported, Sampled, Cleared
    <2>. QED
      BY <1>3, <2>1 DEF OnlyFailed
  <1>10. Gone' /\ (OwnSteps => Own')
    BY <1>1, <1>3, <1>4, Keys DEF Gone, Own, Cleared, TypeOK
  <1>. QED
    BY <1>1, <1>5, <1>6, <1>7, <1>8, <1>9, <1>10

\* The thread lists the transfer queue ...
LEMMA ListKeeps == IInv /\ List => IInv'
  <1>. SUFFICES ASSUME IInv, List PROVE IInv'
    OBVIOUS
  <1>. USE DEF IInv, List
  <1>1. TypeOK' /\ UNCHANGED <<batch, pc, partition, keys, tq, session>> /\ listing' = tq
    BY TypesKept DEF Next, Poll
  <1>2. Faithful(listing)'
    BY <1>1, Keys DEF Faithful, Queue
  <1>3. NotBegun' /\ Queue' /\ Faithful(partition)' /\ Marked' /\ AllReported' /\ WholeGroups'
        /\ OnlyFailed' /\ Gone'
    BY <1>1
    DEF NotBegun, Queue, Faithful, Marked, AllReported, WholeGroups, OnlyFailed, Gone, Future,
        Sampled, Cleared
  <1>4. OwnSteps => Own'
    BY <1>1 DEF Own, Cleared
  <1>. QED
    BY <1>1, <1>2, <1>3, <1>4

\* ... and adds what it has listed, which may no longer be there.
LEMMA AddKeeps == IInv /\ Add => IInv'
  <1>. SUFFICES ASSUME IInv, Add PROVE IInv'
    OBVIOUS
  <1>. USE DEF IInv, Add
  <1>1. TypeOK' /\ UNCHANGED <<batch, pc, keys, tq, session>> /\ DOMAIN listing' = {}
    BY TypesKept DEF Next, Poll, NoKeys
  <1>2. /\ DOMAIN partition' = DOMAIN partition \cup DOMAIN listing
        /\ \A key \in DOMAIN partition' :
             partition'[key] = IF key \in DOMAIN listing THEN listing[key] ELSE partition[key]
    BY DEF Updated
  <1>3. Faithful(listing)'
    BY <1>1 DEF Faithful
  <1>4. Faithful(partition)'
    BY <1>1, <1>2, Keys DEF Faithful
  <1>5. NotBegun' /\ Queue' /\ Marked' /\ AllReported' /\ WholeGroups' /\ OnlyFailed' /\ Gone'
    BY <1>1, <1>2
    DEF NotBegun, Queue, Marked, AllReported, WholeGroups, OnlyFailed, Gone, Future, Sampled,
        Cleared
  <1>6. OwnSteps => Own'
    BY <1>1, <1>2 DEF Own, Cleared
  <1>. QED
    BY <1>1, <1>3, <1>4, <1>5, <1>6

LEMMA StutterKeeps == IInv /\ UNCHANGED vars => IInv'
  <1>. SUFFICES ASSUME IInv, UNCHANGED vars PROVE IInv'
    OBVIOUS
  <1>1. UNCHANGED <<batch, pc, partition, keys, tq, listing, session>>
    BY DEF vars
  <1>2. TypeOK'
    BY TypesKept
  <1>3. NotBegun' /\ Queue' /\ Faithful(partition)' /\ Faithful(listing)' /\ Marked' /\ AllReported'
        /\ WholeGroups' /\ OnlyFailed' /\ Gone'
    BY <1>1
    DEF IInv, NotBegun, Queue, Faithful, Marked, AllReported, WholeGroups, OnlyFailed, Gone,
        Future, Sampled, Cleared
  <1>4. OwnSteps => Own'
    BY <1>1 DEF IInv, Own, Cleared
  <1>. QED
    BY <1>2, <1>3, <1>4 DEF IInv

THEOREM Inductive == Spec => []IInv
  <1>1. IInv /\ [Next]_vars => IInv'
    BY GenerateKeeps, SampleKeeps, ClearKeeps, RemoveKeeps, EndSessionKeeps, FailSessionKeeps,
       ReportKeeps, ListKeeps, AddKeeps, StutterKeeps
    DEF Next, Trainer, Poll, Run
  <1>. QED
    BY <1>1, Initially, PTL DEF Spec

\* The keys and their statuses keep their types; what is sampled are outputs.
THEOREM BufferTypes == Spec => []TypeOK
  <1>1. IInv => TypeOK
    BY DEF IInv
  <1>. QED
    BY <1>1, Inductive, PTL

\* sample returns only when every prompt of the batch has reported.
THEOREM SampledAfterReports == Spec => []NotBefore
  <1>1. IInv => NotBefore
    BY DEF IInv, AllReported, Sampled, NotBefore
  <1>. QED
    BY <1>1, Inductive, PTL

\* A group whose prompt finished is whole: none of its outputs is late.
THEOREM GroupsAreWhole == Spec => []WholeGroups
  <1>1. IInv => WholeGroups
    BY DEF IInv
  <1>. QED
    BY <1>1, Inductive, PTL

\* Of the batches that are over only outputs of failed prompts are left in the
\* transfer queue.
THEOREM OnlyFailedLeft == Spec => []LeftBehind
  <1>1. ASSUME IInv PROVE LeftBehind
    <2>1. \A o \in Outputs : o \in DOMAIN tq /\ o[1] < batch => tq[PromptOf(o)] = "failure"
      BY <1>1 DEF IInv, OnlyFailed, Cleared
    <2>. QED
      BY <2>1 DEF LeftBehind, PromptOf
  <1>. QED
    BY <1>1, Inductive, PTL

\* With a step of its own for every batch, a sampled batch holds only its own
\* outputs, and they are in the transfer queue.
THEOREM OnlyOwnOutputs == ASSUME OwnSteps PROVE Spec => []OnlyOwnKeys
  <1>1. IInv => OnlyOwnKeys
    <2>. SUFFICES ASSUME IInv, pc = "use", NEW o \in keys PROVE o[1] = batch /\ o \in DOMAIN tq
      BY DEF OnlyOwnKeys
    <2>1. o[1] = batch /\ o \in DOMAIN tq
      BY DEF IInv, Own
    <2>. QED
      BY <2>1
  <1>. QED
    BY <1>1, Inductive, PTL

-----------------------------------------------------------------------------
(* The conversations.                                                      *)

\* ToolAgentLoop counts with the operator of its own instance of FiniteSets.
LEMMA TalkCounting == \A p, S : Talk(p)!Cardinality(S) = Cardinality(S)
  BY DEF Talk!Cardinality, Cardinality

LEMMA TalkAssumed ==
  ASSUME NEW p \in Talks
  PROVE  Talk(p)!ToolAgentLoopAssumption
  BY MCRequestsAssumption

Origins == {"prompt", "model", "tool"}

\* What the mask says of a token.
BlockOf(x) == IF x = 1 THEN "model" ELSE "tool"
LogprobOf(x) == IF x = 1 THEN "Real" ELSE "Zero"

\* Tokens, mask and log probabilities say the same of each token that is not of the prompt, and
\* the results of tools end before the response length: what is cut there is part of an answer.
Matching(p, t, m, l) ==
  /\ t \in Seq({"prompt", "model", "tool"}) /\ m \in Seq({0, 1}) /\ l \in Seq({"Real", "Zero"})
  /\ Len(m) < Len(t) /\ Len(l) = Len(m)
  /\ \A i \in 1 .. (Len(t) - Len(m)) : t[i] = "prompt"
  /\ \A i \in 1 .. Len(m) :
       /\ t[Len(t) - Len(m) + i] = BlockOf(m[i])
       /\ l[i] = LogprobOf(m[i])
       /\ m[i] = 0 => i < ResponseLengths[p]

\* The places of a conversation where somebody else goes on.
Changes(t) == {i \in 2 .. Len(t) : t[i] # t[i - 1]}

Empty == promptIds = <<>> /\ mask = <<>> /\ logprobs = <<>>

\* Prompt, answers and results take turns, and the turns are counted.  The last token before an
\* answer is not the model's, the last one before the end of the conversation is.
Alternating(p) ==
  /\ loop = "pending" => Empty /\ user = 0 /\ assistant = 0
  /\ loop # "pending" =>
       /\ Matching(p, promptIds, mask, logprobs)
       /\ IsFiniteSet(Changes(promptIds)) /\ Cardinality(Changes(promptIds)) = user + assistant
  /\ loop = "generating" => Len(mask) < ResponseLengths[p] /\ promptIds[Len(promptIds)] # "model"
  /\ loop = "tools" => Len(mask) < ResponseLengths[p]
  /\ loop \in {"tools", "terminated", "failed", "output"} =>
       Len(mask) > 0 /\ mask[Len(mask)] = 1

\* How far the limits of turns are when there may be another one.
InLimits(p) ==
  /\ MaxAssistantTurns # 0 /\ loop \in {"pending", "generating", "tools"} =>
       assistant < MaxAssistantTurns
  /\ UserTurns[p] # 0 /\ loop = "tools" => user < UserTurns[p]
  /\ MaxAssistantTurns # 0 => assistant <= MaxAssistantTurns
  /\ UserTurns[p] # 0 => user <= UserTurns[p]

\* The versions that have answered, and those recorded of them.
Enclosed ==
  /\ \A v \in used : v <= version
  /\ used = {} <=> steps = <<>>
  /\ steps # <<>> => steps[1] <= steps[2] /\ steps[2] \in used
  /\ \A v \in used : steps[1] <= v /\ v <= steps[2]

\* No call is under way outside its turn, and an instance is one of a call that has not released it.
Held(p) ==
  /\ loop \in {"pending", "generating", "terminated", "output"} => toolCall = Talk(p)!NoCalls
  /\ \A c \in Talk(p)!Calls : c \in instances <=> toolCall[c] \in {"open", "closing", "raised"}

\* What is checked of a row.
Rowed(p) == Talk(p)!Aligned /\ Talk(p)!ScoreCounts /\ Talk(p)!NoPromptInResponse

TalkInv(p) == Talk(p)!TypeOK /\ Alternating(p) /\ InLimits(p) /\ Enclosed /\ Held(p) /\ Rowed(p)

\* r is s and n times x.
Longer(r, s, x, n) ==
  /\ Len(r) = Len(s) + n
  /\ \A i \in 1 .. (Len(s) + n) : r[i] = IF i <= Len(s) THEN s[i] ELSE x

\* T, M and L are tokens, mask and log probabilities with a block of n tokens more.
ExtendedBy(p, t, m, T, M, L, x, n) ==
  /\ Matching(p, T, M, L)
  /\ Len(M) = Len(m) + n /\ M[Len(m) + n] = x
  /\ Len(T) = Len(t) + n /\ T[Len(t) + n] = BlockOf(x)

\* Sequences with a block more.
LEMMA Appended ==
  ASSUME NEW p \in Talks, NEW S, NEW s \in Seq(S), NEW x \in S, NEW n \in Nat
  PROVE  s \o Talk(p)!Repeat(x, n) \in Seq(S) /\ Longer(s \o Talk(p)!Repeat(x, n), s, x, n)
  <1>1. Talk(p)!Repeat(x, n) \in Seq(S) /\ Len(Talk(p)!Repeat(x, n)) = n
        /\ \A i \in 1 .. n : Talk(p)!Repeat(x, n)[i] = x
    BY DEF Talk!Repeat
  <1>. QED
    BY <1>1 DEF Longer

\* A block appended to a conversation keeps the three sequences matched.
LEMMA Extended ==
  ASSUME NEW p \in Talks, NEW t, NEW m, NEW l, Matching(p, t, m, l), NEW x \in {0, 1},
         NEW n \in Nat \ {0}, x = 1 \/ Len(m) + n < ResponseLengths[p]
  PROVE  ExtendedBy(p, t, m, t \o Talk(p)!Repeat(BlockOf(x), n), m \o Talk(p)!Repeat(x, n),
                    l \o Talk(p)!Repeat(LogprobOf(x), n), x, n)
  <1>. DEFINE T == t \o Talk(p)!Repeat(BlockOf(x), n)
              M == m \o Talk(p)!Repeat(x, n)
              L == l \o Talk(p)!Repeat(LogprobOf(x), n)
  <1>1. /\ t \in Seq(Origins) /\ m \in Seq({0, 1}) /\ l \in Seq({"Real", "Zero"})
        /\ Len(m) < Len(t) /\ Len(l) = Len(m)
        /\ \A i \in 1 .. (Len(t) - Len(m)) : t[i] = "prompt"
        /\ \A i \in 1 .. Len(m) :
             /\ t[Len(t) - Len(m) + i] = BlockOf(m[i])
             /\ l[i] = LogprobOf(m[i])
             /\ m[i] = 0 => i < ResponseLengths[p]
        /\ Len(t) \in Nat /\ Len(m) \in Nat
    BY DEF Matching, Origins
  <1>2. BlockOf(x) \in Origins /\ LogprobOf(x) \in {"Real", "Zero"}
    BY DEF BlockOf, LogprobOf, Origins
  <1>0. /\ T \in Seq(Origins) /\ Longer(T, t, BlockOf(x), n)
        /\ M \in Seq({0, 1}) /\ Longer(M, m, x, n)
        /\ L \in Seq({"Real", "Zero"}) /\ Longer(L, l, LogprobOf(x), n)
    <2>0. n \in Nat /\ t \in Seq(Origins) /\ m \in Seq({0, 1}) /\ l \in Seq({"Real", "Zero"})
      BY <1>1
    <2>1. T \in Seq(Origins) /\ Longer(T, t, BlockOf(x), n)
      BY <1>2, <2>0, Appended, Zenon
    <2>2. M \in Seq({0, 1}) /\ Longer(M, m, x, n)
      BY <2>0, Appended, Zenon
    <2>3. L \in Seq({"Real", "Zero"}) /\ Longer(L, l, LogprobOf(x), n)
      BY <1>2, <2>0, Appended, Zenon
    <2>. QED
      BY <2>1, <2>2, <2>3
  <1>. HIDE DEF T, M, L
  <1>3. /\ T \in Seq(Origins) /\ Len(T) = Len(t) + n
        /\ \A i \in 1 .. (Len(t) + n) : T[i] = IF i <= Len(t) THEN t[i] ELSE BlockOf(x)
    BY <1>0 DEF Longer
  <1>4. /\ M \in Seq({0, 1}) /\ Len(M) = Len(m) + n
        /\ \A i \in 1 .. (Len(m) + n) : M[i] = IF i <= Len(m) THEN m[i] ELSE x
    BY <1>1, <1>0 DEF Longer
  <1>5. /\ L \in Seq({"Real", "Zero"}) /\ Len(L) = Len(m) + n
        /\ \A i \in 1 .. (Len(m) + n) : L[i] = IF i <= Len(m) THEN l[i] ELSE LogprobOf(x)
    BY <1>1, <1>0 DEF Longer
  <1>6. Len(T) - Len(M) = Len(t) - Len(m) /\ Len(M) < Len(T)
    BY <1>1, <1>3, <1>4
  <1>7. ASSUME NEW i \in 1 .. (Len(T) - Len(M)) PROVE T[i] = "prompt"
    <2>1. i \in 1 .. (Len(t) - Len(m)) /\ i <= Len(t) /\ i \in 1 .. (Len(t) + n)
      BY <1>1, <1>6
    <2>. QED
      BY <1>1, <1>3, <2>1
  <1>8. ASSUME NEW i \in 1 .. Len(M)
        PROVE  /\ T[Len(T) - Len(M) + i] = BlockOf(M[i])
               /\ L[i] = LogprobOf(M[i])
               /\ M[i] = 0 => i < ResponseLengths[p]
    <2>1. CASE i <= Len(m)
      <3>0. i \in 1 .. Len(m) /\ i \in 1 .. (Len(m) + n)
            /\ Len(t) - Len(m) + i \in 1 .. (Len(t) + n) /\ Len(t) - Len(m) + i <= Len(t)
        BY <1>1, <1>4, <2>1
      <3>1. M[i] = m[i] /\ L[i] = l[i]
        BY <1>4, <1>5, <2>1, <3>0
      <3>2. T[Len(t) - Len(m) + i] = t[Len(t) - Len(m) + i]
        BY <1>3, <3>0
      <3>. QED
        BY <1>1, <1>6, <3>0, <3>1, <3>2
    <2>2. CASE ~(i <= Len(m))
      <3>1. M[i] = x /\ L[i] = LogprobOf(x) /\ i <= Len(m) + n
            /\ Len(t) - Len(m) + i \in 1 .. (Len(t) + n) /\ ~(Len(t) - Len(m) + i <= Len(t))
        BY <1>1, <1>4, <1>5, <2>2
      <3>2. T[Len(t) - Len(m) + i] = BlockOf(x)
        BY <1>3, <3>1
      <3>3. x = 0 => i < ResponseLengths[p]
        BY <1>1, <3>1, TalkAssumed DEF Talk!ToolAgentLoopAssumption
      <3>. QED
        BY <1>6, <3>1, <3>2, <3>3
    <2>. QED
      BY <2>1, <2>2
  <1>9. Matching(p, T, M, L)
    BY <1>3, <1>4, <1>5, <1>6, <1>7, <1>8 DEF Matching, Origins
  <1>10. M[Len(m) + n] = x /\ T[Len(t) + n] = BlockOf(x)
    <2>1. /\ Len(m) + n \in 1 .. (Len(m) + n) /\ ~(Len(m) + n <= Len(m))
          /\ Len(t) + n \in 1 .. (Len(t) + n) /\ ~(Len(t) + n <= Len(t))
      BY <1>1
    <2>. QED
      BY <1>3, <1>4, <2>1
  <1>. QED
    BY <1>3, <1>4, <1>9, <1>10 DEF T, M, L, ExtendedBy

\* A block of another origin than the last token is one more turn.
LEMMA OneMoreTurn ==
  ASSUME NEW p \in Talks, NEW t \in Seq(Origins), Len(t) > 0, NEW x \in Origins, t[Len(t)] # x,
         NEW n \in Nat \ {0}, IsFiniteSet(Changes(t))
  PROVE  /\ IsFiniteSet(Changes(t \o Talk(p)!Repeat(x, n)))
         /\ Cardinality(Changes(t \o Talk(p)!Repeat(x, n))) = Cardinality(Changes(t)) + 1
  <1>. DEFINE T == t \o Talk(p)!Repeat(x, n)
  <1>1. /\ T \in Seq(Origins) /\ Len(T) = Len(t) + n /\ Len(t) \in Nat
        /\ \A i \in 1 .. (Len(t) + n) : T[i] = IF i <= Len(t) THEN t[i] ELSE x
    <2>1. Len(t) \in Nat /\ n \in Nat
      OBVIOUS
    <2>2. T \in Seq(Origins) /\ Longer(T, t, x, n)
      BY <2>1, Appended, Zenon
    <2>. QED
      BY <2>1, <2>2 DEF Longer
  <1>. HIDE DEF T
  <1>2. ASSUME NEW i \in 2 .. Len(T) PROVE T[i] # T[i - 1] <=> i \in Changes(t) \cup {Len(t) + 1}
    <2>1. i \in 1 .. (Len(t) + n) /\ i - 1 \in 1 .. (Len(t) + n)
      BY <1>1
    <2>2. CASE i <= Len(t)
      <3>1. T[i] = t[i] /\ T[i - 1] = t[i - 1] /\ i \in 2 .. Len(t) /\ i # Len(t) + 1
        BY <1>1, <2>1, <2>2
      <3>. QED
        BY <3>1 DEF Changes
    <2>3. CASE i = Len(t) + 1
      BY <1>1, <2>1, <2>3
    <2>4. CASE i > Len(t) + 1
      <3>1. T[i] = x /\ T[i - 1] = x /\ i \notin 2 .. Len(t) /\ i # Len(t) + 1
        BY <1>1, <2>1, <2>4
      <3>. QED
        BY <3>1 DEF Changes
    <2>. QED
      BY <1>1, <2>2, <2>3, <2>4
  <1>3. Changes(t) \cup {Len(t) + 1} \subseteq 2 .. Len(T)
    BY <1>1 DEF Changes
  <1>4. Changes(T) = Changes(t) \cup {Len(t) + 1}
    BY <1>2, <1>3 DEF Changes
  <1>5. Len(t) + 1 \notin Changes(t)
    BY <1>1 DEF Changes
  <1>. QED
    BY <1>4, <1>5, FS_AddElement DEF T

\* The prompt alone is a conversation without turns.
LEMMA Prompted ==
  ASSUME NEW p \in Talks, NEW n \in 1 .. MaxPrompt
  PROVE  /\ Matching(p, Talk(p)!Repeat("prompt", n), <<>>, <<>>)
         /\ Changes(Talk(p)!Repeat("prompt", n)) = {}
         /\ Talk(p)!Repeat("prompt", n)[Len(Talk(p)!Repeat("prompt", n))] = "prompt"
  <1>. DEFINE T == Talk(p)!Repeat("prompt", n)
  <1>1. T \in Seq(Origins) /\ Len(T) = n /\ \A i \in 1 .. n : T[i] = "prompt"
    BY TalkAssumed DEF Talk!Repeat, Origins, Talk!ToolAgentLoopAssumption
  <1>. HIDE DEF T
  <1>2. n \in Nat \ {0}
    BY TalkAssumed DEF Talk!ToolAgentLoopAssumption
  <1>3. Matching(p, T, <<>>, <<>>)
    BY <1>1, <1>2 DEF Matching, Origins
  <1>4. ASSUME NEW i \in 2 .. Len(T) PROVE T[i] = T[i - 1]
    <2>1. i \in 1 .. n /\ i - 1 \in 1 .. n
      BY <1>1, <1>2
    <2>. QED
      BY <1>1, <2>1
  <1>5. Changes(T) = {}
    BY <1>4 DEF Changes
  <1>6. T[Len(T)] = "prompt"
    BY <1>1, <1>2
  <1>. QED
    BY <1>3, <1>5, <1>6 DEF T

-----------------------------------------------------------------------------
(* The steps of a conversation.                                            *)

LEMMA TalkInitially ==
  ASSUME NEW p \in Talks, Talk(p)!Init
  PROVE  TalkInv(p)
  <1>. USE DEF Talk!Init
  <1>1. Talk(p)!TypeOK
    BY DEF Talk!TypeOK, Talk!NoCalls
  <1>2. Alternating(p) /\ Held(p) /\ Rowed(p)
    BY DEF Alternating, Empty, Held, Talk!NoCalls, Rowed, Talk!Aligned, Talk!ScoreCounts,
       Talk!NoPromptInResponse
  <1>3. InLimits(p) /\ Enclosed
    BY TalkAssumed DEF InLimits, Enclosed, Talk!ToolAgentLoopAssumption
  <1>. QED
    BY <1>1, <1>2, <1>3 DEF TalkInv

\* The prompt is there.
LEMMA PendingKeeps ==
  ASSUME NEW p \in Talks, TalkInv(p), Talk(p)!Pending
  PROVE  TalkInv(p)'
  <1>. USE DEF TalkInv, Talk!Pending
  <1>1. /\ loop = "pending" /\ loop' = "generating"
        /\ UNCHANGED <<mask, logprobs, user, assistant, steps, version, used, toolCall, instances,
                      row>>
        /\ mask = <<>> /\ logprobs = <<>> /\ user = 0 /\ assistant = 0
    BY DEF Alternating, Empty
  <1>2. PICK n \in 1 .. MaxPrompt : promptIds' = Talk(p)!Repeat("prompt", n)
    OBVIOUS
  <1>3. Matching(p, promptIds', mask', logprobs') /\ Changes(promptIds') = {}
        /\ promptIds'[Len(promptIds')] = "prompt"
    BY <1>1, <1>2, Prompted
  <1>4. Talk(p)!TypeOK'
    BY <1>1, <1>3 DEF Talk!TypeOK, Matching
  <1>5. IsFiniteSet(Changes(promptIds')) /\ Cardinality(Changes(promptIds')) = user' + assistant'
    BY <1>1, <1>3, FS_EmptySet
  <1>6. Alternating(p)'
    BY <1>1, <1>3, <1>5, TalkAssumed DEF Alternating, Talk!ToolAgentLoopAssumption
  <1>7. InLimits(p)' /\ Enclosed'
    BY <1>1 DEF InLimits, Enclosed
  <1>8. Held(p)' /\ Rowed(p)'
    BY <1>1 DEF Held, Rowed, Talk!Aligned, Talk!ScoreCounts, Talk!NoPromptInResponse
  <1>. QED
    BY <1>4, <1>6, <1>7, <1>8

\* New weights change nothing that was recorded.
LEMMA NewWeightsKeep ==
  ASSUME NEW p \in Talks, TalkInv(p), Talk(p)!Update
  PROVE  TalkInv(p)'
  <1>. USE DEF TalkInv, Talk!Update
  <1>1. version \in Nat /\ used \subseteq Nat /\ version' = version + 1
        /\ UNCHANGED <<loop, promptIds, mask, logprobs, user, assistant, steps, used, toolCall,
                      instances, row>>
    BY DEF Talk!TypeOK
  <1>2. Talk(p)!TypeOK'
    BY <1>1 DEF Talk!TypeOK
  <1>3. Alternating(p)' /\ InLimits(p)' /\ Held(p)'
    BY <1>1 DEF Alternating, Empty, InLimits, Held
  <1>4. Enclosed'
    <2>1. \A v \in used : v <= version + 1
      BY <1>1 DEF Enclosed
    <2>. QED
      BY <1>1, <2>1 DEF Enclosed
  <1>5. Rowed(p)'
    BY <1>1 DEF Rowed, Talk!Aligned, Talk!ScoreCounts, Talk!ScoreAt, Talk!NoPromptInResponse
  <1>. QED
    BY <1>2, <1>3, <1>4, <1>5

\* An answer: one block, one turn of the model, one version.
LEMMA AnswerKeeps ==
  ASSUME NEW p \in Talks, TalkInv(p), Talk(p)!Generate
  PROVE  TalkInv(p)'
  <1>. USE DEF TalkInv
  <1>1. /\ loop = "generating" /\ loop' \in {"tools", "terminated"} /\ assistant' = assistant + 1
        /\ UNCHANGED <<user, version, instances, row>>
        /\ steps' = Talk(p)!StepsOfAnswer /\ used' = used \cup {version}
        /\ user \in Nat /\ assistant \in Nat /\ Len(mask) \in Nat /\ Len(promptIds) \in Nat
        /\ version \in Nat /\ used \subseteq Nat
    BY DEF Talk!Generate, Talk!TypeOK
  <1>2. PICK n \in 1 .. Talk(p)!Room, k \in 0 .. MaxCalls :
          /\ promptIds' = promptIds \o Talk(p)!Repeat("model", n)
          /\ mask' = mask \o Talk(p)!Repeat(1, n)
          /\ logprobs' = logprobs \o Talk(p)!Repeat("Real", n)
          /\ loop' = IF Talk(p)!LimitReached(n) \/ k = 0 THEN "terminated" ELSE "tools"
          /\ toolCall' =
               [c \in Talk(p)!Calls |-> IF loop' = "tools" /\ c <= k THEN "new" ELSE "none"]
    BY TalkAssumed DEF Talk!Generate
  <1>3. n \in Nat \ {0} /\ n > 0 /\ Talk(p)!Room \in Int
    <2>. HIDE DEF TalkInv
    <2>1. PromptLength \in Nat /\ ResponseLengths[p] \in Nat
      BY TalkAssumed DEF Talk!ToolAgentLoopAssumption
    <2>2. Talk(p)!Room \in Int
      BY <1>1, <2>1 DEF Talk!Room
    <2>. QED
      BY <2>2
  <1>4. Matching(p, promptIds, mask, logprobs) /\ promptIds[Len(promptIds)] # "model"
        /\ IsFiniteSet(Changes(promptIds)) /\ Cardinality(Changes(promptIds)) = user + assistant
    BY <1>1 DEF Alternating
  <1>5. Matching(p, promptIds', mask', logprobs') /\ Len(mask') = Len(mask) + n
        /\ mask'[Len(mask) + n] = 1
    <2>1. BlockOf(1) = "model" /\ LogprobOf(1) = "Real"
      BY DEF BlockOf, LogprobOf
    <2>2. 1 \in {0, 1}
      OBVIOUS
    <2>3. ExtendedBy(p, promptIds, mask, promptIds \o Talk(p)!Repeat(BlockOf(1), n),
                     mask \o Talk(p)!Repeat(1, n),
                     logprobs \o Talk(p)!Repeat(LogprobOf(1), n), 1, n)
      BY <1>3, <1>4, <2>2, Extended, Zenon
    <2>4. ExtendedBy(p, promptIds, mask, promptIds', mask', logprobs', 1, n)
      BY <1>2, <2>1, <2>3, Zenon
    <2>. QED
      BY <2>4 DEF ExtendedBy
  <1>6. Talk(p)!TypeOK'
    <2>1. promptIds' \in Seq({"prompt", "model", "tool"}) /\ mask' \in Seq({0, 1})
          /\ logprobs' \in Seq({"Real", "Zero"})
      BY <1>5 DEF Matching
    <2>2. steps' \in {<<>>} \cup (Nat \X Nat) /\ used' \subseteq Nat
      BY <1>1 DEF Talk!TypeOK, Talk!StepsOfAnswer
    <2>3. toolCall' \in [Talk(p)!Calls -> {"none", "new", "open", "closing", "done", "raised"}]
      BY <1>2
    <2>. QED
      BY <1>1, <2>1, <2>2, <2>3 DEF Talk!TypeOK
  <1>7. Alternating(p)'
    <2>1. promptIds \in Seq(Origins) /\ Len(promptIds) > 0 /\ "model" \in Origins
      BY <1>1, <1>4 DEF Matching, Origins
    <2>2. IsFiniteSet(Changes(promptIds'))
          /\ Cardinality(Changes(promptIds')) = Cardinality(Changes(promptIds)) + 1
      BY <1>2, <1>3, <1>4, <2>1, OneMoreTurn, Zenon
    <2>3. Cardinality(Changes(promptIds')) = user' + assistant'
      BY <1>1, <1>4, <2>2
    <2>4. Len(mask') > 0 /\ mask'[Len(mask')] = 1
      BY <1>1, <1>3, <1>5
    <2>5. loop' = "tools" => Len(mask') < ResponseLengths[p]
      <3>1. ResponseLengths[p] \in Nat
        BY TalkAssumed DEF Talk!ToolAgentLoopAssumption
      <3>2. loop' = "tools" => ~ (Len(mask) + n >= ResponseLengths[p])
        <4>. HIDE DEF TalkInv
        <4>1. loop' = "tools" => ~ Talk(p)!LimitReached(n)
          BY <1>2
        <4>. QED
          BY <4>1 DEF Talk!LimitReached
      <3>3. Len(mask) + n \in Nat /\ Len(mask') = Len(mask) + n
        BY <1>1, <1>3, <1>5
      <3>. HIDE DEF TalkInv
      <3>. QED
        BY <3>1, <3>2, <3>3
    <2>. QED
      BY <1>1, <1>5, <2>2, <2>3, <2>4, <2>5 DEF Alternating
  <1>8. InLimits(p)'
    <2>1. InLimits(p)
      OBVIOUS
    <2>. HIDE DEF TalkInv
    <2>2. MaxAssistantTurns \in Nat /\ UserTurns[p] \in Nat
      BY TalkAssumed DEF Talk!ToolAgentLoopAssumption
    <2>3. loop' = "tools" => /\ ~ (MaxAssistantTurns # 0 /\ assistant + 1 >= MaxAssistantTurns)
                             /\ ~ (UserTurns[p] # 0 /\ user >= UserTurns[p])
      BY <1>2 DEF Talk!LimitReached
    <2>4. MaxAssistantTurns # 0 => assistant' <= MaxAssistantTurns
      BY <1>1, <2>1, <2>2 DEF InLimits
    <2>5. UserTurns[p] # 0 => user' <= UserTurns[p]
      BY <1>1, <2>1 DEF InLimits
    <2>6. MaxAssistantTurns # 0 /\ loop' \in {"pending", "generating", "tools"} =>
            assistant' < MaxAssistantTurns
      BY <1>1, <2>2, <2>3
    <2>7. UserTurns[p] # 0 /\ loop' = "tools" => user' < UserTurns[p]
      BY <1>1, <2>2, <2>3
    <2>. QED
      BY <2>4, <2>5, <2>6, <2>7 DEF InLimits
  <1>9. Enclosed'
    <2>1. CASE steps = <<>>
      <3>1. steps' = <<version, version>> /\ used' = {version}
        BY <1>1, <2>1 DEF Enclosed, Talk!StepsOfAnswer
      <3>. QED
        BY <1>1, <3>1 DEF Enclosed
    <2>2. CASE steps # <<>> /\ version = 0
      <3>1. steps' = steps /\ used' = used \cup {0} /\ used # {}
        BY <1>1, <2>2 DEF Enclosed, Talk!StepsOfAnswer
      <3>2. steps \in Nat \X Nat /\ steps[1] \in Nat /\ steps[2] \in Nat
        BY <2>2 DEF Talk!TypeOK
      <3>3. steps[2] \in used /\ steps[1] <= steps[2] /\ \A v \in used : v = 0
        BY <1>1, <2>2 DEF Enclosed
      <3>4. used' = used
        BY <3>1, <3>3
      <3>. QED
        BY <1>1, <3>1, <3>4 DEF Enclosed
    <2>3. CASE steps # <<>> /\ version # 0
      <3>1. steps' = <<steps[1], version>> /\ used # {} /\ steps[1] \in Nat /\ steps[2] \in Nat
        BY <1>1, <2>3 DEF Enclosed, Talk!StepsOfAnswer, Talk!TypeOK
      <3>2. steps[1] <= version /\ \A v \in used : steps[1] <= v /\ v <= version
        BY <1>1, <2>3, <3>1 DEF Enclosed
      <3>3. steps'[1] = steps[1] /\ steps'[2] = version /\ steps' # <<>>
        BY <3>1
      <3>. QED
        BY <1>1, <3>2, <3>3 DEF Enclosed
    <2>. QED
      BY <2>1, <2>2, <2>3
  <1>10. Held(p)'
    <2>1. \A c \in Talk(p)!Calls : c \notin instances
      BY <1>1 DEF Held, Talk!NoCalls
    <2>2. \A c \in Talk(p)!Calls : toolCall'[c] \in {"new", "none"}
      BY <1>2
    <2>3. loop' = "terminated" => toolCall' = Talk(p)!NoCalls
      BY <1>2 DEF Talk!NoCalls
    <2>. QED
      BY <1>1, <2>1, <2>2, <2>3 DEF Held
  <1>11. Rowed(p)'
    BY <1>1 DEF Rowed, Talk!Aligned, Talk!ScoreCounts, Talk!NoPromptInResponse
  <1>. QED
    BY <1>6, <1>7, <1>8, <1>9, <1>10, <1>11

\* A step of a tool call: only in the turn of the call, only of its own instance.
LEMMA CallsKeep ==
  ASSUME NEW p \in Talks, TalkInv(p), NEW c \in Talk(p)!Calls, Talk(p)!CallTool(c)
  PROVE  TalkInv(p)'
  <1>. USE DEF TalkInv
  <1>1. UNCHANGED <<loop, promptIds, mask, logprobs, user, assistant, steps, version, used, row>>
    BY DEF Talk!CallTool, Talk!Reject, Talk!Create, Talk!Execute, Talk!Release,
       Talk!ReleaseRaises, Talk!Step
  <1>2. PICK to \in {"open", "closing", "done", "raised"} :
          /\ toolCall[c] \in {"new", "open", "closing"} /\ toolCall' = [toolCall EXCEPT ![c] = to]
          /\ instances' = IF to \in {"open", "closing", "raised"} THEN instances \cup {c}
                          ELSE instances \ {c}
    <2>1. c \in instances <=> toolCall[c] \in {"open", "closing", "raised"}
      BY DEF Held
    <2>. QED
      BY <2>1
      DEF Talk!CallTool, Talk!Reject, Talk!Create, Talk!Execute, Talk!AfterExecute, Talk!Release,
          Talk!ReleaseRaises, Talk!Step
  <1>3. Talk(p)!TypeOK'
    BY <1>1, <1>2 DEF Talk!TypeOK
  <1>4. Alternating(p)' /\ InLimits(p)' /\ Enclosed'
    BY <1>1 DEF Alternating, Empty, InLimits, Enclosed
  <1>5. Held(p)'
    <2>1. loop \notin {"pending", "generating", "terminated", "output"}
      BY <1>2 DEF Held, Talk!NoCalls
    <2>2. \A d \in Talk(p)!Calls : toolCall'[d] = IF d = c THEN to ELSE toolCall[d]
      BY <1>2 DEF Talk!TypeOK
    <2>. QED
      BY <1>1, <1>2, <2>1, <2>2 DEF Held
  <1>6. Rowed(p)'
    BY <1>1 DEF Rowed, Talk!Aligned, Talk!ScoreCounts, Talk!ScoreAt, Talk!NoPromptInResponse
  <1>. QED
    BY <1>3, <1>4, <1>5, <1>6

\* The conversation fails.
LEMMA RaiseKeeps ==
  ASSUME NEW p \in Talks, TalkInv(p), Talk(p)!Raise
  PROVE  TalkInv(p)'
  <1>. USE DEF TalkInv, Talk!Raise
  <1>1. Talk(p)!TypeOK'
    BY DEF Talk!TypeOK
  <1>2. Alternating(p)' /\ InLimits(p)' /\ Enclosed' /\ Held(p)'
    BY DEF Alternating, InLimits, Enclosed, Held
  <1>3. Rowed(p)'
    BY DEF Rowed, Talk!Aligned, Talk!ScoreCounts, Talk!NoPromptInResponse
  <1>. QED
    BY <1>1, <1>2, <1>3

\* The results of the turn, if they fit, or the end of the conversation, after an answer.
LEMMA ResultsKeep ==
  ASSUME NEW p \in Talks, TalkInv(p), Talk(p)!Results
  PROVE  TalkInv(p)'
  <1>. USE DEF TalkInv
  <1>1. /\ loop = "tools" /\ loop' \in {"generating", "terminated"} /\ toolCall' = Talk(p)!NoCalls
        /\ \A c \in Talk(p)!Calls : toolCall[c] \in {"none", "done"}
        /\ UNCHANGED <<assistant, steps, version, used, instances, row>>
        /\ user \in Nat /\ assistant \in Nat /\ Len(mask) \in Nat /\ Len(promptIds) \in Nat
    BY DEF Talk!Results, Talk!TypeOK
  <1>2. Enclosed' /\ Held(p)' /\ Rowed(p)'
    BY <1>1
    DEF Enclosed, Held, Talk!NoCalls, Rowed, Talk!Aligned, Talk!ScoreCounts,
        Talk!NoPromptInResponse
  <1>3. /\ Matching(p, promptIds, mask, logprobs) /\ Len(mask) < ResponseLengths[p] /\ Len(mask) > 0
        /\ mask[Len(mask)] = 1
        /\ IsFiniteSet(Changes(promptIds)) /\ Cardinality(Changes(promptIds)) = user + assistant
    BY <1>1 DEF Alternating
  <1>4. CASE loop' = "terminated" /\ UNCHANGED <<promptIds, mask, logprobs, user>>
    <2>1. Talk(p)!TypeOK'
      BY <1>1, <1>4 DEF Talk!TypeOK, Talk!NoCalls
    <2>2. Alternating(p)' /\ InLimits(p)'
      BY <1>1, <1>3, <1>4 DEF Alternating, InLimits
    <2>. QED
      BY <1>2, <2>1, <2>2
  <1>5. CASE \E n \in 1 .. MaxToolTokens :
               /\ Talk(p)!ResultsFit(n)
               /\ promptIds' = promptIds \o Talk(p)!Repeat("tool", n)
               /\ mask' = mask \o Talk(p)!Repeat(0, n)
               /\ logprobs' = IF logprobs = <<>> THEN <<>>
                            ELSE logprobs \o Talk(p)!Repeat("Zero", n)
               /\ user' = user + 1
               /\ loop' = "generating"
    <2>1. PICK n \in 1 .. MaxToolTokens :
               /\ Talk(p)!ResultsFit(n)
               /\ promptIds' = promptIds \o Talk(p)!Repeat("tool", n)
               /\ mask' = mask \o Talk(p)!Repeat(0, n)
               /\ logprobs' = IF logprobs = <<>> THEN <<>>
                            ELSE logprobs \o Talk(p)!Repeat("Zero", n)
               /\ user' = user + 1
               /\ loop' = "generating"
      BY <1>5
    <2>2. n \in Nat \ {0} /\ n \in Nat /\ n > 0 /\ Len(mask) + n < ResponseLengths[p]
      BY <2>1, TalkAssumed DEF Talk!ToolAgentLoopAssumption, Talk!ResultsFit
    <2>3. logprobs # <<>> /\ logprobs' = logprobs \o Talk(p)!Repeat("Zero", n)
      BY <1>3, <2>1 DEF Matching
    <2>4. BlockOf(0) = "tool" /\ LogprobOf(0) = "Zero" /\ 0 \in {0, 1}
      BY DEF BlockOf, LogprobOf
    <2>5. ExtendedBy(p, promptIds, mask, promptIds \o Talk(p)!Repeat(BlockOf(0), n),
                     mask \o Talk(p)!Repeat(0, n),
                     logprobs \o Talk(p)!Repeat(LogprobOf(0), n), 0, n)
      BY <1>3, <2>2, <2>4, Extended, Zenon
    <2>6. /\ Matching(p, promptIds', mask', logprobs') /\ Len(mask') = Len(mask) + n
          /\ Len(promptIds') = Len(promptIds) + n /\ promptIds'[Len(promptIds) + n] = "tool"
      <3>1. ExtendedBy(p, promptIds, mask, promptIds', mask', logprobs', 0, n)
        BY <2>1, <2>3, <2>4, <2>5, Zenon
      <3>. QED
        BY <2>4, <3>1 DEF ExtendedBy
    <2>7. Talk(p)!TypeOK'
      <3>1. promptIds' \in Seq({"prompt", "model", "tool"}) /\ mask' \in Seq({0, 1})
            /\ logprobs' \in Seq({"Real", "Zero"})
        BY <2>6 DEF Matching
      <3>2. Talk(p)!NoCalls
            \in [Talk(p)!Calls -> {"none", "new", "open", "closing", "done", "raised"}]
        BY DEF Talk!NoCalls
      <3>. QED
        BY <1>1, <2>1, <3>1, <3>2 DEF Talk!TypeOK
    <2>8. promptIds \in Seq(Origins) /\ Len(promptIds) > 0 /\ "tool" \in Origins
          /\ promptIds[Len(promptIds)] # "tool"
      <3>1. promptIds \in Seq(Origins) /\ Len(promptIds) > 0 /\ "tool" \in Origins
        BY <1>1, <1>3 DEF Matching, Origins
      <3>2. Len(mask) \in 1 .. Len(mask) /\ Len(promptIds) - Len(mask) + Len(mask) = Len(promptIds)
        BY <1>1, <1>3
      <3>3. promptIds[Len(promptIds)] = BlockOf(1)
        BY <1>3, <3>2 DEF Matching
      <3>. QED
        BY <3>1, <3>3 DEF BlockOf
    <2>9. IsFiniteSet(Changes(promptIds'))
          /\ Cardinality(Changes(promptIds')) = Cardinality(Changes(promptIds)) + 1
      BY <1>3, <2>1, <2>2, <2>8, OneMoreTurn, Zenon
    <2>10. Cardinality(Changes(promptIds')) = user' + assistant'
      BY <1>1, <1>3, <2>1, <2>9
    <2>11. Alternating(p)'
      BY <2>1, <2>2, <2>6, <2>9, <2>10 DEF Alternating
    <2>12. InLimits(p)'
      BY <1>1, <2>1, TalkAssumed DEF InLimits, Talk!ToolAgentLoopAssumption
    <2>. QED
      BY <1>2, <2>7, <2>11, <2>12
  <1>. QED
    BY <1>4, <1>5 DEF Talk!Results

\* The row: of n tokens after the prompt k are left, the last of which the model wrote.
LEMMA OutputKeeps ==
  ASSUME NEW p \in Talks, TalkInv(p), Talk(p)!Output
  PROVE  TalkInv(p)'
  <1>. USE DEF TalkInv
  <1>1. /\ loop = "terminated" /\ loop' = "output" /\ row' = Talk(p)!RowOf
        /\ UNCHANGED <<promptIds, mask, logprobs, user, assistant, steps, version, used, toolCall,
                      instances>>
    BY DEF Talk!Output
  <1>2. Talk(p)!TypeOK' /\ Alternating(p)' /\ InLimits(p)' /\ Enclosed' /\ Held(p)'
    BY <1>1 DEF Talk!TypeOK, Alternating, InLimits, Enclosed, Held
  <1>. DEFINE n == Len(mask)
              P == Len(promptIds) - n
              R == ResponseLengths[p]
              k == IF n < R THEN n ELSE R
  <1>3. /\ promptIds \in Seq(Origins) /\ mask \in Seq({0, 1}) /\ logprobs \in Seq({"Real", "Zero"})
        /\ n \in Nat \ {0} /\ n < Len(promptIds) /\ Len(logprobs) = n /\ Len(promptIds) \in Nat
        /\ \A i \in 1 .. P : promptIds[i] = "prompt"
        /\ \A i \in 1 .. n : /\ promptIds[P + i] = BlockOf(mask[i])
                             /\ logprobs[i] = LogprobOf(mask[i])
                             /\ mask[i] = 0 => i < R
        /\ mask[n] = 1
    BY <1>1 DEF Alternating, Matching, Origins
  <1>4. R \in Nat \ {0} /\ k \in Nat \ {0} /\ k <= n /\ k <= R
    BY <1>3, TalkAssumed DEF Talk!ToolAgentLoopAssumption
  <1>5. ASSUME NEW S, NEW s \in Seq(S), Len(s) = n, NEW x \in S
        PROVE  /\ Len(Talk(p)!Padded(Talk(p)!Shorter(s), x)) = R
               /\ \A i \in 1 .. R :
                    Talk(p)!Padded(Talk(p)!Shorter(s), x)[i] = IF i <= k THEN s[i] ELSE x
    <2>. DEFINE q == Talk(p)!Shorter(s)
    <2>1. q \in Seq(S) /\ Len(q) = k /\ \A i \in 1 .. k : q[i] = s[i]
      BY <1>3, <1>4, <1>5 DEF Talk!Shorter
    <2>2. R - k \in Nat
      BY <1>4
    <2>. HIDE DEF q, k
    <2>3. Longer(q \o Talk(p)!Repeat(x, R - k), q, x, R - k)
      BY <2>1, <2>2, Appended, Zenon
    <2>4. Talk(p)!Padded(q, x) = q \o Talk(p)!Repeat(x, R - k)
      BY <2>1 DEF Talk!Padded
    <2>. HIDE DEF R
    <2>5. Len(q) + (R - k) = R
      BY <1>4, <2>1
    <2>6. Longer(Talk(p)!Padded(q, x), q, x, R - k)
      BY <2>3, <2>4
    <2>7. /\ Len(Talk(p)!Padded(q, x)) = R
          /\ \A i \in 1 .. R : Talk(p)!Padded(q, x)[i] = IF i <= k THEN q[i] ELSE x
      BY <2>1, <2>5, <2>6 DEF Longer
    <2>8. \A i \in 1 .. R : i <= k => i \in 1 .. k
      BY <1>4
    <2>. QED
      BY <2>1, <2>7, <2>8 DEF q
  <1>. DEFINE t == Talk(p)!LastTokens(n)
  <1>6. t \in Seq(Origins \cup {"pad"}) /\ Len(t) = n /\ \A i \in 1 .. n : t[i] = promptIds[P + i]
    BY <1>3 DEF Talk!LastTokens
  <1>7. /\ row'.response = Talk(p)!Padded(Talk(p)!Shorter(t), "pad")
        /\ row'.mask = Talk(p)!Padded(Talk(p)!Shorter(mask), 0)
        /\ row'.logprobs = Talk(p)!Padded(Talk(p)!Shorter(logprobs), "Zero")
        /\ row'.prompt = SubSeq(promptIds, 1, P)
    <2>1. logprobs # <<>>
      BY <1>3
    <2>. QED
      BY <1>1, <2>1 DEF Talk!RowOf, Talk!ResponseOf
  <1>. HIDE DEF t, k
  <1>8. /\ Len(row'.response) = R
        /\ \A i \in 1 .. R : row'.response[i] = IF i <= k THEN t[i] ELSE "pad"
    BY <1>5, <1>6, <1>7
  <1>9. /\ Len(row'.mask) = R
        /\ \A i \in 1 .. R : row'.mask[i] = IF i <= k THEN mask[i] ELSE 0
    BY <1>3, <1>5, <1>7
  <1>10. /\ Len(row'.logprobs) = R
         /\ \A i \in 1 .. R : row'.logprobs[i] = IF i <= k THEN logprobs[i] ELSE "Zero"
    BY <1>3, <1>5, <1>7
  <1>11. ASSUME NEW i \in 1 .. R, i <= k
         PROVE  /\ t[i] = BlockOf(mask[i]) /\ logprobs[i] = LogprobOf(mask[i])
                /\ mask[i] \in {0, 1}
    <2>1. i \in 1 .. n
      BY <1>3, <1>4, <1>11
    <2>. QED
      BY <1>3, <1>6, <2>1
  <1>12. ASSUME NEW i \in 1 .. R
         PROVE  /\ row'.mask[i] = 1 <=> row'.response[i] = "model"
                /\ row'.logprobs[i] = "Real" <=> row'.response[i] = "model"
                /\ row'.response[i] # "prompt"
                /\ row'.response[i] # "pad" <=> i <= k
    BY <1>8, <1>9, <1>10, <1>11 DEF BlockOf, LogprobOf
  <1>13. \A i \in 1 .. Len(row'.prompt) : row'.prompt[i] = "prompt"
    BY <1>3, <1>7
  <1>14. Talk(p)!Aligned'
    BY <1>8, <1>9, <1>10, <1>12, <1>13 DEF Talk!Aligned
  <1>15. Talk(p)!NoPromptInResponse'
    BY <1>12 DEF Talk!NoPromptInResponse
  <1>16. Talk(p)!ScoreCounts'
    <2>1. {i \in 1 .. R : row'.response[i] # "pad"} = 1 .. k
      BY <1>4, <1>12
    <2>2. Cardinality(1 .. k) = k
      BY <1>4, FS_Interval
    <2>3. Talk(p)!ScoreAt' = k
      BY <1>4, <2>1, <2>2, TalkCounting DEF Talk!ScoreAt
    <2>4. k \in 1 .. R /\ k \in 1 .. n /\ (k = n \/ k = R)
      BY <1>3, <1>4 DEF k
    <2>5. mask[k] = 1
      <3>1. mask[k] \in {0, 1} /\ (mask[k] = 0 => k < R)
        BY <1>3, <2>4
      <3>2. CASE k = n
        BY <1>3, <3>2
      <3>3. CASE k = R
        BY <1>4, <3>1, <3>3
      <3>. QED
        BY <2>4, <3>2, <3>3
    <2>6. row'.mask[k] = 1
      BY <1>4, <1>9, <2>4, <2>5
    <2>. QED
      BY <2>3, <2>6 DEF Talk!ScoreCounts
  <1>. QED
    BY <1>2, <1>14, <1>15, <1>16 DEF Rowed

LEMMA TalkStutters ==
  ASSUME NEW p \in Talks, TalkInv(p), UNCHANGED Talk(p)!vars
  PROVE  TalkInv(p)'
  BY DEF Talk!vars, TalkInv, Talk!TypeOK, Alternating, Empty, InLimits, Enclosed, Held, Rowed,
     Talk!Aligned, Talk!ScoreCounts, Talk!ScoreAt, Talk!NoPromptInResponse

\* What is checked of a conversation, but for its row.
LEMMA TalkSays ==
  ASSUME NEW p \in Talks, TalkInv(p)
  PROVE  Talk(p)!TypeOK /\ Talk(p)!Turns /\ Talk(p)!StepsCover /\ Talk(p)!ToolsReleased
  <1>1. Talk(p)!Turns
    <2>1. loop = "pending" => Len(promptIds) = 0
      BY DEF TalkInv, Alternating, Empty
    <2>. QED
      BY <2>1, TalkCounting DEF TalkInv, Talk!Turns, InLimits, Alternating, Changes
  <1>2. Talk(p)!StepsCover
    BY DEF TalkInv, Talk!StepsCover, Enclosed
  <1>3. Talk(p)!ToolsReleased
    BY DEF TalkInv, Talk!ToolsReleased, Held, Talk!NoCalls, Talk!TypeOK
  <1>. QED
    BY <1>1, <1>2, <1>3 DEF TalkInv

-----------------------------------------------------------------------------
(* The behaviours of MCRequests: of the two conversations the one that the *)
(* variable part names takes the steps, in the other parts neither does.   *)

\* What holds of a conversation holds from its first state on, so also while it takes no steps.
RequestsInv == \A p \in Talks : part = p \/ part \notin Talks => TalkInv(p)

LEMMA TalkStarts == ASSUME NEW p \in Talks, MCInit PROVE TalkInv(p)
  <1>1. Talk(p)!Init
    BY DEF MCInit, Talk!Init, Talk!NoCalls, Talk!Calls
  <1>. QED
    BY <1>1, TalkInitially

LEMMA TalkSteps ==
  ASSUME NEW p \in Talks, TalkInv(p), Talk(p)!Next \/ UNCHANGED loopVars
  PROVE  TalkInv(p)'
  <1>1. CASE UNCHANGED loopVars
    BY <1>1, TalkStutters DEF loopVars, Talk!vars
  <1>2. CASE Talk(p)!Next
    BY <1>2, PendingKeeps, AnswerKeeps, RaiseKeeps, ResultsKeep, OutputKeeps, NewWeightsKeep,
       CallsKeep
    DEF Talk!Next, Talk!Loop
  <1>. QED
    BY <1>1, <1>2

THEOREM RequestsInvariant == MCSpec => []RequestsInv
  <1>1. MCInit => RequestsInv
    BY TalkStarts DEF RequestsInv
  <1>2. ASSUME RequestsInv, [MCNext]_<<part, rewardVars, loopVars, vars>>
        PROVE  RequestsInv'
    <2>. SUFFICES ASSUME NEW p \in Talks, part' = p \/ part' \notin Talks
                  PROVE  TalkInv(p)'
      BY DEF RequestsInv
    <2>1. part' = part
      BY <1>2 DEF MCNext
    <2>2. TalkInv(p)
      BY <1>2, <2>1 DEF RequestsInv
    <2>3. Talk(p)!Next \/ UNCHANGED loopVars
      BY <1>2, <2>1 DEF MCNext, Talks
    <2>. QED
      BY <2>2, <2>3, TalkSteps
  <1>. QED
    BY <1>1, <1>2, PTL DEF MCSpec

\* What any of the conversations says of types, versions and instances, "turning" says.
LEMMA EitherTalk ==
  ASSUME RequestsInv
  PROVE  Talk("turning")!TypeOK /\ Talk("turning")!StepsCover /\ Talk("turning")!ToolsReleased
  <1>1. PICK p \in Talks : TalkInv(p)
    BY DEF RequestsInv, Talks
  <1>2. Talk(p)!TypeOK /\ Talk(p)!StepsCover /\ Talk(p)!ToolsReleased
    BY <1>1, TalkSays
  <1>. QED
    BY <1>2 DEF Talk!TypeOK, Talk!Calls, Talk!StepsCover, Talk!ToolsReleased

\* The limits of turns hold and the turns that are counted are those of the tokens; the versions
\* recorded for a conversation enclose those that answered.
THEOREM TurnsReported == MCSpec => []Reported
  <1>1. ASSUME RequestsInv PROVE Reported
    <2>1. ASSUME part = "turning" PROVE Talk("turning")!Turns
      <3>1. "turning" \in Talks
        BY DEF Talks
      <3>2. TalkInv("turning")
        BY <1>1, <2>1, <3>1 DEF RequestsInv
      <3>. QED
        BY <3>1, <3>2, TalkSays
    <2>. QED
      BY <1>1, <2>1, EitherTalk DEF Reported
  <1>. QED
    BY <1>1, RequestsInvariant, PTL

\* No tool instance outlives the turn that made it, whatever its calls raise.
THEOREM ToolsAreReleased == MCSpec => []ToolsReleased
  <1>1. RequestsInv => ToolsReleased
    BY EitherTalk DEF ToolsReleased
  <1>. QED
    BY <1>1, RequestsInvariant, PTL

\* Tokens, mask and log probabilities of a row agree wherever it was cut, its score counts, and its
\* response holds no part of the prompt.
THEOREM RowsAreSound == MCSpec => []RowSound
  <1>1. ASSUME RequestsInv PROVE RowSound
    <2>. SUFFICES ASSUME part = "growing"
                  PROVE  /\ Talk("growing")!Aligned /\ Talk("growing")!ScoreCounts
                         /\ Talk("growing")!NoPromptInResponse
      BY DEF RowSound
    <2>1. "growing" \in Talks
      BY DEF Talks
    <2>2. TalkInv("growing")
      BY <1>1, <2>1 DEF RequestsInv
    <2>. QED
      BY <2>1, <2>2 DEF TalkInv, Rowed
  <1>. QED
    BY <1>1, RequestsInvariant, PTL

-----------------------------------------------------------------------------
(***************************************************************************)
(* Sums.  A sum over a finite set is what a function on its subsets says,  *)
(* taking one element at a time away; that there is such a function, and   *)
(* that the element does not matter, is by contradiction from a set of     *)
(* least size (the lemmas of RecBenchProofs, whose constants are others).  *)
(***************************************************************************)

Taken(S) == CHOOSE x \in S : TRUE

IsSum(F, f, S) ==
  f = [s \in SUBSET S |-> IF s = {} THEN 0 ELSE F[Taken(s)] + f[s \ {Taken(s)}]]

SumTable(F, S) == CHOOSE f : IsSum(F, f, S)
SumOf(F, S) == SumTable(F, S)[S]

LEMMA SumUnfolds ==
  ASSUME NEW F, NEW f, NEW S, IsSum(F, f, S)
  PROVE  /\ f[{}] = 0
         /\ \A s \in SUBSET S : s # {} =>
              /\ Taken(s) \in s
              /\ f[s] = F[Taken(s)] + f[s \ {Taken(s)}]
  <1>1. \A s \in SUBSET S : f[s] = IF s = {} THEN 0 ELSE F[Taken(s)] + f[s \ {Taken(s)}]
    BY Zenon DEF IsSum
  <1>2. \A s : s # {} => Taken(s) \in s
    BY DEF Taken
  <1>. QED
    BY <1>1, <1>2

\* Less one element.
LEMMA OneLess ==
  ASSUME NEW S, IsFiniteSet(S), NEW x \in S
  PROVE  /\ IsFiniteSet(S \ {x}) /\ Cardinality(S) \in Nat /\ Cardinality(S \ {x}) \in Nat
         /\ Cardinality(S \ {x}) = Cardinality(S) - 1
  BY FS_RemoveElement, FS_CardinalityType

LEMMA LeastNat ==
  ASSUME NEW B \in SUBSET Nat, B # {}
  PROVE  \E n \in B : \A m \in B : n <= m
  <1>1. PICK i \in B : \A j \in B : <<j, i>> \notin OpToRel(<, Nat)
    BY NatLessThanWellFounded, WFMin
  <1>2. ASSUME NEW j \in B PROVE i <= j
    <2>1. j < i => <<j, i>> \in OpToRel(<, Nat)
      BY DEF OpToRel
    <2>2. ~ (j < i)
      BY <1>1, <2>1, Zenon
    <2>. QED
      BY <2>2
  <1>. QED
    BY <1>2

\* Of the subsets in W, if there are any and they are finite, one is smallest.
LEMMA SmallestSet ==
  ASSUME NEW W, W # {}, \A s \in W : IsFiniteSet(s)
  PROVE  \E s \in W : \A t \in W : Cardinality(s) <= Cardinality(t)
  <1>. DEFINE B == {Cardinality(s) : s \in W}
  <1>1. B \in SUBSET Nat /\ B # {}
    BY FS_CardinalityType
  <1>2. PICK n \in B : \A m \in B : n <= m
    <2>. HIDE DEF B
    <2>. QED
      BY <1>1, LeastNat
  <1>. QED
    BY <1>2

LEMMA SumsAgree ==
  ASSUME NEW F, NEW f, NEW g, NEW S, NEW T, IsSum(F, f, S), IsSum(F, g, T),
         NEW U, IsFiniteSet(U), U \subseteq S, U \subseteq T
  PROVE  f[U] = g[U]
  <1>. DEFINE W == {s \in SUBSET U : f[s] # g[s]}
  <1>. SUFFICES ASSUME W # {} PROVE FALSE
    OBVIOUS
  <1>1. PICK s \in W : \A t \in W : Cardinality(s) <= Cardinality(t)
    <2>1. \A s \in W : IsFiniteSet(s)
      BY FS_Subset
    <2>. HIDE DEF W
    <2>. QED
      BY <2>1, SmallestSet
  <1>2. s \subseteq S /\ s \subseteq T /\ IsFiniteSet(s) /\ f[s] # g[s] /\ s \subseteq U
    BY FS_Subset
  <1>3. s # {}
    BY <1>2, SumUnfolds
  <1>. DEFINE x == Taken(s)
  <1>4. /\ x \in s
        /\ f[s] = F[x] + f[s \ {x}] /\ g[s] = F[x] + g[s \ {x}]
    <2>1. x \in s /\ f[s] = F[x] + f[s \ {x}]
      <3>1. \A t \in SUBSET S : t # {} => Taken(t) \in t /\ f[t] = F[Taken(t)] + f[t \ {Taken(t)}]
        BY SumUnfolds
      <3>. QED
        BY <1>2, <1>3, <3>1
    <2>2. g[s] = F[x] + g[s \ {x}]
      BY <1>2, <1>3, SumUnfolds
    <2>. QED
      BY <2>1, <2>2
  <1>. HIDE DEF x
  <1>5. s \ {x} \in W
    BY <1>2, <1>4
  <1>6. Cardinality(s) <= Cardinality(s \ {x})
    <2>. HIDE DEF W
    <2>. QED
      BY <1>1, <1>5
  <1>. QED
    BY <1>2, <1>4, <1>6, OneLess

LEMMA SumExists ==
  ASSUME NEW F, NEW S, IsFiniteSet(S)
  PROVE  IsSum(F, SumTable(F, S), S)
  <1>. DEFINE W == {s \in SUBSET S : ~ \E f : IsSum(F, f, s)}
  <1>. SUFFICES ASSUME W # {} PROVE FALSE
    <2>1. S \notin W => \E f : IsSum(F, f, S)
      OBVIOUS
    <2>. QED
      BY <2>1, Zenon DEF SumTable
  <1>1. PICK s \in W : \A t \in W : Cardinality(s) <= Cardinality(t)
    <2>1. \A s \in W : IsFiniteSet(s)
      BY FS_Subset
    <2>. HIDE DEF W
    <2>. QED
      BY <2>1, SmallestSet
  <1>2. s \subseteq S /\ IsFiniteSet(s) /\ ~ \E f : IsSum(F, f, s)
    BY FS_Subset
  <1>3. ASSUME NEW t \in SUBSET s, t # s PROVE IsSum(F, SumTable(F, t), t)
    <2>1. Cardinality(t) < Cardinality(s)
      BY <1>2, <1>3, FS_Subset, FS_CardinalityType
    <2>2. Cardinality(t) \in Nat /\ Cardinality(s) \in Nat
      BY <1>2, FS_Subset, FS_CardinalityType
    <2>3. t \notin W
      <3>. HIDE DEF W
      <3>. QED
        BY <1>1, <2>1, <2>2
    <2>4. \E f : IsSum(F, f, t)
      BY <1>2, <2>3
    <2>. QED
      BY <2>4, Zenon DEF SumTable
  <1>. DEFINE
         G(t) == SumTable(F, t)[t]
         f == [t \in SUBSET s |-> IF t = {} THEN 0 ELSE F[Taken(t)] + G(t \ {Taken(t)})]
  <1>4. ASSUME NEW t \in SUBSET s, t # s PROVE f[t] = G(t)
    <2>1. IsFiniteSet(t)
      BY <1>2, FS_Subset
    <2>2. CASE t = {}
      BY <2>2, <1>3, <1>4, SumUnfolds
    <2>3. CASE t # {}
      <3>. DEFINE u == t \ {Taken(t)}
      <3>1. /\ Taken(t) \in t
            /\ G(t) = F[Taken(t)] + SumTable(F, t)[u]
        BY <2>3, <1>3, <1>4, SumUnfolds
      <3>2. IsFiniteSet(u) /\ u \in SUBSET s /\ u # s /\ u \subseteq t
        BY <2>1, <3>1, FS_Subset
      <3>3. SumTable(F, t)[u] = SumTable(F, u)[u]
        <4>1. IsSum(F, SumTable(F, t), t) /\ IsSum(F, SumTable(F, u), u)
          BY <1>3, <1>4, <3>2
        <4>. HIDE DEF u
        <4>. QED
          BY <4>1, <3>2, SumsAgree
      <3>4. f[t] = F[Taken(t)] + G(u)
        BY <2>3
      <3>. QED
        BY <3>1, <3>3, <3>4
    <2>. QED
      BY <2>2, <2>3
  <1>5. ASSUME NEW t \in SUBSET s, t # {} PROVE G(t \ {Taken(t)}) = f[t \ {Taken(t)}]
    <2>1. Taken(t) \in t
      BY <1>5 DEF Taken
    <2>2. t \ {Taken(t)} \in SUBSET s /\ t \ {Taken(t)} # s
      BY <2>1
    <2>. HIDE DEF f, G
    <2>. QED
      BY <1>4, <2>2
  <1>6. \A t \in SUBSET s :
          (IF t = {} THEN 0 ELSE F[Taken(t)] + G(t \ {Taken(t)}))
            = (IF t = {} THEN 0 ELSE F[Taken(t)] + f[t \ {Taken(t)}])
    <2>. HIDE DEF f, G
    <2>. QED
      BY <1>5
  <1>7. f = [t \in SUBSET s |-> IF t = {} THEN 0 ELSE F[Taken(t)] + f[t \ {Taken(t)}]]
    <2>1. f = [t \in SUBSET s |-> IF t = {} THEN 0 ELSE F[Taken(t)] + G(t \ {Taken(t)})]
      OBVIOUS
    <2>. HIDE DEF f, G
    <2>. QED
      BY <2>1, <1>6
  <1>8. IsSum(F, f, s)
    <2>. HIDE DEF f
    <2>. QED
      BY <1>7 DEF IsSum
  <1>. QED
    BY <1>2, <1>8

LEMMA SumStep ==
  ASSUME NEW F, NEW S, IsFiniteSet(S)
  PROVE  /\ SumOf(F, {}) = 0
         /\ S # {} => Taken(S) \in S /\ SumOf(F, S) = F[Taken(S)] + SumOf(F, S \ {Taken(S)})
  <1>1. SumOf(F, {}) = 0
    BY FS_EmptySet, SumExists, SumUnfolds DEF SumOf
  <1>2. ASSUME S # {}
        PROVE  Taken(S) \in S /\ SumOf(F, S) = F[Taken(S)] + SumOf(F, S \ {Taken(S)})
    <2>. DEFINE t == S \ {Taken(S)}
    <2>1. IsSum(F, SumTable(F, S), S)
      BY SumExists
    <2>2. Taken(S) \in S /\ SumOf(F, S) = F[Taken(S)] + SumTable(F, S)[t]
      BY <1>2, <2>1, SumUnfolds DEF SumOf
    <2>3. IsFiniteSet(t) /\ t \subseteq S
      BY FS_Subset
    <2>. HIDE DEF t
    <2>4. IsSum(F, SumTable(F, t), t)
      BY <2>3, SumExists
    <2>5. SumTable(F, S)[t] = SumTable(F, t)[t]
      BY <2>1, <2>3, <2>4, SumsAgree
    <2>. QED
      BY <2>2, <2>5 DEF SumOf, t
  <1>. QED
    BY <1>1, <1>2

LEMMA SumType ==
  ASSUME NEW F, NEW S, IsFiniteSet(S), \A x \in S : F[x] \in Nat
  PROVE  SumOf(F, S) \in Nat
  <1>. DEFINE W == {s \in SUBSET S : SumOf(F, s) \notin Nat}
  <1>. SUFFICES ASSUME W # {} PROVE FALSE
    OBVIOUS
  <1>1. PICK s \in W : \A t \in W : Cardinality(s) <= Cardinality(t)
    <2>1. \A s \in W : IsFiniteSet(s)
      BY FS_Subset
    <2>. HIDE DEF W
    <2>. QED
      BY <2>1, SmallestSet
  <1>2. s \subseteq S /\ IsFiniteSet(s) /\ SumOf(F, s) \notin Nat
    BY FS_Subset
  <1>3. s # {}
    <2>1. SumOf(F, {}) = 0
      BY FS_EmptySet, SumStep
    <2>. QED
      BY <1>2, <2>1
  <1>. DEFINE x == Taken(s)
  <1>4. x \in s /\ SumOf(F, s) = F[x] + SumOf(F, s \ {x})
    BY <1>2, <1>3, SumStep
  <1>. HIDE DEF x
  <1>5. F[x] \in Nat
    BY <1>2, <1>4
  <1>6. s \ {x} \in W
    BY <1>2, <1>4, <1>5
  <1>7. Cardinality(s) <= Cardinality(s \ {x})
    <2>. HIDE DEF W
    <2>. QED
      BY <1>1, <1>6
  <1>8. Cardinality(s) \in Nat /\ Cardinality(s \ {x}) = Cardinality(s) - 1
    BY <1>2, <1>4, OneLess
  <1>. QED
    BY <1>7, <1>8

\* Whichever element is taken.
LEMMA SumTakes ==
  ASSUME NEW F, NEW S, IsFiniteSet(S), \A x \in S : F[x] \in Nat, NEW y \in S
  PROVE  SumOf(F, S) = F[y] + SumOf(F, S \ {y})
  <1>. DEFINE W == {s \in SUBSET S : \E u \in s : SumOf(F, s) # F[u] + SumOf(F, s \ {u})}
  <1>. SUFFICES ASSUME W # {} PROVE FALSE
    OBVIOUS
  <1>1. PICK s \in W : \A t \in W : Cardinality(s) <= Cardinality(t)
    <2>1. \A s \in W : IsFiniteSet(s)
      BY FS_Subset
    <2>. HIDE DEF W
    <2>. QED
      BY <2>1, SmallestSet
  <1>2. s \subseteq S /\ IsFiniteSet(s)
    BY FS_Subset
  <1>3. PICK u \in s : SumOf(F, s) # F[u] + SumOf(F, s \ {u})
    OBVIOUS
  <1>. DEFINE v == Taken(s)
  <1>4. v \in s /\ SumOf(F, s) = F[v] + SumOf(F, s \ {v})
    BY <1>2, <1>3, SumStep
  <1>. HIDE DEF v
  <1>5. u # v
    BY <1>3, <1>4
  <1>6. ASSUME NEW t \in SUBSET s, NEW x \in s, x \notin t, NEW w \in t
        PROVE  SumOf(F, t) = F[w] + SumOf(F, t \ {w})
    <2>1. t # s /\ IsFiniteSet(t)
      BY <1>2, <1>6, FS_Subset
    <2>2. Cardinality(t) < Cardinality(s) /\ Cardinality(t) \in Nat /\ Cardinality(s) \in Nat
      BY <1>2, <2>1, FS_Subset, FS_CardinalityType
    <2>3. t \notin W
      <3>. HIDE DEF W
      <3>. QED
        BY <1>1, <2>2
    <2>. QED
      BY <1>2, <2>3
  <1>7. SumOf(F, s \ {v}) = F[u] + SumOf(F, (s \ {v}) \ {u})
    BY <1>4, <1>5, <1>6
  <1>8. SumOf(F, s \ {u}) = F[v] + SumOf(F, (s \ {u}) \ {v})
    BY <1>4, <1>5, <1>6
  <1>9. (s \ {v}) \ {u} = (s \ {u}) \ {v}
    OBVIOUS
  <1>10. F[u] \in Nat /\ F[v] \in Nat /\ SumOf(F, (s \ {u}) \ {v}) \in Nat
    <2>1. IsFiniteSet((s \ {u}) \ {v}) /\ \A x \in (s \ {u}) \ {v} : F[x] \in Nat
      BY <1>2, FS_Subset
    <2>2. SumOf(F, (s \ {u}) \ {v}) \in Nat
      BY <2>1, SumType
    <2>. QED
      BY <1>2, <1>4, <2>2
  <1>. DEFINE rest == SumOf(F, (s \ {u}) \ {v})
  <1>11. SumOf(F, s) = F[v] + (F[u] + rest) /\ F[u] + SumOf(F, s \ {u}) = F[u] + (F[v] + rest)
    BY <1>4, <1>7, <1>8, <1>9
  <1>12. rest \in Nat /\ F[u] \in Nat /\ F[v] \in Nat
    BY <1>10
  <1>. HIDE DEF rest
  <1>13. F[v] + (F[u] + rest) = F[u] + (F[v] + rest)
    BY <1>12
  <1>. QED
    BY <1>3, <1>11, <1>13

-----------------------------------------------------------------------------
(***************************************************************************)
(* The rate limited rewards.  For each bucket the invariant says what it   *)
(* has and what requests that sleep still owe it, as sums over requests.   *)
(***************************************************************************)

\* Requests of a worker that ask for more than the bucket holds: those that sleep, those of them
\* that sleep for more than t ticks, and those that have taken their tokens.
Owing(st, w) == {r \in Request : Home[r] = w /\ Cost[r] > MaxTokens /\ st[r] = "asleep"}
Late(st, tm, w, t) == {r \in Owing(st, w) : tm[r] > t}
Charged(st, w) ==
  {r \in Request : Home[r] = w /\ Cost[r] > MaxTokens /\ st[r] \notin {"new", "asking"}}

Full(n, a) == Limited!Least(MaxTokens, n + a * Rate)

\* A bucket with n tokens, a ticks old, and the credit k of its worker.  What sleeping requests owe
\* is already taken from the bucket and not yet from the credit; t ticks from now the bucket covers
\* all of it but what belongs to those that then still sleep.
Covered(n, a, st, tm, w) ==
  \A t \in Nat : Full(n, a) + t * Rate + SumOf(Cost, Late(st, tm, w, t)) >= 0

Bucket(n, a, k, st, tm, w) ==
  /\ n \in Int /\ n <= MaxTokens /\ a \in 0 .. Limited!Enough /\ k \in Int
  /\ n + SumOf(Cost, Charged(st, w)) >= 0
  /\ k >= 0 /\ k >= Full(n, a) + SumOf(Cost, Owing(st, w))
  /\ Covered(n, a, st, tm, w)

States == {"new", "asking", "asleep", "served", "computing", "done"}

Computing(st, w) == {r \in Request : st[r] = "computing" /\ Home[r] = w}

LimitedInv ==
  /\ coroutine \in BOOLEAN
  /\ tokens \in [Worker -> Int] /\ age \in [Worker -> Nat] /\ credit \in [Worker -> Int]
  /\ state \in [Request -> States]
  /\ timer \in [Request -> 0 .. (Timeout + Limited!Enough)]
  /\ recent \in [Request -> 0 .. (Window + 1)]
  /\ call \subseteq {r \in Request : recent[r] > 0}
  /\ \A w \in Worker : Bucket(tokens[w], age[w], credit[w], state, timer, w)
  /\ \A r \in call : state[r] \in {"computing", "done"}
  /\ coroutine => /\ \A r \in call : state[r] = "computing"
                  /\ \A w \in Worker : Cardinality(Computing(state, w)) <= MaxConcurrent

LEMMA LimitedCounting ==
  (\A S : Limited!Cardinality(S) = Cardinality(S)) /\ \A S : Limited!IsFiniteSet(S) = IsFiniteSet(S)
  BY Zenon DEF Limited!Cardinality, Cardinality, Limited!IsFiniteSet, IsFiniteSet

LEMMA LimitedAssumed ==
  /\ IsFiniteSet(Request) /\ Home \in [Request -> Worker] /\ Cost \in [Request -> Nat \ {0}]
  /\ Rate \in Nat \ {0} /\ MaxTokens \in Nat \ {0} /\ MaxConcurrent \in Nat \ {0}
  /\ Timeout \in Nat \ {0} /\ Threads \in Nat \ {0} /\ Window \in Nat \ {0}
  <1>1. Limited!RateLimitedAssumption
    BY MCRequestsAssumption
  <1>2. Limited!IsFiniteSet(Request)
    BY <1>1 DEF Limited!RateLimitedAssumption
  <1>3. IsFiniteSet(Request)
    BY <1>2, LimitedCounting
  <1>. QED
    BY <1>1, <1>3 DEF Limited!RateLimitedAssumption

\* What requests cost together.
LEMMA Costs ==
  ASSUME NEW S \in SUBSET Request
  PROVE  /\ SumOf(Cost, S) \in Nat
         /\ \A r \in S : SumOf(Cost, S) = Cost[r] + SumOf(Cost, S \ {r})
         /\ \A r \in Request \ S : SumOf(Cost, S \cup {r}) = SumOf(Cost, S) + Cost[r]
  <1>1. \A T \in SUBSET Request : IsFiniteSet(T) /\ \A r \in T : Cost[r] \in Nat
    BY LimitedAssumed, FS_Subset
  <1>2. \A T \in SUBSET Request : SumOf(Cost, T) \in Nat
    BY <1>1, SumType
  <1>3. \A T \in SUBSET Request : \A r \in T : SumOf(Cost, T) = Cost[r] + SumOf(Cost, T \ {r})
    BY <1>1, SumTakes
  <1>4. ASSUME NEW r \in Request \ S PROVE SumOf(Cost, S \cup {r}) = SumOf(Cost, S) + Cost[r]
    <2>1. S \cup {r} \in SUBSET Request /\ r \in S \cup {r} /\ (S \cup {r}) \ {r} = S
      OBVIOUS
    <2>2. SumOf(Cost, S \cup {r}) = Cost[r] + SumOf(Cost, (S \cup {r}) \ {r})
      BY <1>3, <2>1
    <2>3. SumOf(Cost, S \cup {r}) = Cost[r] + SumOf(Cost, S)
      BY <2>1, <2>2
    <2>4. SumOf(Cost, S) \in Nat /\ Cost[r] \in Nat
      BY <1>1, <1>2, LimitedAssumed
    <2>. QED
      BY <2>3, <2>4
  <1>. QED
    BY <1>2, <1>3, <1>4

LEMMA MoreCost ==
  ASSUME NEW T \in SUBSET Request, NEW S \in SUBSET T
  PROVE  SumOf(Cost, S) <= SumOf(Cost, T)
  <1>. DEFINE W == {s \in SUBSET T : S \subseteq s /\ ~ (SumOf(Cost, S) <= SumOf(Cost, s))}
  <1>. SUFFICES ASSUME W # {} PROVE FALSE
    OBVIOUS
  <1>1. PICK s \in W : \A t \in W : Cardinality(s) <= Cardinality(t)
    <2>1. \A s \in W : IsFiniteSet(s)
      BY LimitedAssumed, FS_Subset
    <2>. HIDE DEF W
    <2>. QED
      BY <2>1, SmallestSet
  <1>2. s \in SUBSET Request /\ S \in SUBSET Request /\ S \subseteq s
        /\ ~ (SumOf(Cost, S) <= SumOf(Cost, s))
    OBVIOUS
  <1>3. SumOf(Cost, s) \in Nat /\ SumOf(Cost, S) \in Nat
    BY <1>2, Costs
  <1>4. PICK r \in s : r \notin S
    <2>1. s # S
      BY <1>2, <1>3
    <2>. QED
      BY <1>2, <2>1
  <1>5. SumOf(Cost, s) = Cost[r] + SumOf(Cost, s \ {r}) /\ SumOf(Cost, s \ {r}) \in Nat
    <2>1. s \ {r} \in SUBSET Request
      BY <1>2
    <2>. QED
      BY <1>2, <2>1, Costs
  <1>6. Cost[r] \in Nat
    BY <1>2, LimitedAssumed
  <1>7. s \ {r} \in W
    BY <1>2, <1>3, <1>4, <1>5, <1>6
  <1>8. Cardinality(s) <= Cardinality(s \ {r})
    <2>. HIDE DEF W
    <2>. QED
      BY <1>1, <1>7
  <1>9. IsFiniteSet(s)
    BY <1>2, LimitedAssumed, FS_Subset
  <1>. QED
    BY <1>4, <1>8, <1>9, OneLess

LEMMA EnoughIs ==
  Limited!Enough = MaxTokens + SumOf(Cost, Request) /\ SumOf(Cost, Request) \in Nat
  <1>1. SumOf(Cost, Request) \in Nat
    BY Costs
  <1>2. Limited!Enough = MaxTokens + SumOf(Cost, Request)
    BY Zenon DEF Limited!Enough, Limited!MapThenSumSet, Limited!MapThenFoldSet, IsSum, Taken,
                 SumTable, SumOf
  <1>. QED
    BY <1>1, <1>2

LEMMA FullIs ==
  ASSUME NEW n \in Int, n <= MaxTokens, NEW a \in Nat
  PROVE  /\ Full(n, a) \in Int /\ n <= Full(n, a) /\ Full(n, a) <= MaxTokens
         /\ Full(n, 0) = n
         /\ Full(n, a + 1) <= Full(n, a) + Rate /\ Full(n, a) <= Full(n, a + 1)
         /\ Full(n, a + 1) = MaxTokens \/ Full(n, a + 1) = Full(n, a) + Rate
  <1>. DEFINE p == a * Rate
  <1>1. p \in Nat /\ (a + 1) * Rate = p + Rate /\ 0 * Rate = 0 /\ Rate \in Nat
        /\ MaxTokens \in Nat
    BY LimitedAssumed
  <1>. HIDE DEF p
  <1>2. /\ Full(n, a) = IF MaxTokens < n + p THEN MaxTokens ELSE n + p
        /\ Full(n, a + 1) = IF MaxTokens < n + p + Rate THEN MaxTokens ELSE n + p + Rate
        /\ Full(n, 0) = IF MaxTokens < n THEN MaxTokens ELSE n
    BY <1>1 DEF Full, Limited!Least, p
  <1>. QED
    BY <1>1, <1>2

LEMMA TicksSuffice ==
  ASSUME NEW n \in Nat, n > 0
  PROVE  Limited!TicksFor(n) \in Nat /\ Limited!TicksFor(n) <= n
         /\ Limited!TicksFor(n) * Rate >= n
  <1>. DEFINE q == (n + Rate - 1) \div Rate
  <1>1. Rate \in Nat /\ Rate >= 1
    BY LimitedAssumed
  <1>2. q \in Int /\ q * Rate <= n + Rate - 1 /\ n + Rate - 1 < q * Rate + Rate
    BY <1>1
  <1>. HIDE DEF q
  <1>3. q >= 0 /\ q <= n
    BY <1>1, <1>2
  <1>4. q * Rate >= n
    BY <1>1, <1>2
  <1>. QED
    BY <1>2, <1>3, <1>4 DEF Limited!TicksFor, q

LEMMA OwingIsCharged ==
  ASSUME NEW st, NEW tm, NEW w, NEW t
  PROVE  /\ Owing(st, w) \in SUBSET Request /\ Charged(st, w) \in SUBSET Request
         /\ Late(st, tm, w, t) \in SUBSET Owing(st, w)
         /\ Late(st, tm, w, t) \in SUBSET Request
  BY DEF Owing, Charged, Late

\* A bucket is as before when no request begins or ends to owe.
LEMMA SameBucket ==
  ASSUME NEW st, NEW tm, NEW st2, NEW tm2, NEW w, NEW n, NEW a, NEW k,
         Bucket(n, a, k, st, tm, w),
         \A q \in Request : Home[q] = w /\ Cost[q] > MaxTokens =>
           /\ st[q] = "asleep" <=> st2[q] = "asleep"
           /\ st[q] \in {"new", "asking"} <=> st2[q] \in {"new", "asking"}
           /\ st[q] = "asleep" => tm[q] = tm2[q]
  PROVE  Bucket(n, a, k, st2, tm2, w)
  <1>1. Owing(st2, w) = Owing(st, w)
    BY DEF Owing
  <1>2. Charged(st2, w) = Charged(st, w)
    BY DEF Charged
  <1>3. \A t : Late(st2, tm2, w, t) = Late(st, tm, w, t)
    BY DEF Late, Owing
  <1>. QED
    BY <1>1, <1>2, <1>3 DEF Bucket, Covered

LEMMA LimitedStarts == Limited!Init => LimitedInv
  <1>. SUFFICES ASSUME Limited!Init PROVE LimitedInv
    OBVIOUS
  <1>1. /\ tokens = [w \in Worker |-> MaxTokens] /\ age = [w \in Worker |-> 0]
        /\ state = [r \in Request |-> "new"] /\ timer = [r \in Request |-> 0] /\ call = {}
        /\ credit = [w \in Worker |-> MaxTokens] /\ recent = [r \in Request |-> 0]
        /\ coroutine \in BOOLEAN
    BY DEF Limited!Init
  <1>2. MaxTokens \in Nat /\ Window \in Nat /\ Timeout \in Nat /\ Limited!Enough \in Nat
    BY LimitedAssumed, EnoughIs
  <1>3. ASSUME NEW w \in Worker PROVE Bucket(MaxTokens, 0, MaxTokens, state, timer, w)
    <2>1. Owing(state, w) = {} /\ Charged(state, w) = {}
          /\ \A t : Late(state, timer, w, t) = {}
      BY <1>1 DEF Owing, Charged, Late
    <2>2. SumOf(Cost, {}) = 0
      BY SumStep, FS_EmptySet
    <2>3. Full(MaxTokens, 0) = MaxTokens
      BY <1>2, FullIs
    <2>4. \A t \in Nat : t * Rate \in Nat
      BY LimitedAssumed
    <2>5. MaxTokens + 0 >= 0 /\ MaxTokens >= Full(MaxTokens, 0) + 0
          /\ \A t \in Nat : Full(MaxTokens, 0) + t * Rate + 0 >= 0
      BY <1>2, <2>3, <2>4
    <2>6. 0 \in 0 .. Limited!Enough /\ MaxTokens \in Int /\ MaxTokens <= MaxTokens
          /\ MaxTokens >= 0
      BY <1>2
    <2>. QED
      BY <2>1, <2>2, <2>5, <2>6 DEF Bucket, Covered
  <1>4. \A w \in Worker : Computing(state, w) = {}
    BY <1>1 DEF Computing
  <1>5. Cardinality({}) <= MaxConcurrent
    BY FS_EmptySet, LimitedAssumed
  <1>6. \A w \in Worker : Bucket(tokens[w], age[w], credit[w], state, timer, w)
    BY <1>1, <1>3
  <1>. QED
    BY <1>1, <1>2, <1>4, <1>5, <1>6 DEF LimitedInv, States

\* The types of a step that moves one request.
Moves(r, s) == state' = [state EXCEPT ![r] = s]

LEMMA ComputingFew ==
  ASSUME LimitedInv, NEW r \in Request, NEW s \in States \ {"computing"}, Moves(r, s)
  PROVE  coroutine => \A w \in Worker : Cardinality(Computing(state', w)) <= MaxConcurrent
  <1>. SUFFICES ASSUME coroutine, NEW w \in Worker
                PROVE  Cardinality(Computing(state', w)) <= MaxConcurrent
    OBVIOUS
  <1>1. Computing(state', w) \subseteq Computing(state, w)
    BY DEF Computing, LimitedInv, Moves
  <1>2. IsFiniteSet(Computing(state, w))
    BY LimitedAssumed, FS_Subset DEF Computing
  <1>3. /\ Cardinality(Computing(state', w)) <= Cardinality(Computing(state, w))
        /\ Cardinality(Computing(state', w)) \in Nat /\ Cardinality(Computing(state, w)) \in Nat
    BY <1>1, <1>2, FS_Subset, FS_CardinalityType
  <1>. QED
    BY <1>3, LimitedAssumed DEF LimitedInv

\* A step that leaves buckets, sleepers and computations alone.
LEMMA QuietMove ==
  ASSUME LimitedInv, NEW r \in Request, NEW s \in States \ {"computing"}, Moves(r, s),
         UNCHANGED <<coroutine, tokens, age, timer, credit, recent>>, call' \in SUBSET call,
         state[r] # "asleep", s # "asleep",
         state[r] \in {"new", "asking"} <=> s \in {"new", "asking"},
         r \in call' => s = "done", coroutine => r \notin call'
  PROVE  LimitedInv'
  <1>1. state' \in [Request -> States] /\ (\A q \in Request \ {r} : state'[q] = state[q])
        /\ state'[r] = s
    BY DEF LimitedInv, Moves
  <1>2. ASSUME NEW w \in Worker PROVE Bucket(tokens[w], age[w], credit[w], state', timer, w)
    <2>1. Bucket(tokens[w], age[w], credit[w], state, timer, w)
      BY DEF LimitedInv
    <2>2. ASSUME NEW q \in Request
          PROVE  /\ state[q] = "asleep" <=> state'[q] = "asleep"
                 /\ state[q] \in {"new", "asking"} <=> state'[q] \in {"new", "asking"}
      <3>1. CASE q = r
        BY <1>1, <3>1
      <3>2. CASE q # r
        BY <1>1, <3>2
      <3>. QED
        BY <3>1, <3>2
    <2>. QED
      BY <2>1, <2>2, SameBucket
  <1>3. coroutine => \A w \in Worker : Cardinality(Computing(state', w)) <= MaxConcurrent
    BY ComputingFew
  <1>4. ASSUME NEW q \in call'
        PROVE  state'[q] \in {"computing", "done"} /\ (coroutine => state'[q] = "computing")
    <2>1. q \in Request /\ state[q] \in {"computing", "done"}
          /\ (coroutine => state[q] = "computing")
      BY DEF LimitedInv
    <2>2. CASE q = r
      BY <1>1, <2>2
    <2>3. CASE q # r
      BY <1>1, <2>1, <2>3
    <2>. QED
      BY <2>2, <2>3
  <1>5. \A w \in Worker : Bucket(tokens'[w], age'[w], credit'[w], state', timer', w)
    BY <1>2
  <1>. QED
    BY <1>1, <1>3, <1>4, <1>5 DEF LimitedInv

LEMMA DecodeKeeps == ASSUME LimitedInv, NEW r \in Request, Limited!Decode(r) PROVE LimitedInv'
  <1>1. /\ state[r] = "new" /\ Moves(r, "asking") /\ call' = call
        /\ UNCHANGED <<coroutine, tokens, age, timer, credit, recent>>
    BY DEF Limited!Decode, Moves
  <1>2. r \notin call
    BY <1>1 DEF LimitedInv
  <1>. QED
    BY <1>1, <1>2, QuietMove DEF States

LEMMA ReturnKeeps == ASSUME LimitedInv, NEW r \in Request, Limited!Return(r) PROVE LimitedInv'
  <1>1. state[r] \in {"computing", "done"}
    BY DEF Limited!Return, LimitedInv
  <1>2. /\ Moves(r, "done") /\ call' = call \ {r}
        /\ UNCHANGED <<coroutine, tokens, age, timer, credit, recent>>
    BY DEF Limited!Return, Moves
  <1>. QED
    BY <1>1, <1>2, QuietMove DEF States

LEMMA TimedOutKeeps == ASSUME LimitedInv, NEW r \in Request, Limited!TimedOut(r) PROVE LimitedInv'
  <1>1. state[r] = "computing"
    BY DEF Limited!TimedOut
  <1>2. /\ Moves(r, "done") /\ call' \in SUBSET call /\ (coroutine => r \notin call')
        /\ UNCHANGED <<coroutine, tokens, age, timer, credit, recent>>
    BY DEF Limited!TimedOut, Limited!CallsLeft, Moves
  <1>. QED
    BY <1>1, <1>2, QuietMove DEF States

LEMMA CallKeeps == ASSUME LimitedInv, NEW r \in Request, Limited!Call(r) PROVE LimitedInv'
  <1>1. /\ state[r] = "computing" /\ call' = call \cup {r} /\ recent' = [recent EXCEPT ![r] = 1]
        /\ UNCHANGED <<coroutine, tokens, age, state, timer, credit>>
    BY DEF Limited!Call
  <1>2. 1 \in 0 .. (Window + 1) /\ 1 > 0
    BY LimitedAssumed
  <1>3. recent' \in [Request -> 0 .. (Window + 1)] /\ recent'[r] = 1
        /\ \A q \in Request \ {r} : recent'[q] = recent[q]
    BY <1>1, <1>2 DEF LimitedInv
  <1>4. call' \subseteq {q \in Request : recent'[q] > 0}
    BY <1>1, <1>2, <1>3 DEF LimitedInv
  <1>. QED
    BY <1>1, <1>3, <1>4 DEF LimitedInv

LEMMA EnterKeeps == ASSUME LimitedInv, NEW r \in Request, Limited!Enter(r) PROVE LimitedInv'
  <1>1. /\ state[r] = "served" /\ state' = [state EXCEPT ![r] = "computing"]
        /\ timer' = [timer EXCEPT ![r] = Timeout]
        /\ UNCHANGED <<coroutine, tokens, age, call, credit, recent>>
    BY DEF Limited!Enter
  <1>2. /\ state' \in [Request -> States] /\ state'[r] = "computing"
        /\ \A q \in Request \ {r} : state'[q] = state[q] /\ timer'[q] = timer[q]
    BY <1>1 DEF LimitedInv, States
  <1>3. timer' \in [Request -> 0 .. (Timeout + Limited!Enough)]
    <2>1. Timeout \in 0 .. (Timeout + Limited!Enough)
      BY LimitedAssumed, EnoughIs
    <2>. QED
      BY <1>1, <2>1 DEF LimitedInv
  <1>4. ASSUME NEW w \in Worker PROVE Bucket(tokens[w], age[w], credit[w], state', timer', w)
    <2>1. Bucket(tokens[w], age[w], credit[w], state, timer, w)
      BY DEF LimitedInv
    <2>2. \A q \in Request : Home[q] = w /\ Cost[q] > MaxTokens =>
            /\ state[q] = "asleep" <=> state'[q] = "asleep"
            /\ state[q] \in {"new", "asking"} <=> state'[q] \in {"new", "asking"}
            /\ state[q] = "asleep" => timer[q] = timer'[q]
      BY <1>1, <1>2
    <2>. QED
      BY <2>1, <2>2, SameBucket
  <1>5. ASSUME coroutine, NEW w \in Worker
        PROVE  Cardinality(Computing(state', w)) <= MaxConcurrent
    <2>1. IsFiniteSet(Computing(state, w)) /\ Cardinality(Computing(state, w)) \in Nat
      BY LimitedAssumed, FS_Subset, FS_CardinalityType DEF Computing
    <2>2. CASE w = Home[r]
      <3>1. Limited!Cardinality(Limited!In("computing") \cap Limited!At(w)) < MaxConcurrent
        BY <2>2 DEF Limited!Enter
      <3>2. Limited!In("computing") \cap Limited!At(w) = Computing(state, w)
        BY DEF Limited!In, Limited!At, Computing
      <3>3. Cardinality(Computing(state, w)) < MaxConcurrent
        BY <3>1, <3>2, LimitedCounting
      <3>4. Computing(state', w) = Computing(state, w) \cup {r} /\ r \notin Computing(state, w)
        BY <1>1, <1>2, <2>2 DEF Computing
      <3>5. Cardinality(Computing(state', w)) = Cardinality(Computing(state, w)) + 1
        BY <2>1, <3>4, FS_AddElement
      <3>. QED
        BY <2>1, <3>3, <3>5, LimitedAssumed
    <2>3. CASE w # Home[r]
      <3>1. Computing(state', w) = Computing(state, w)
        BY <1>2, <2>3 DEF Computing
      <3>. QED
        BY <1>5, <3>1 DEF LimitedInv
    <2>. QED
      BY <2>2, <2>3
  <1>6. \A w \in Worker : Bucket(tokens'[w], age'[w], credit'[w], state', timer', w)
    BY <1>1, <1>4
  <1>7. \A q \in call' : state'[q] \in {"computing", "done"}
        /\ (coroutine => state'[q] = "computing")
    BY <1>1, <1>2 DEF LimitedInv
  <1>. QED
    BY <1>1, <1>2, <1>3, <1>5, <1>6, <1>7 DEF LimitedInv

LEMMA WakeKeeps == ASSUME LimitedInv, NEW r \in Request, Limited!Wake(r) PROVE LimitedInv'
  <1>1. /\ state[r] = "asleep" /\ timer[r] = 0
        /\ UNCHANGED <<coroutine, tokens, age, timer, call, recent>>
    BY DEF Limited!Wake
  <1>2. CASE Cost[r] <= MaxTokens
    <2>1. Moves(r, "asking") /\ credit' = credit
      BY <1>2 DEF Limited!Wake, Moves
    <2>2. /\ state' \in [Request -> States] /\ state'[r] = "asking"
          /\ \A q \in Request \ {r} : state'[q] = state[q]
      BY <2>1 DEF LimitedInv, States, Moves
    <2>3. ASSUME NEW w \in Worker PROVE Bucket(tokens[w], age[w], credit[w], state', timer, w)
      <3>1. Bucket(tokens[w], age[w], credit[w], state, timer, w)
        BY DEF LimitedInv
      <3>2. \A q \in Request : Home[q] = w /\ Cost[q] > MaxTokens =>
              /\ state[q] = "asleep" <=> state'[q] = "asleep"
              /\ state[q] \in {"new", "asking"} <=> state'[q] \in {"new", "asking"}
              /\ state[q] = "asleep" => timer[q] = timer[q]
        <4>1. Cost[r] \in Nat /\ MaxTokens \in Nat
          BY LimitedAssumed
        <4>. QED
          BY <1>2, <2>2, <4>1
      <3>. QED
        BY <3>1, <3>2, SameBucket
    <2>4. coroutine => \A w \in Worker : Cardinality(Computing(state', w)) <= MaxConcurrent
      BY <2>1, ComputingFew DEF States
    <2>5. \A w \in Worker : Bucket(tokens'[w], age'[w], credit'[w], state', timer', w)
      BY <1>1, <2>1, <2>3
    <2>6. \A q \in call' : state'[q] \in {"computing", "done"}
          /\ (coroutine => state'[q] = "computing")
      BY <1>1, <2>2 DEF LimitedInv
    <2>. QED
      BY <1>1, <2>1, <2>2, <2>4, <2>5, <2>6 DEF LimitedInv
  <1>3. CASE ~ (Cost[r] <= MaxTokens)
    <2>. DEFINE h == Home[r]
                n == Cost[r]
    <2>0. h \in Worker /\ n \in Nat /\ n > MaxTokens /\ MaxTokens \in Nat
      BY <1>3, LimitedAssumed
    <2>1. Moves(r, "served") /\ credit' = [credit EXCEPT ![h] = credit[h] - n]
      BY <1>3 DEF Limited!Wake, Moves
    <2>2. /\ state' \in [Request -> States] /\ state'[r] = "served"
          /\ \A q \in Request \ {r} : state'[q] = state[q]
      BY <2>1 DEF LimitedInv, States, Moves
    <2>3. ASSUME NEW w \in Worker, w # h
          PROVE  Bucket(tokens[w], age[w], credit[w], state', timer, w)
      <3>1. Bucket(tokens[w], age[w], credit[w], state, timer, w)
        BY DEF LimitedInv
      <3>2. \A q \in Request : Home[q] = w /\ Cost[q] > MaxTokens =>
              /\ state[q] = "asleep" <=> state'[q] = "asleep"
              /\ state[q] \in {"new", "asking"} <=> state'[q] \in {"new", "asking"}
              /\ state[q] = "asleep" => timer[q] = timer[q]
        BY <2>2, <2>3
      <3>. QED
        BY <3>1, <3>2, SameBucket
    <2>4. Bucket(tokens[h], age[h], credit[h] - n, state', timer, h)
      <3>. DEFINE m == tokens[h]
                  a == age[h]
                  k == credit[h]
                  D == Owing(state, h)
      <3>1. Bucket(m, a, k, state, timer, h)
        BY <2>0 DEF LimitedInv
      <3>2. /\ Owing(state', h) = D \ {r} /\ r \in D /\ D \in SUBSET Request
            /\ Charged(state', h) = Charged(state, h)
            /\ \A t \in Nat : Late(state', timer, h, t) = Late(state, timer, h, t)
            /\ Late(state, timer, h, 0) \subseteq D \ {r}
        BY <1>1, <2>0, <2>2 DEF Owing, Charged, Late
      <3>. HIDE DEF m, a, k, D, h, n
      <3>3. SumOf(Cost, D) = n + SumOf(Cost, D \ {r})
        BY <3>2, Costs DEF n
      <3>4. SumOf(Cost, Late(state, timer, h, 0)) <= SumOf(Cost, D \ {r})
        <4>1. D \ {r} \in SUBSET Request
          BY <3>2
        <4>. QED
          BY <3>2, <4>1, MoreCost
      <3>5. /\ SumOf(Cost, D \ {r}) \in Nat /\ SumOf(Cost, Late(state, timer, h, 0)) \in Nat
        <4>1. D \ {r} \in SUBSET Request /\ Late(state, timer, h, 0) \in SUBSET Request
          BY <3>2
        <4>. QED
          BY <4>1, Costs
      <3>6. Full(m, a) + 0 * Rate + SumOf(Cost, Late(state, timer, h, 0)) >= 0
        BY <3>1 DEF Bucket, Covered
      <3>7. Full(m, a) \in Int
        BY <3>1, FullIs, EnoughIs DEF Bucket
      <3>8. 0 * Rate = 0
        BY LimitedAssumed
      <3>9. k >= Full(m, a) + (n + SumOf(Cost, D \ {r})) /\ k \in Int
        BY <3>1, <3>3 DEF Bucket, D
      <3>10. k - n >= 0 /\ k - n >= Full(m, a) + SumOf(Cost, D \ {r}) /\ k - n \in Int
        BY <2>0, <3>4, <3>5, <3>6, <3>7, <3>8, <3>9
      <3>11. Bucket(m, a, k - n, state', timer, h)
        BY <3>1, <3>2, <3>10 DEF Bucket, Covered
      <3>. QED
        BY <3>11 DEF m, a, k
    <2>5. \A w \in Worker : credit'[w] = IF w = h THEN credit[h] - n ELSE credit[w]
      BY <2>0, <2>1 DEF LimitedInv
    <2>6. \A w \in Worker : Bucket(tokens'[w], age'[w], credit'[w], state', timer', w)
      <3>. HIDE DEF h, n
      <3>. QED
        BY <1>1, <2>3, <2>4, <2>5
    <2>7. credit' \in [Worker -> Int]
      <3>1. credit[h] - n \in Int
        BY <2>0 DEF LimitedInv
      <3>. QED
        BY <2>1, <3>1 DEF LimitedInv
    <2>8. coroutine => \A w \in Worker : Cardinality(Computing(state', w)) <= MaxConcurrent
      BY <2>1, ComputingFew DEF States
    <2>9. \A q \in call' : state'[q] \in {"computing", "done"}
          /\ (coroutine => state'[q] = "computing")
      BY <1>1, <2>2 DEF LimitedInv
    <2>. QED
      BY <1>1, <2>2, <2>6, <2>7, <2>8, <2>9 DEF LimitedInv
  <1>. QED
    BY <1>2, <1>3

\* A bucket that starts a new age with what a request for n tokens leaves in it.
LEMMA RefilledIs ==
  ASSUME LimitedInv, NEW w \in Worker
  PROVE  /\ Limited!Refilled(w) = Full(tokens[w], age[w])
         /\ Full(tokens[w], age[w]) \in Int /\ tokens[w] <= Full(tokens[w], age[w])
         /\ Full(tokens[w], age[w]) <= MaxTokens
         /\ Bucket(tokens[w], age[w], credit[w], state, timer, w)
  <1>1. Bucket(tokens[w], age[w], credit[w], state, timer, w)
    BY DEF LimitedInv
  <1>2. tokens[w] \in Int /\ tokens[w] <= MaxTokens /\ age[w] \in Nat
    BY <1>1, EnoughIs DEF Bucket, LimitedInv
  <1>. QED
    BY <1>1, <1>2, FullIs DEF Limited!Refilled, Full

\* What the new tokens of a bucket are by the time they are asked for.
LEMMA NewAge ==
  ASSUME NEW m \in Int, m <= MaxTokens PROVE Full(m, 0) = m /\ 0 \in 0 .. Limited!Enough
  <1>1. Full(m, 0) = m
    BY FullIs
  <1>2. Limited!Enough \in Nat
    BY EnoughIs, LimitedAssumed
  <1>. QED
    BY <1>1, <1>2

\* A bucket that serves a request at once.
LEMMA ServedBucket ==
  ASSUME NEW n \in Int, NEW a \in Nat, NEW k, NEW st, NEW tm, NEW w, Bucket(n, a, k, st, tm, w),
         NEW c \in Nat, Full(n, a) >= c
  PROVE  Bucket(Full(n, a) - c, 0, k - c, st, tm, w)
  <1>. DEFINE f == Full(n, a)
  <1>1. n <= MaxTokens /\ k \in Int /\ k >= f + SumOf(Cost, Owing(st, w))
    BY DEF Bucket
  <1>2. f \in Int /\ f <= MaxTokens /\ MaxTokens \in Nat /\ f >= c
    BY <1>1, FullIs, LimitedAssumed
  <1>. HIDE DEF f
  <1>3. f - c \in Int /\ f - c <= MaxTokens /\ f - c >= 0
    BY <1>2
  <1>4. Full(f - c, 0) = f - c /\ 0 \in 0 .. Limited!Enough
    BY <1>3, NewAge
  <1>5. SumOf(Cost, Charged(st, w)) \in Nat /\ SumOf(Cost, Owing(st, w)) \in Nat
    BY OwingIsCharged, Costs
  <1>6. ASSUME NEW t \in Nat PROVE f - c + t * Rate + SumOf(Cost, Late(st, tm, w, t)) >= 0
    <2>1. Late(st, tm, w, t) \in SUBSET Request
      BY OwingIsCharged
    <2>2. SumOf(Cost, Late(st, tm, w, t)) \in Nat
      BY <2>1, Costs
    <2>3. t * Rate \in Nat
      BY LimitedAssumed
    <2>. QED
      BY <1>3, <2>2, <2>3
  <1>7. /\ f - c + SumOf(Cost, Charged(st, w)) >= 0
        /\ k - c \in Int /\ k - c >= 0 /\ k - c >= f - c + SumOf(Cost, Owing(st, w))
    BY <1>1, <1>2, <1>3, <1>5
  <1>8. Bucket(f - c, 0, k - c, st, tm, w)
    BY <1>3, <1>4, <1>6, <1>7 DEF Bucket, Covered
  <1>. QED
    BY <1>8 DEF f

\* A bucket that is only refilled: the request sleeps and asks again.
LEMMA RefilledBucket ==
  ASSUME NEW n \in Int, NEW a \in Nat, NEW k, NEW st, NEW tm, NEW w, Bucket(n, a, k, st, tm, w)
  PROVE  Bucket(Full(n, a), 0, k, st, tm, w)
  <1>. DEFINE f == Full(n, a)
  <1>1. n <= MaxTokens
    BY DEF Bucket
  <1>2. f \in Int /\ f <= MaxTokens /\ f >= n
    BY <1>1, FullIs
  <1>3. Full(f, 0) = f /\ 0 \in 0 .. Limited!Enough
    BY <1>2, NewAge
  <1>4. SumOf(Cost, Charged(st, w)) \in Nat /\ n + SumOf(Cost, Charged(st, w)) >= 0
    BY OwingIsCharged, Costs DEF Bucket
  <1>5. f + SumOf(Cost, Charged(st, w)) >= 0
    <2>. HIDE DEF f
    <2>. QED
      BY <1>2, <1>4
  <1>6. /\ k \in Int /\ k >= 0 /\ k >= f + SumOf(Cost, Owing(st, w))
        /\ \A t \in Nat : f + t * Rate + SumOf(Cost, Late(st, tm, w, t)) >= 0
    BY DEF Bucket, Covered
  <1>. HIDE DEF f
  <1>7. Bucket(f, 0, k, st, tm, w)
    BY <1>2, <1>3, <1>5, <1>6 DEF Bucket, Covered
  <1>. QED
    BY <1>7 DEF f

\* What a request that takes all it needs leaves in a bucket.
Rest(n, a, r) == Full(n, a) - Cost[r]

\* A bucket from which a request takes more than it holds, and sleeps until that has come back.
LEMMA IndebtedBucket ==
  ASSUME NEW n \in Int, NEW a \in Nat, NEW k, NEW st, NEW tm, NEW w, Bucket(n, a, k, st, tm, w),
         NEW st2, NEW tm2, NEW r \in Request, Home[r] = w, Cost[r] > MaxTokens,
         st[r] = "asking", st2[r] = "asleep", tm2[r] = Limited!TicksFor(Cost[r] - Full(n, a)),
         \A q \in Request \ {r} : st2[q] = st[q] /\ tm2[q] = tm[q]
  PROVE  Bucket(Rest(n, a, r), 0, k, st2, tm2, w)
  <1>. DEFINE f == Full(n, a)
              c == Cost[r]
              D == Owing(st, w)
              C == Charged(st, w)
  <1>1. n <= MaxTokens
    BY DEF Bucket
  <1>2. f \in Int /\ f <= MaxTokens /\ f >= n /\ c \in Nat /\ c > MaxTokens /\ MaxTokens \in Nat
    BY <1>1, FullIs, LimitedAssumed
  <1>3. /\ D \in SUBSET Request /\ r \in Request \ D /\ Owing(st2, w) = D \cup {r}
        /\ C \in SUBSET Request /\ r \in Request \ C /\ Charged(st2, w) = C \cup {r}
    BY <1>2 DEF Owing, Charged
  <1>4. /\ k \in Int /\ k >= 0 /\ k >= f + SumOf(Cost, D) /\ n + SumOf(Cost, C) >= 0
        /\ \A t \in Nat : f + t * Rate + SumOf(Cost, Late(st, tm, w, t)) >= 0
    BY DEF Bucket, Covered
  <1>5. /\ \A t \in Nat : Late(st, tm, w, t) \in SUBSET Request /\ r \notin Late(st, tm, w, t)
        /\ \A t \in Nat : Late(st2, tm2, w, t)
             = IF Limited!TicksFor(c - f) > t THEN Late(st, tm, w, t) \cup {r}
               ELSE Late(st, tm, w, t)
    <2>1. \A t \in Nat : Late(st, tm, w, t) \in SUBSET Request /\ r \notin Late(st, tm, w, t)
      BY DEF Late, Owing
    <2>2. ASSUME NEW t \in Nat
          PROVE  Late(st2, tm2, w, t)
                   = IF tm2[r] > t THEN Late(st, tm, w, t) \cup {r} ELSE Late(st, tm, w, t)
      <3>1. /\ r \in Owing(st2, w)
            /\ \A q \in Request : q # r => (q \in Owing(st2, w) <=> q \in Owing(st, w))
            /\ Owing(st2, w) \in SUBSET Request
        BY <1>3
      <3>. QED
        BY <2>1, <3>1, <1>3, Zenon DEF Late
    <2>. QED
      BY <2>1, <2>2
  <1>6. /\ SumOf(Cost, C) \in Nat /\ SumOf(Cost, D) \in Nat
        /\ SumOf(Cost, C \cup {r}) = SumOf(Cost, C) + c
        /\ SumOf(Cost, D \cup {r}) = SumOf(Cost, D) + c
    <2>. HIDE DEF C, D
    <2>. QED
      BY <1>3, Costs
  <1>7. \A t \in Nat : /\ SumOf(Cost, Late(st, tm, w, t)) \in Nat
                       /\ SumOf(Cost, Late(st, tm, w, t) \cup {r})
                            = SumOf(Cost, Late(st, tm, w, t)) + c
    <2>. SUFFICES ASSUME NEW t \in Nat
                  PROVE  /\ SumOf(Cost, Late(st, tm, w, t)) \in Nat
                         /\ SumOf(Cost, Late(st, tm, w, t) \cup {r})
                              = SumOf(Cost, Late(st, tm, w, t)) + c
      OBVIOUS
    <2>1. Late(st, tm, w, t) \in SUBSET Request /\ r \in Request \ Late(st, tm, w, t)
      BY <1>5
    <2>. QED
      BY <2>1, Costs
  <1>. HIDE DEF f, c, C, D
  <1>8. /\ c - f \in Nat /\ c - f > 0
    BY <1>2
  <1>9. Limited!TicksFor(c - f) \in Nat /\ Limited!TicksFor(c - f) * Rate >= c - f
    BY <1>8, TicksSuffice
  <1>10. ASSUME NEW t \in Nat PROVE f - c + t * Rate + SumOf(Cost, Late(st2, tm2, w, t)) >= 0
    <2>. DEFINE s == SumOf(Cost, Late(st, tm, w, t))
                p == t * Rate
                x == Limited!TicksFor(c - f)
    <2>1. s \in Nat /\ SumOf(Cost, Late(st, tm, w, t) \cup {r}) = s + c /\ f + p + s >= 0
      BY <1>4, <1>7
    <2>2. Rate \in Nat /\ p \in Nat
      BY LimitedAssumed
    <2>3. CASE x > t
      <3>1. SumOf(Cost, Late(st2, tm2, w, t)) = s + c
        BY <1>5, <2>1, <2>3
      <3>. HIDE DEF s, p, x
      <3>2. f - c + p + SumOf(Cost, Late(st2, tm2, w, t)) >= 0
        BY <1>2, <2>1, <2>2, <3>1
      <3>. QED
        BY <3>2 DEF p
    <2>4. CASE ~ (x > t)
      <3>1. SumOf(Cost, Late(st2, tm2, w, t)) = s
        BY <1>5, <2>4
      <3>2. x * Rate <= p
        <4>1. x \in Nat /\ x <= t
          BY <1>9, <2>4
        <4>. HIDE DEF x
        <4>. QED
          BY <4>1, <2>2
      <3>3. x * Rate >= c - f /\ x * Rate \in Nat
        BY <1>9, <2>2
      <3>. DEFINE y == x * Rate
      <3>4. y <= p /\ y >= c - f /\ y \in Nat
        BY <3>2, <3>3
      <3>. HIDE DEF s, p, y
      <3>5. f - c + p + SumOf(Cost, Late(st2, tm2, w, t)) >= 0
        BY <1>2, <2>1, <2>2, <3>1, <3>4
      <3>. QED
        BY <3>5 DEF p
    <2>. QED
      BY <2>3, <2>4
  <1>11. f - c \in Int /\ f - c <= MaxTokens
    BY <1>2
  <1>12. Full(f - c, 0) = f - c /\ 0 \in 0 .. Limited!Enough
    BY <1>11, NewAge
  <1>13. f - c + (SumOf(Cost, C) + c) >= 0 /\ k >= f - c + (SumOf(Cost, D) + c)
    BY <1>2, <1>4, <1>6
  <1>14. Bucket(f - c, 0, k, st2, tm2, w)
    BY <1>3, <1>4, <1>6, <1>10, <1>11, <1>12, <1>13 DEF Bucket, Covered
  <1>. QED
    BY <1>14 DEF f, c, Rest

\* No request waits longer than all requests together could make it wait.
LEMMA WaitBounded ==
  ASSUME LimitedInv, NEW r \in Request, state[r] = "asking",
         Limited!Refilled(Home[r]) < Cost[r]
  PROVE  Limited!TicksFor(Cost[r] - Limited!Refilled(Home[r])) \in 0 .. (Timeout + Limited!Enough)
  <1>. DEFINE w == Home[r]
              c == Cost[r]
              f == Limited!Refilled(w)
              C == Charged(state, w)
  <1>1. w \in Worker /\ c \in Nat /\ Timeout \in Nat /\ MaxTokens \in Nat
    BY LimitedAssumed
  <1>2. f \in Int /\ tokens[w] <= f /\ tokens[w] \in Int /\ tokens[w] + SumOf(Cost, C) >= 0
    BY <1>1, RefilledIs DEF Bucket
  <1>3. C \in SUBSET Request /\ r \in Request \ C
    BY DEF Charged
  <1>4. SumOf(Cost, C) \in Nat /\ SumOf(Cost, C \cup {r}) = SumOf(Cost, C) + c
    <2>. HIDE DEF C
    <2>. QED
      BY <1>3, Costs
  <1>5. SumOf(Cost, C \cup {r}) <= SumOf(Cost, Request)
    <2>1. C \cup {r} \in SUBSET Request
      BY <1>3
    <2>. HIDE DEF C
    <2>. QED
      BY <2>1, MoreCost
  <1>6. f < c
    OBVIOUS
  <1>. HIDE DEF f, c, C
  <1>7. c - f \in Nat /\ c - f > 0 /\ c - f <= SumOf(Cost, Request)
    BY <1>1, <1>2, <1>4, <1>5, <1>6, EnoughIs
  <1>8. Limited!TicksFor(c - f) \in Nat /\ Limited!TicksFor(c - f) <= c - f
    BY <1>7, TicksSuffice
  <1>9. Limited!TicksFor(c - f) \in 0 .. (Timeout + Limited!Enough)
    BY <1>1, <1>7, <1>8, EnoughIs
  <1>. QED
    BY <1>9 DEF f, c

LEMMA AcquireKeeps == ASSUME LimitedInv, NEW r \in Request, Limited!Acquire(r) PROVE LimitedInv'
  <1>. DEFINE h == Home[r]
              n == Cost[r]
              f == Limited!Refilled(h)
  <1>1. /\ h \in Worker /\ n \in Nat /\ MaxTokens \in Nat /\ state[r] = "asking"
        /\ age' = [age EXCEPT ![h] = 0] /\ call' = call /\ recent' = recent
        /\ coroutine' = coroutine
    BY LimitedAssumed DEF Limited!Acquire
  <1>2. /\ f = Full(tokens[h], age[h]) /\ f \in Int
        /\ tokens[h] \in Int /\ age[h] \in Nat
        /\ Bucket(tokens[h], age[h], credit[h], state, timer, h)
    BY <1>1, RefilledIs DEF LimitedInv
  <1>3. PICK m \in Int, k \in Int, s \in {"served", "asleep"} :
          /\ tokens' = [tokens EXCEPT ![h] = m] /\ credit' = [credit EXCEPT ![h] = k]
          /\ Moves(r, s)
          /\ \/ timer' = timer
             \/ timer' = [timer EXCEPT ![r] = Limited!TicksFor(n - f)] /\ f < n
          /\ Bucket(m, 0, k, state', timer', h)
    <2>1. /\ state \in [Request -> States] /\ timer \in [Request -> 0 .. (Timeout + Limited!Enough)]
          /\ credit \in [Worker -> Int] /\ credit = [credit EXCEPT ![h] = credit[h]]
          /\ credit[h] \in Int
      BY <1>1 DEF LimitedInv
    <2>2. CASE f >= n
      <3>1. /\ tokens' = [tokens EXCEPT ![h] = f - n]
            /\ credit' = [credit EXCEPT ![h] = credit[h] - n]
            /\ Moves(r, "served") /\ timer' = timer
        BY <1>1, <1>2, <2>2 DEF Limited!Acquire, Moves
      <3>2. n <= MaxTokens
        <4>1. f <= MaxTokens
          BY <1>1, <1>2, RefilledIs
        <4>. HIDE DEF f, n
        <4>. QED
          BY <1>1, <1>2, <2>2, <4>1
      <3>3. Bucket(f - n, 0, credit[h] - n, state, timer, h)
        BY <1>1, <1>2, <2>2, ServedBucket
      <3>4. \A q \in Request : Home[q] = h /\ Cost[q] > MaxTokens =>
              /\ state[q] = "asleep" <=> state'[q] = "asleep"
              /\ state[q] \in {"new", "asking"} <=> state'[q] \in {"new", "asking"}
              /\ state[q] = "asleep" => timer[q] = timer'[q]
        BY <1>1, <2>1, <3>1, <3>2 DEF Moves
      <3>5. Bucket(f - n, 0, credit[h] - n, state', timer', h)
        BY <3>3, <3>4, SameBucket
      <3>6. f - n \in Int /\ credit[h] - n \in Int
        BY <1>1, <1>2, <2>1
      <3>. QED
        BY <3>1, <3>5, <3>6
    <2>3. CASE f < n /\ n <= MaxTokens
      <3>1. /\ tokens' = [tokens EXCEPT ![h] = f] /\ credit' = credit
            /\ Moves(r, "asleep") /\ timer' = [timer EXCEPT ![r] = Limited!TicksFor(n - f)]
        BY <1>1, <1>2, <2>3 DEF Limited!Acquire, Moves
      <3>2. Bucket(f, 0, credit[h], state, timer, h)
        BY <1>2, RefilledBucket
      <3>3. \A q \in Request : Home[q] = h /\ Cost[q] > MaxTokens =>
              /\ state[q] = "asleep" <=> state'[q] = "asleep"
              /\ state[q] \in {"new", "asking"} <=> state'[q] \in {"new", "asking"}
              /\ state[q] = "asleep" => timer[q] = timer'[q]
        BY <1>1, <2>1, <2>3, <3>1 DEF Moves
      <3>4. Bucket(f, 0, credit[h], state', timer', h)
        BY <3>2, <3>3, SameBucket
      <3>. QED
        BY <1>2, <2>1, <2>3, <3>1, <3>4
    <2>4. CASE f < n /\ n > MaxTokens
      <3>1. /\ tokens' = [tokens EXCEPT ![h] = f - n] /\ credit' = credit
            /\ Moves(r, "asleep") /\ timer' = [timer EXCEPT ![r] = Limited!TicksFor(n - f)]
        BY <1>1, <1>2, <2>4 DEF Limited!Acquire, Limited!Balance, Moves
      <3>2. /\ state'[r] = "asleep" /\ timer'[r] = Limited!TicksFor(n - f)
            /\ \A q \in Request \ {r} : state'[q] = state[q] /\ timer'[q] = timer[q]
        BY <2>1, <3>1 DEF Moves
      <3>3. Bucket(f - n, 0, credit[h], state', timer', h)
        <4>1. timer'[r] = Limited!TicksFor(Cost[r] - Full(tokens[h], age[h]))
          BY <1>2, <3>2
        <4>2. /\ tokens[h] \in Int /\ age[h] \in Nat /\ Cost[r] > MaxTokens
              /\ Bucket(tokens[h], age[h], credit[h], state, timer, h) /\ state[r] = "asking"
          BY <1>1, <1>2, <2>4
        <4>3. Bucket(Rest(tokens[h], age[h], r), 0, credit[h], state', timer', h)
          BY <3>2, <4>1, <4>2, IndebtedBucket
        <4>. QED
          BY <1>2, <4>3 DEF Rest
      <3>4. f - n \in Int
        BY <1>1, <1>2
      <3>. QED
        BY <2>1, <2>4, <3>1, <3>3, <3>4
    <2>. HIDE DEF f, n
    <2>. QED
      BY <1>1, <1>2, <2>2, <2>3, <2>4
  <1>4. /\ state' \in [Request -> States] /\ state'[r] = s /\ s \in States \ {"computing"}
        /\ \A q \in Request \ {r} : state'[q] = state[q]
    BY <1>3 DEF LimitedInv, States, Moves
  <1>5. /\ timer' \in [Request -> 0 .. (Timeout + Limited!Enough)]
        /\ \A q \in Request \ {r} : timer'[q] = timer[q]
    <2>1. f < n => Limited!TicksFor(n - f) \in 0 .. (Timeout + Limited!Enough)
      BY <1>1, WaitBounded
    <2>. HIDE DEF f, n
    <2>. QED
      BY <1>3, <2>1 DEF LimitedInv
  <1>6. /\ tokens' \in [Worker -> Int] /\ age' \in [Worker -> Nat] /\ credit' \in [Worker -> Int]
        /\ tokens'[h] = m /\ age'[h] = 0 /\ credit'[h] = k
        /\ \A w \in Worker \ {h} :
             tokens'[w] = tokens[w] /\ age'[w] = age[w] /\ credit'[w] = credit[w]
    BY <1>1, <1>3 DEF LimitedInv
  <1>7. ASSUME NEW w \in Worker
        PROVE  Bucket(tokens'[w], age'[w], credit'[w], state', timer', w)
    <2>1. CASE w = h
      <3>1. Bucket(tokens'[h], age'[h], credit'[h], state', timer', h)
        BY <1>3, <1>6
      <3>. HIDE DEF h
      <3>. QED
        BY <2>1, <3>1
    <2>2. CASE w # h
      <3>1. Bucket(tokens[w], age[w], credit[w], state, timer, w)
        BY DEF LimitedInv
      <3>2. \A q \in Request : Home[q] = w /\ Cost[q] > MaxTokens =>
              /\ state[q] = "asleep" <=> state'[q] = "asleep"
              /\ state[q] \in {"new", "asking"} <=> state'[q] \in {"new", "asking"}
              /\ state[q] = "asleep" => timer[q] = timer'[q]
        BY <1>4, <1>5, <2>2
      <3>3. Bucket(tokens[w], age[w], credit[w], state', timer', w)
        BY <3>1, <3>2, SameBucket
      <3>. QED
        BY <1>6, <2>2, <3>3
    <2>. QED
      BY <2>1, <2>2
  <1>8. coroutine => \A w \in Worker : Cardinality(Computing(state', w)) <= MaxConcurrent
    BY <1>3, <1>4, ComputingFew
  <1>9. \A q \in call' : state'[q] \in {"computing", "done"}
        /\ (coroutine => state'[q] = "computing")
    BY <1>1, <1>4 DEF LimitedInv
  <1>. QED
    BY <1>1, <1>4, <1>5, <1>6, <1>7, <1>8, <1>9 DEF LimitedInv

\* A bucket after a tick.
LEMMA OlderBucket ==
  ASSUME NEW n \in Int, NEW a \in Nat, NEW k, NEW st, NEW tm, NEW w, Bucket(n, a, k, st, tm, w),
         NEW tm2, \A q \in Request : tm[q] \in Nat /\ tm2[q] = IF tm[q] > 0 THEN tm[q] - 1 ELSE 0
  PROVE  Bucket(n, Limited!Least(a + 1, Limited!Enough), Limited!Least(k + Rate, Limited!Enough),
                st, tm2, w)
  <1>. DEFINE e == Limited!Enough
              f == Full(n, a)
              a2 == Limited!Least(a + 1, e)
              k2 == Limited!Least(k + Rate, e)
              g == Full(n, a2)
              o == SumOf(Cost, Owing(st, w))
              c == SumOf(Cost, Charged(st, w))
              all == SumOf(Cost, Request)
  <1>1. /\ n <= MaxTokens /\ a \in 0 .. e /\ k \in Int /\ n + c >= 0 /\ k >= 0 /\ k >= f + o
        /\ \A t \in Nat : f + t * Rate + SumOf(Cost, Late(st, tm, w, t)) >= 0
    BY DEF Bucket, Covered
  <1>2. /\ Rate \in Nat /\ Rate > 0 /\ MaxTokens \in Nat /\ e = MaxTokens + all /\ all \in Nat
    BY LimitedAssumed, EnoughIs
  <1>3. /\ o \in Nat /\ o <= all /\ c \in Nat /\ c <= all
    BY OwingIsCharged, Costs, MoreCost
  <1>4. a2 \in 0 .. e /\ (a2 = a + 1 \/ (a2 = a /\ a = e))
    <2>1. a2 = IF a + 1 < e THEN a + 1 ELSE e
      BY DEF Limited!Least
    <2>. HIDE DEF a2, e, all
    <2>. QED
      BY <1>1, <1>2, <2>1
  <1>5. /\ f \in Int /\ g \in Int /\ g <= f + Rate /\ g <= MaxTokens
        /\ g = MaxTokens \/ g = f + Rate \/ (a = e /\ g = f)
    <2>1. /\ f \in Int /\ f <= MaxTokens
          /\ Full(n, a + 1) \in Int /\ Full(n, a + 1) <= f + Rate /\ Full(n, a + 1) <= MaxTokens
          /\ Full(n, a + 1) = MaxTokens \/ Full(n, a + 1) = f + Rate
      <3>1. a + 1 \in Nat
        OBVIOUS
      <3>. QED
        BY <1>1, <3>1, FullIs
    <2>2. CASE a2 = a + 1
      <3>. HIDE DEF a2
      <3>. QED
        BY <2>1, <2>2
    <2>3. CASE a2 = a /\ a = e
      <3>1. f <= f + Rate
        <4>. HIDE DEF f
        <4>. QED
          BY <1>2, <2>1
      <3>. HIDE DEF a2, e
      <3>. QED
        BY <2>1, <2>3, <3>1
    <2>. QED
      BY <1>4, <2>2, <2>3
  <1>6. a = e => f >= 0
    <2>1. f = IF MaxTokens < n + a * Rate THEN MaxTokens ELSE n + a * Rate
      BY DEF Full, Limited!Least
    <2>. DEFINE p == a * Rate
    <2>2. p >= a /\ p \in Nat
      BY <1>2
    <2>. HIDE DEF p, f, e, c, all
    <2>. QED
      BY <1>1, <1>2, <1>3, <2>1, <2>2 DEF p
  <1>7. k2 \in Int /\ k2 >= 0 /\ k2 >= g + o
    <2>1. k2 = IF k + Rate < e THEN k + Rate ELSE e
      BY DEF Limited!Least
    <2>. HIDE DEF k2, g, o, f, e, all
    <2>. QED
      BY <1>1, <1>2, <1>3, <1>5, <2>1
  <1>8. ASSUME NEW t \in Nat PROVE g + t * Rate + SumOf(Cost, Late(st, tm2, w, t)) >= 0
    <2>1. Late(st, tm2, w, t) = Late(st, tm, w, t + 1)
      <3>1. \A q \in Request : tm2[q] > t <=> tm[q] > t + 1
        OBVIOUS
      <3>. QED
        BY <3>1 DEF Late, Owing
    <2>. DEFINE s == SumOf(Cost, Late(st, tm2, w, t))
                p == t * Rate
    <2>2. s \in Nat
      <3>1. Late(st, tm2, w, t) \in SUBSET Request
        BY OwingIsCharged
      <3>. QED
        BY <3>1, Costs
    <2>3. p \in Nat /\ (t + 1) * Rate = p + Rate
      BY <1>2
    <2>4. f + (t + 1) * Rate + s >= 0
      BY <1>1, <2>1
    <2>5. f + (p + Rate) + s >= 0
      BY <2>3, <2>4
    <2>. HIDE DEF s, p, g, f, e
    <2>6. g + p + s >= 0
      BY <1>2, <1>5, <1>6, <2>2, <2>3, <2>5
    <2>. QED
      BY <2>6 DEF p, s
  <1>9. Bucket(n, a2, k2, st, tm2, w)
    <2>. HIDE DEF a2, k2
    <2>. QED
      BY <1>1, <1>4, <1>7, <1>8 DEF Bucket, Covered, e, c, o, g
  <1>. QED
    BY <1>9

LEMMA TickKeeps == ASSUME LimitedInv, Limited!Tick PROVE LimitedInv'
  <1>1. /\ age' = [w \in Worker |-> Limited!Least(age[w] + 1, Limited!Enough)]
        /\ timer' = [r \in Request |-> IF timer[r] > 0 THEN timer[r] - 1 ELSE 0]
        /\ credit' = [w \in Worker |-> Limited!Least(credit[w] + Rate, Limited!Enough)]
        /\ recent' = [r \in Request |-> IF recent[r] = 0 THEN 0
                                        ELSE Limited!Least(recent[r] + 1, Window + 1)]
        /\ UNCHANGED <<coroutine, tokens, state, call>>
    BY DEF Limited!Tick
  <1>2. Window \in Nat /\ Rate \in Nat /\ Timeout \in Nat /\ Limited!Enough \in Nat
    BY LimitedAssumed, EnoughIs
  <1>3. ASSUME NEW w \in Worker
        PROVE  /\ age'[w] \in Nat /\ credit'[w] \in Int
               /\ Bucket(tokens'[w], age'[w], credit'[w], state', timer', w)
    <2>1. /\ tokens[w] \in Int /\ age[w] \in Nat /\ credit[w] \in Int
          /\ Bucket(tokens[w], age[w], credit[w], state, timer, w)
      BY DEF LimitedInv
    <2>2. \A q \in Request : /\ timer[q] \in Nat
                             /\ timer'[q] = IF timer[q] > 0 THEN timer[q] - 1 ELSE 0
      BY <1>1, <1>2 DEF LimitedInv
    <2>3. Bucket(tokens[w], Limited!Least(age[w] + 1, Limited!Enough),
                 Limited!Least(credit[w] + Rate, Limited!Enough), state, timer', w)
      BY <2>1, <2>2, OlderBucket
    <2>4. /\ tokens'[w] = tokens[w] /\ age'[w] = Limited!Least(age[w] + 1, Limited!Enough)
          /\ credit'[w] = Limited!Least(credit[w] + Rate, Limited!Enough)
      BY <1>1
    <2>5. age'[w] \in Nat /\ credit'[w] \in Int
      BY <1>2, <2>1, <2>4 DEF Limited!Least
    <2>. QED
      BY <1>1, <2>3, <2>4, <2>5
  <1>4. timer' \in [Request -> 0 .. (Timeout + Limited!Enough)]
    <2>1. \A q \in Request : timer'[q] \in 0 .. (Timeout + Limited!Enough)
      BY <1>1, <1>2 DEF LimitedInv
    <2>. QED
      BY <1>1, <2>1
  <1>5. /\ recent' \in [Request -> 0 .. (Window + 1)]
        /\ \A q \in Request : recent[q] > 0 => recent'[q] > 0
    <2>1. \A q \in Request : recent'[q] \in 0 .. (Window + 1) /\ (recent[q] > 0 => recent'[q] > 0)
      BY <1>1, <1>2 DEF LimitedInv, Limited!Least
    <2>. QED
      BY <1>1, <2>1
  <1>6. age' \in [Worker -> Nat] /\ credit' \in [Worker -> Int]
    BY <1>1, <1>3
  <1>7. call' \subseteq {r \in Request : recent'[r] > 0}
    BY <1>1, <1>5 DEF LimitedInv
  <1>8. \A w \in Worker : Computing(state', w) = Computing(state, w)
    BY <1>1 DEF Computing
  <1>9. /\ \A w \in Worker : Bucket(tokens'[w], age'[w], credit'[w], state', timer', w)
        /\ tokens' \in [Worker -> Int] /\ state' \in [Request -> States]
        /\ coroutine' = coroutine /\ coroutine' \in BOOLEAN
        /\ \A r \in call' : state'[r] \in {"computing", "done"}
        /\ coroutine => /\ \A r \in call' : state'[r] = "computing"
                        /\ \A w \in Worker : Cardinality(Computing(state', w)) <= MaxConcurrent
    BY <1>1, <1>3, <1>8 DEF LimitedInv
  <1>. QED
    BY <1>4, <1>5, <1>6, <1>7, <1>9 DEF LimitedInv

LEMMA LimitedKeeps == LimitedInv /\ Limited!Next => LimitedInv'
  <1>. SUFFICES ASSUME LimitedInv, Limited!Next PROVE LimitedInv'
    OBVIOUS
  <1>1. CASE Limited!Tick
    BY <1>1, TickKeeps
  <1>2. ASSUME NEW r \in Request, Limited!Return(r) PROVE LimitedInv'
    BY <1>2, ReturnKeeps
  <1>3. ASSUME NEW r \in Request, Limited!Progress(r) PROVE LimitedInv'
    <2>1. \/ Limited!Decode(r) \/ Limited!Acquire(r) \/ Limited!Wake(r) \/ Limited!Enter(r)
          \/ Limited!Call(r) \/ Limited!TimedOut(r)
      BY <1>3 DEF Limited!Progress
    <2>. QED
      BY <2>1, DecodeKeeps, AcquireKeeps, WakeKeeps, EnterKeeps, CallKeeps, TimedOutKeeps
  <1>. QED
    BY <1>1, <1>2, <1>3 DEF Limited!Next

LEMMA LimitedShows == ASSUME LimitedInv PROVE Limited!TypeOK /\ Limited!WithinRate
  <1>1. ASSUME NEW w \in Worker
        PROVE  /\ tokens[w] \in (- Limited!Enough) .. MaxTokens /\ age[w] \in 0 .. Limited!Enough
               /\ credit[w] >= 0
    <2>. DEFINE c == SumOf(Cost, Charged(state, w))
                n == tokens[w]
    <2>1. /\ n \in Int /\ n <= MaxTokens /\ age[w] \in 0 .. Limited!Enough /\ credit[w] >= 0
          /\ n + c >= 0
      BY DEF LimitedInv, Bucket
    <2>2. c \in Nat /\ c <= SumOf(Cost, Request)
      BY OwingIsCharged, Costs, MoreCost
    <2>3. MaxTokens \in Nat /\ Limited!Enough = MaxTokens + SumOf(Cost, Request)
          /\ SumOf(Cost, Request) \in Nat
      BY LimitedAssumed, EnoughIs
    <2>4. n \in (- Limited!Enough) .. MaxTokens
      <3>. HIDE DEF n, c
      <3>. QED
        BY <2>1, <2>2, <2>3
    <2>. QED
      BY <2>1, <2>4
  <1>2. /\ \A r \in Request : /\ state[r] \in States
                              /\ timer[r] \in 0 .. (Timeout + Limited!Enough)
                              /\ recent[r] \in 0 .. (Window + 1)
        /\ call \subseteq {r \in Request : recent[r] > 0} /\ coroutine \in BOOLEAN
    BY DEF LimitedInv
  <1>. QED
    BY <1>1, <1>2 DEF Limited!TypeOK, Limited!WithinRate, States

LEMMA CallsFew == ASSUME LimitedInv PROVE Limited!SimultaneousCalls
  <1>. SUFFICES ASSUME coroutine, NEW w \in Worker
                PROVE  Limited!Cardinality(call \cap Limited!At(w)) <= MaxConcurrent
    BY DEF Limited!SimultaneousCalls
  <1>1. call \cap Limited!At(w) \subseteq Computing(state, w)
    BY DEF Limited!At, Computing, LimitedInv
  <1>2. IsFiniteSet(Computing(state, w))
    BY LimitedAssumed, FS_Subset DEF Computing
  <1>3. /\ Cardinality(call \cap Limited!At(w)) <= Cardinality(Computing(state, w))
        /\ Cardinality(call \cap Limited!At(w)) \in Nat /\ Cardinality(Computing(state, w)) \in Nat
    BY <1>1, <1>2, FS_Subset, FS_CardinalityType
  <1>4. Cardinality(call \cap Limited!At(w)) <= MaxConcurrent
    BY <1>3, LimitedAssumed DEF LimitedInv
  <1>. QED
    BY <1>4, LimitedCounting

\* A step that leaves the rewards' variables alone.
LEMMA LimitedStays ==
  ASSUME LimitedInv, UNCHANGED rewardVars
  PROVE  LimitedInv'
  <1>1. /\ tokens' = tokens /\ age' = age /\ credit' = credit /\ state' = state
        /\ timer' = timer /\ recent' = recent /\ call' = call /\ coroutine' = coroutine
    BY DEF rewardVars
  <1>2. \A w \in Worker : Bucket(tokens'[w], age'[w], credit'[w], state', timer', w)
    BY <1>1 DEF LimitedInv
  <1>3. coroutine => \A w \in Worker : Cardinality(Computing(state', w)) <= MaxConcurrent
    BY <1>1 DEF LimitedInv
  <1>. QED
    BY <1>1, <1>2, <1>3 DEF LimitedInv

RateInv == part = "reward" => LimitedInv

\* The invariant behind it, of the part that takes the steps.
THEOREM RateInvariant == MCSpec => []RateInv
  <1>1. MCInit => RateInv
    BY LimitedStarts DEF MCInit, RateInv
  <1>2. RateInv /\ [MCNext]_<<part, rewardVars, loopVars, vars>> => RateInv'
    <2>. SUFFICES ASSUME part = "reward" => LimitedInv,
                         [MCNext]_<<part, rewardVars, loopVars, vars>>, part' = "reward"
                  PROVE  LimitedInv'
      BY DEF RateInv
    <2>1. part = "reward"
      BY DEF MCNext
    <2>2. CASE Limited!Next
      BY <2>1, <2>2, LimitedKeeps
    <2>3. CASE UNCHANGED rewardVars
      BY <2>1, <2>3, LimitedStays
    <2>. QED
      BY <2>1, <2>2, <2>3 DEF MCNext
  <1>. QED
    BY <1>1, <1>2, PTL DEF MCSpec

\* Requests that borrow from a bucket never make it let go more than it held and was refilled, and
\* none sleeps longer than all requests together could make it; with threads as with coroutines.
THEOREM RateKept == MCSpec => [](part = "reward" => Limited!TypeOK /\ Limited!WithinRate)
  <1>1. RateInv => (part = "reward" => Limited!TypeOK /\ Limited!WithinRate)
    BY LimitedShows DEF RateInv
  <1>. QED
    BY <1>1, RateInvariant, PTL

\* Nor has a worker more than max_concurrent calls open if reward functions are coroutines, which
\* the timeout cancels.
THEOREM LimitsHold == MCSpec => []WithinLimits
  <1>1. RateInv => WithinLimits
    BY LimitedShows, CallsFew DEF RateInv, WithinLimits
  <1>. QED
    BY <1>1, RateInvariant, PTL
=============================================================================
