-------------------------- MODULE TaskRunnerProofs --------------------------
(***************************************************************************)
(* Proofs about the task runner, for every number of samples, batch size   *)
(* and number of local steps: what it returns with (ReturnsWhenDone) and   *)
(* what it cancels (CancelledForFailure), at any order of deaths,          *)
(* failures and cancellations.                                             *)
(*                                                                         *)
(* The inductive invariant adds to the properties where the end signal is  *)
(* (Signal), how many samples the queue can hold (NotMore), how many are   *)
(* before the end signal while nothing has cleared the queue               *)
(* (NothingLost), what a checkpoint has (Checkpoints), and that nothing is *)
(* cancelled while the runner still waits.                                 *)
(***************************************************************************)
EXTENDS TaskRunner, SequenceTheorems, TLAPS

Types ==
  /\ fit \in [Components -> {"running"} \cup Over]
  /\ stream \in {"running", "ended", "failed"}
  /\ produced \in 0 .. Samples /\ late \in Nat
  /\ batch \in 0 .. Required /\ trained \in Nat /\ abandoned \in 0 .. Required
  /\ steps \in Nat /\ local \in 1 .. Trigger /\ version \in Nat
  /\ lastCkpt \in 0 .. version /\ saved \in 0 .. steps
  /\ queue \in Seq({"sample", "end"})
  /\ run \in {"wait", "finally", "returned", "raised"}
  /\ error \in BOOLEAN
  /\ futures \subseteq Components /\ cancelled \subseteq Components

\* The end signal is in the queue at most once, and never while the stream runs.
At(i) == i \in 1 .. Len(queue) /\ queue[i] = "end"
HasEnd == \E i \in Nat : At(i)
Signal ==
  /\ \A i, j \in Nat : At(i) /\ At(j) => i = j
  /\ HasEnd => stream # "running"

\* The samples in the queue are none of those that have left it.
NotMore ==
  /\ Len(queue) + trained + batch + abandoned <= produced + (IF HasEnd THEN 1 ELSE 0)
  /\ late <= produced

\* Late samples are those of a stream that has failed, and one that has ended has put them all.
Streams ==
  /\ stream # "failed" => late = 0
  /\ stream = "ended" => produced = Samples

\* Until the runner clears the queue, what was put and is not before the end signal was taken.
NothingLost ==
  run # "raised" /\ fit["trainer"] = "running" =>
    /\ abandoned = 0
    /\ stream = "running" => Len(queue) + trained + batch = produced
    /\ stream # "running" =>
         \E i \in Nat : At(i) /\ i - 1 + trained + batch + late = produced

\* A trainer that has completed has seen the end signal.
TrainerIsDone ==
  run # "raised" /\ fit["trainer"] = "completed" =>
    /\ trained + abandoned + late = produced /\ abandoned < Required
    /\ stream # "running"
    /\ lastCkpt = version

\* The local steps that the checkpoint of the newest version lacks.
Checkpoints == lastCkpt = version => steps - saved < local

\* The calls the runner no longer waits for.
Waited ==
  /\ run \in {"wait", "finally"} /\ ~error => \A c \in Components \ futures : fit[c] = "completed"
  /\ run = "wait" => ~error /\ cancelled = {}
  /\ run = "finally" /\ ~error => futures = {}
  /\ run = "returned" => \A c \in Components : fit[c] = "completed"

\* A call ends as cancelled only if it was, and only one that runs or has
\* failed is cancelled for the other.
Cancellations ==
  /\ \A c \in Components : fit[c] = "cancelled" => c \in cancelled
  /\ CancelledForFailure

\* What depends on the queue and the counts; and on the calls.
Counts == Signal /\ NotMore /\ Streams /\ NothingLost /\ TrainerIsDone /\ Checkpoints
Calls == Waited /\ Cancellations

IInv == Types /\ Counts /\ Calls

LEMMA Initially == Init => IInv
  <1>. SUFFICES ASSUME Init PROVE IInv
    OBVIOUS
  <1>. USE TaskRunnerAssumption DEF Init, Components, Over
  <1>1. Types
    <2>1. queue \in Seq({"sample", "end"})
      BY EmptySeq
    <2>2. fit \in [Components -> {"running"} \cup Over]
      OBVIOUS
    <2>3. futures \subseteq Components /\ cancelled \subseteq Components
      OBVIOUS
    <2>4. /\ produced \in 0 .. Samples /\ batch \in 0 .. Required /\ abandoned \in 0 .. Required
          /\ local \in 1 .. Trigger
      OBVIOUS
    <2>5. /\ late \in Nat /\ trained \in Nat /\ steps \in Nat /\ version \in Nat
          /\ lastCkpt \in 0 .. version /\ saved \in 0 .. steps
      OBVIOUS
    <2>6. /\ stream \in {"running", "ended", "failed"} /\ error \in BOOLEAN
          /\ run \in {"wait", "finally", "returned", "raised"}
      OBVIOUS
    <2>. QED
      BY <2>1, <2>2, <2>3, <2>4, <2>5, <2>6, Zenon DEF Types, Components, Over
  <1>2. Len(queue) = 0 /\ ~HasEnd
    BY DEF HasEnd, At
  <1>3. Signal /\ NotMore /\ NothingLost
    BY <1>2 DEF Signal, At, NotMore, NothingLost
  <1>4. Streams /\ TrainerIsDone /\ Checkpoints /\ Waited /\ Cancellations
    BY DEF Streams, TrainerIsDone, Checkpoints, Waited, Cancellations, CancelledForFailure
  <1>. QED
    BY <1>1, <1>3, <1>4 DEF IInv, Counts, Calls

\* Putting a sample, or the end signal when the stream is over: where the end signal is.
LEMMA Put ==
  ASSUME queue \in Seq({"sample", "end"}), NEW x \in {"sample", "end"}, queue' = Append(queue, x)
  PROVE  /\ queue' \in Seq({"sample", "end"}) /\ Len(queue') = Len(queue) + 1
         /\ \A i \in Nat : At(i)' <=> At(i) \/ (x = "end" /\ i = Len(queue) + 1)
         /\ HasEnd' <=> HasEnd \/ x = "end"
  <1>1. /\ queue' \in Seq({"sample", "end"}) /\ Len(queue') = Len(queue) + 1
        /\ Len(queue) \in Nat /\ queue'[Len(queue) + 1] = x
        /\ \A i \in 1 .. Len(queue) : queue'[i] = queue[i]
    OBVIOUS
  <1>2. ASSUME NEW i \in Nat PROVE At(i)' <=> At(i) \/ (x = "end" /\ i = Len(queue) + 1)
    BY <1>1 DEF At
  <1>. QED
    BY <1>1, <1>2 DEF HasEnd

\* Taking the head: everything else moves up.
LEMMA Get ==
  ASSUME queue \in Seq({"sample", "end"}), queue # <<>>, queue' = Tail(queue)
  PROVE  /\ queue' \in Seq({"sample", "end"}) /\ Len(queue') = Len(queue) - 1
         /\ Len(queue) \in Nat /\ Len(queue) >= 1
         /\ Head(queue) = "end" <=> At(1)
         /\ \A i \in Nat : At(i)' <=> i # 0 /\ At(i + 1)
  <1>1. Len(queue) \in Nat /\ Len(queue) >= 1 /\ Head(queue) = queue[1]
    BY EmptySeq, HeadTailProperties
  <1>2. queue' \in Seq({"sample", "end"}) /\ Len(queue') = Len(queue) - 1
    BY HeadTailProperties
  <1>3. \A i \in 1 .. Len(queue') : queue'[i] = queue[i + 1]
    BY HeadTailProperties
  <1>4. ASSUME NEW i \in Nat PROVE At(i)' <=> i # 0 /\ At(i + 1)
    BY <1>1, <1>2, <1>3 DEF At
  <1>. QED
    BY <1>1, <1>2, <1>4 DEF At

\* A sample is put: by a running stream, or late.
LEMMA PutCounts ==
  ASSUME Types, Counts, queue' = Append(queue, "sample"), produced' = produced + 1,
         \/ stream = "running" /\ late' = late
         \/ stream = "failed" /\ late' = late + 1,
         UNCHANGED <<fit, stream, trainer, run>>
  PROVE  Counts' /\ queue' \in Seq({"sample", "end"})
  <1>1. /\ queue' \in Seq({"sample", "end"}) /\ Len(queue') = Len(queue) + 1
        /\ \A i \in Nat : At(i)' <=> At(i)
        /\ HasEnd' <=> HasEnd
    BY Put DEF Types
  <1>2. /\ Len(queue) \in Nat /\ produced \in Nat /\ late \in Nat /\ trained \in Nat
        /\ batch \in Nat /\ abandoned \in Nat
    BY TaskRunnerAssumption DEF Types
  <1>. USE DEF trainer, counters
  <1>3. Signal'
    BY <1>1 DEF Counts, Signal
  <1>4. NotMore'
    BY <1>1, <1>2 DEF Counts, NotMore
  <1>5. Streams' /\ Checkpoints'
    BY DEF Counts, Streams, Checkpoints
  <1>6. NothingLost'
    BY <1>1, <1>2 DEF Counts, NothingLost
  <1>7. TrainerIsDone'
    BY <1>1, <1>2 DEF Counts, TrainerIsDone
  <1>. QED
    BY <1>1, <1>3, <1>4, <1>5, <1>6, <1>7 DEF Counts

\* The stream is over, the end signal is put.
LEMMA EndCounts ==
  ASSUME Types, Counts, queue' = Append(queue, "end"), stream = "running",
         stream' \in {"ended", "failed"}, stream' = "ended" => produced = Samples,
         fit'["trainer"] = fit["trainer"],
         UNCHANGED <<produced, late, trainer, run>>
  PROVE  Counts' /\ queue' \in Seq({"sample", "end"})
  <1>1. /\ queue' \in Seq({"sample", "end"}) /\ Len(queue') = Len(queue) + 1
        /\ \A i \in Nat : At(i)' <=> At(i) \/ i = Len(queue) + 1
        /\ HasEnd'
    BY Put DEF Types
  <1>2. /\ Len(queue) \in Nat /\ produced \in Nat /\ late = 0 /\ trained \in Nat
        /\ batch \in Nat /\ abandoned \in Nat
    BY TaskRunnerAssumption DEF Types, Counts, Streams
  <1>3. ~HasEnd /\ \A i \in Nat : ~At(i)
    BY DEF Counts, Signal, HasEnd
  <1>. USE DEF trainer, counters
  <1>4. Signal'
    BY <1>1, <1>3 DEF Signal
  <1>5. NotMore'
    BY <1>1, <1>2, <1>3 DEF Counts, NotMore
  <1>6. Streams' /\ Checkpoints' /\ TrainerIsDone'
    BY <1>2 DEF Counts, Streams, Checkpoints, TrainerIsDone
  <1>7. NothingLost'
    <2>. SUFFICES ASSUME run # "raised", fit["trainer"] = "running" PROVE NothingLost'
      BY DEF NothingLost
    <2>1. abandoned = 0 /\ Len(queue) + trained + batch = produced
      BY DEF Counts, NothingLost
    <2>2. PICK i \in Nat : i = Len(queue) + 1
      BY <1>2
    <2>3. At(i)'
      BY <1>1, <2>2
    <2>4. i - 1 + trained + batch + late = produced
      BY <1>2, <2>1, <2>2
    <2>. QED
      BY <2>1, <2>3, <2>4 DEF NothingLost
  <1>. QED
    BY <1>1, <1>4, <1>5, <1>6, <1>7 DEF Counts

\* Nothing the counts depend on changes, but for how the rollouter ended, or a trainer that has
\* been cancelled or has failed.
LEMMA SameCounts ==
  ASSUME Types, Counts, UNCHANGED <<rollouter, trainer, queue>>,
         fit'["trainer"] \in {fit["trainer"], "failed", "cancelled"},
         run' \in {run, "raised"} \/ (run \in {"wait", "finally"} /\ run' \in {"finally", "returned"})
  PROVE  Counts'
  BY DEF rollouter, trainer, counters, Counts, Signal, At, HasEnd, NotMore, Streams, NothingLost,
         TrainerIsDone, Checkpoints

\* The runner's part of the invariant needs only the calls and the runner's own state.
LEMMA SameCalls ==
  ASSUME Types, Calls, UNCHANGED runner,
         \A c \in Components :
           \/ fit'[c] = fit[c]
           \/ fit[c] = "running" /\ (fit'[c] = "cancelled" => c \in cancelled)
  PROVE  Calls'
  BY DEF runner, Calls, Waited, Cancellations, CancelledForFailure, Components, Types, Over

LEMMA Step == IInv /\ [Next]_vars => IInv'
  <1>. SUFFICES ASSUME IInv, [Next]_vars PROVE IInv'
    OBVIOUS
  <1>. USE TaskRunnerAssumption DEF IInv, Components, Over, Running, End
  <1>0. /\ Len(queue) \in Nat /\ Types /\ Counts /\ Calls
        /\ fit \in [Components -> {"running"} \cup Over]
    BY DEF Types
  <1>1. CASE Produce
    <2>1. Counts' /\ queue' \in Seq({"sample", "end"})
      BY <1>1, PutCounts DEF Produce, runner
    <2>2. Calls'
      BY <1>1, SameCalls DEF Produce
    <2>3. produced' \in 0 .. Samples
      BY <1>1 DEF Produce, Types
    <2>. QED
      BY <1>1, <2>1, <2>2, <2>3 DEF Produce, trainer, counters, runner, Types
  <1>2. CASE ProduceLate
    <2>1. Counts' /\ queue' \in Seq({"sample", "end"})
      BY <1>2, PutCounts DEF ProduceLate, runner
    <2>2. Calls'
      BY <1>2, SameCalls DEF ProduceLate
    <2>3. produced' \in 0 .. Samples /\ late' \in Nat
      BY <1>2 DEF ProduceLate, Types
    <2>. QED
      BY <1>2, <2>1, <2>2, <2>3 DEF ProduceLate, trainer, counters, runner, Types
  <1>3. ASSUME NEW how \in {"ended", "failed"}, Stream(how) PROVE IInv'
    <2>1. Counts' /\ queue' \in Seq({"sample", "end"})
      BY <1>3, EndCounts DEF Stream, runner
    <2>2. Calls'
      BY <1>3, SameCalls DEF Stream
    <2>. QED
      BY <1>3, <2>1, <2>2 DEF Stream, trainer, counters, runner, Types
  <1>4. CASE RollouterReturns
    <2>1. Counts'
      BY <1>0, <1>4, SameCounts DEF RollouterReturns, runner
    <2>2. Calls'
      BY <1>0, <1>4, SameCalls DEF RollouterReturns
    <2>. QED
      BY <1>0, <1>4, <2>1, <2>2
      DEF RollouterReturns, rollouter, trainer, counters, runner, Types
  <1>5. CASE RollouterCancelled
    <2>1. Counts' /\ queue' \in Seq({"sample", "end"})
      <3>1. CASE stream = "running"
        <4>1. /\ queue' = Append(queue, "end") /\ stream' = "failed"
              /\ fit'["trainer"] = fit["trainer"]
              /\ UNCHANGED <<produced, late, trainer, run>>
          BY <1>0, <1>5, <3>1 DEF RollouterCancelled, runner
        <4>. QED
          BY <1>0, <3>1, <4>1, EndCounts
      <3>2. CASE stream # "running"
        <4>1. /\ UNCHANGED <<rollouter, trainer, queue>> /\ run' = run
              /\ fit'["trainer"] = fit["trainer"]
          BY <1>0, <1>5, <3>2 DEF RollouterCancelled, rollouter, runner
        <4>2. Counts'
          BY <1>0, <4>1, SameCounts
        <4>. QED
          BY <4>1, <4>2 DEF Types
      <3>. QED
        BY <3>1, <3>2
    <2>2. Calls'
      BY <1>0, <1>5, SameCalls DEF RollouterCancelled
    <2>. QED
      BY <1>0, <1>5, <2>1, <2>2 DEF RollouterCancelled, trainer, counters, runner, Types
  <1>6. CASE Collect
    <2>1. /\ queue' \in Seq({"sample", "end"}) /\ Len(queue') = Len(queue) - 1
          /\ ~At(1) /\ Len(queue) >= 1
          /\ \A i \in Nat : At(i)' <=> i # 0 /\ At(i + 1)
      BY <1>6, Get DEF Collect, Types
    <2>2. ASSUME NEW i \in Nat, At(i)
          PROVE  i - 1 \in Nat /\ At(i - 1)'
      <3>1. i \in Nat /\ i >= 1 /\ i # 1
        BY <2>1, <2>2 DEF At
      <3>2. i - 1 \in Nat /\ i - 1 # 0 /\ (i - 1) + 1 = i
        BY <3>1
      <3>. QED
        BY <2>1, <2>2, <3>2
    <2>3. /\ fit["trainer"] = "running" /\ batch' = batch + 1 /\ batch < Required
          /\ UNCHANGED <<fit, stream, produced, late, trained, abandoned, steps, local, version,
                         lastCkpt, saved, run>>
          /\ UNCHANGED runner
      BY <1>6 DEF Collect, rollouter, counters, runner
    <2>4. /\ produced \in Nat /\ late \in Nat /\ trained \in Nat /\ batch \in Nat
          /\ abandoned \in Nat /\ Required \in Nat
      BY DEF Types
    <2>5. HasEnd' <=> HasEnd
      BY <2>1, <2>2 DEF HasEnd
    <2>6. Signal'
      <3>1. ASSUME NEW i \in Nat, NEW j \in Nat, At(i)', At(j)' PROVE i = j
        <4>1. At(i + 1) /\ At(j + 1) /\ i + 1 \in Nat /\ j + 1 \in Nat
          BY <2>1, <3>1
        <4>2. i + 1 = j + 1
          BY <4>1 DEF Counts, Signal
        <4>. QED
          BY <4>2
      <3>. QED
        BY <2>3, <2>5, <3>1 DEF Counts, Signal
    <2>7. NotMore'
      BY <1>0, <2>1, <2>3, <2>4, <2>5 DEF Counts, NotMore
    <2>8. NothingLost'
      <3>. SUFFICES ASSUME run # "raised" PROVE NothingLost'
        BY <2>3 DEF NothingLost
      <3>1. /\ abandoned = 0
            /\ stream = "running" => Len(queue) + trained + batch = produced
            /\ stream # "running" =>
                 \E i \in Nat : At(i) /\ i - 1 + trained + batch + late = produced
        BY <2>3 DEF Counts, NothingLost
      <3>2. CASE stream = "running"
        BY <1>0, <2>1, <2>3, <2>4, <3>1, <3>2 DEF NothingLost
      <3>3. CASE stream # "running"
        <4>1. PICK i \in Nat : At(i) /\ i - 1 + trained + batch + late = produced
          BY <3>1, <3>3
        <4>. DEFINE k == i - 1
        <4>2. k \in Nat /\ At(k)'
          BY <2>2, <4>1
        <4>3. k - 1 + trained' + batch' + late' = produced'
          BY <2>3, <2>4, <4>1
        <4>. HIDE DEF k
        <4>. QED
          BY <2>3, <3>1, <3>3, <4>2, <4>3 DEF NothingLost
      <3>. QED
        BY <3>2, <3>3
    <2>9. Streams' /\ TrainerIsDone' /\ Checkpoints'
      BY <2>3 DEF Counts, Streams, TrainerIsDone, Checkpoints
    <2>10. Calls'
      BY <1>0, <2>3, SameCalls
    <2>11. batch' \in 0 .. Required
      BY <2>3, <2>4
    <2>. QED
      BY <1>0, <2>1, <2>3, <2>6, <2>7, <2>8, <2>9, <2>10, <2>11 DEF Counts, Types, runner
  <1>7. ASSUME NEW due \in BOOLEAN, Train(due) PROVE IInv'
    <2>1. /\ fit["trainer"] = "running" /\ batch = Required
          /\ trained' = trained + batch /\ batch' = 0 /\ steps' = steps + 1
          /\ UNCHANGED <<fit, stream, produced, late, abandoned, queue, run>>
          /\ UNCHANGED runner
      BY <1>7 DEF Train, rollouter, runner
    <2>2. /\ produced \in Nat /\ late \in Nat /\ trained \in Nat /\ batch \in Nat
          /\ abandoned \in Nat /\ steps \in Nat /\ version \in Nat
          /\ lastCkpt \in Nat /\ lastCkpt <= version /\ saved \in Nat /\ saved <= steps
          /\ local \in 1 .. Trigger /\ Trigger \in Nat /\ Trigger >= 1
      BY DEF Types
    <2>3. \/ local' = local + 1 /\ version' = version /\ local' \in 1 .. Trigger
          \/ local' = 1 /\ version' = version + 1 /\ local' \in 1 .. Trigger
      BY <1>7, <2>2 DEF Train
    <2>4. \/ lastCkpt' = version' /\ saved' = steps'
          \/ lastCkpt' = lastCkpt /\ saved' = saved
      BY <1>7 DEF Train, SaveVersion
    <2>5. Checkpoints'
      BY <2>1, <2>2, <2>3, <2>4 DEF Counts, Checkpoints
    <2>6. /\ trained' \in Nat /\ batch' \in 0 .. Required /\ steps' \in Nat
          /\ version' \in Nat /\ lastCkpt' \in 0 .. version' /\ saved' \in 0 .. steps'
      BY <2>1, <2>2, <2>3, <2>4
    <2>7. (\A i \in Nat : At(i)' <=> At(i)) /\ (HasEnd' <=> HasEnd) /\ Len(queue') = Len(queue)
      BY <2>1 DEF At, HasEnd
    <2>8. Signal' /\ Streams' /\ TrainerIsDone'
      BY <2>1, <2>7 DEF Counts, Signal, Streams, TrainerIsDone
    <2>9. NotMore'
      BY <1>0, <2>1, <2>2, <2>7 DEF Counts, NotMore
    <2>10. NothingLost'
      BY <1>0, <2>1, <2>2, <2>7 DEF Counts, NothingLost
    <2>11. Calls'
      BY <1>0, <2>1, SameCalls
    <2>12. Types'
      BY <1>0, <2>1, <2>3, <2>6 DEF Types, runner
    <2>. QED
      BY <2>5, <2>8, <2>9, <2>10, <2>11, <2>12 DEF Counts
  <1>8. CASE TrainerReturns
    <2>1. /\ queue' \in Seq({"sample", "end"}) /\ Len(queue') = Len(queue) - 1
          /\ At(1) /\ Len(queue) >= 1
          /\ \A i \in Nat : At(i)' <=> i # 0 /\ At(i + 1)
      BY <1>8, Get DEF TrainerReturns, Types
    <2>2. /\ fit["trainer"] = "running" /\ fit' = [fit EXCEPT !["trainer"] = "completed"]
          /\ batch < Required /\ batch' = 0 /\ abandoned' = batch
          /\ UNCHANGED <<stream, produced, late, trained, steps, local, version, run>>
          /\ UNCHANGED runner
      BY <1>8 DEF TrainerReturns, rollouter, runner
    <2>3. \/ lastCkpt' = version' /\ saved' = steps'
          \/ lastCkpt' = lastCkpt /\ saved' = saved /\ lastCkpt = version
      BY <1>8, <2>2 DEF TrainerReturns, SaveVersion
    <2>4. /\ produced \in Nat /\ late \in Nat /\ trained \in Nat /\ batch \in Nat
          /\ abandoned \in Nat /\ Required \in Nat /\ steps \in Nat /\ version \in Nat
          /\ local \in Nat /\ local >= 1
      BY DEF Types
    <2>5. \A i \in Nat : At(i) => i = 1
      BY <2>1 DEF Counts, Signal
    <2>6. \A i \in Nat : ~At(i)'
      <3>. SUFFICES ASSUME NEW i \in Nat, At(i)' PROVE FALSE
        OBVIOUS
      <3>1. i # 0 /\ At(i + 1) /\ i + 1 \in Nat
        BY <2>1
      <3>2. i + 1 = 1
        BY <2>5, <3>1
      <3>. QED
        BY <3>1, <3>2
    <2>7. HasEnd /\ ~HasEnd' /\ stream # "running"
      BY <2>1, <2>6 DEF Counts, Signal, HasEnd
    <2>8. Signal' /\ Streams'
      BY <2>2, <2>6, <2>7 DEF Counts, Signal, Streams
    <2>9. NotMore'
      BY <1>0, <2>1, <2>2, <2>4, <2>7 DEF Counts, NotMore
    <2>10. fit'["trainer"] = "completed"
      BY <1>0, <2>2
    <2>11. NothingLost'
      BY <2>10 DEF NothingLost
    <2>12. TrainerIsDone'
      <3>. SUFFICES ASSUME run # "raised" PROVE TrainerIsDone'
        BY <2>2 DEF TrainerIsDone
      <3>1. PICK i \in Nat : At(i) /\ i - 1 + trained + batch + late = produced
        BY <2>2, <2>7 DEF Counts, NothingLost
      <3>2. i = 1
        BY <2>5, <3>1
      <3>3. trained' + abandoned' + late' = produced'
        BY <2>2, <2>4, <3>1, <3>2
      <3>4. lastCkpt' = version'
        BY <2>2, <2>3
      <3>. QED
        BY <2>2, <2>7, <3>3, <3>4 DEF TrainerIsDone
    <2>13. Checkpoints'
      BY <2>2, <2>3, <2>4 DEF Counts, Checkpoints
    <2>14. Calls'
      BY <1>0, <2>2, SameCalls
    <2>15. batch' \in 0 .. Required /\ abandoned' \in 0 .. Required
      BY <2>2, <2>4
    <2>16. lastCkpt' \in 0 .. version' /\ saved' \in 0 .. steps'
      BY <2>2, <2>3, <2>4 DEF Types
    <2>17. fit' \in [Components -> {"running"} \cup Over]
      BY <1>0, <2>2
    <2>18. Types'
      BY <1>0, <2>1, <2>2, <2>15, <2>16, <2>17 DEF Types, runner
    <2>. QED
      BY <2>8, <2>9, <2>11, <2>12, <2>13, <2>14, <2>18 DEF Counts
  <1>9. CASE TrainerCancelled
    <2>1. Counts'
      BY <1>0, <1>9, SameCounts DEF TrainerCancelled, runner
    <2>2. Calls'
      BY <1>0, <1>9, SameCalls DEF TrainerCancelled
    <2>. QED
      BY <1>0, <1>9, <2>1, <2>2
      DEF TrainerCancelled, rollouter, trainer, counters, runner, Types
  <1>10. ASSUME NEW c \in Components, Dies(c) PROVE IInv'
    <2>1. Counts'
      BY <1>0, <1>10, SameCounts DEF Dies, runner
    <2>2. Calls'
      BY <1>0, <1>10, SameCalls DEF Dies
    <2>. QED
      BY <1>0, <1>10, <2>1, <2>2 DEF Dies, rollouter, trainer, counters, runner, Types
  <1>11. ASSUME NEW c \in Components, Completed(c) PROVE IInv'
    <2>1. Counts'
      BY <1>0, <1>11, SameCounts DEF Completed
    <2>2. Calls'
      BY <1>11 DEF Completed, Calls, Waited, Cancellations, CancelledForFailure
    <2>. QED
      BY <1>0, <1>11, <2>1, <2>2 DEF Completed, rollouter, trainer, counters, Types
  <1>12. ASSUME NEW c \in Components, FailedCall(c) PROVE IInv'
    <2>1. Counts'
      BY <1>0, <1>12, SameCounts DEF FailedCall
    <2>2. fit[c] = "failed" /\ cancelled = {}
      BY <1>12 DEF FailedCall, Calls, Waited, Cancellations
    <2>3. Calls'
      BY <1>12, <2>2 DEF FailedCall, Calls, Waited, Cancellations, CancelledForFailure
    <2>. QED
      BY <1>0, <1>12, <2>1, <2>3 DEF FailedCall, rollouter, trainer, counters, Types
  <1>13. CASE Finally
    <2>1. /\ UNCHANGED <<fit, stream, produced, late, batch, trained, abandoned, steps, local,
                         version, lastCkpt, saved, error, futures, cancelled>>
          /\ queue' = <<>> /\ run = "finally" /\ run' = IF error THEN "raised" ELSE "returned"
      BY <1>13 DEF Finally, rollouter, trainer, counters
    <2>2. queue' \in Seq({"sample", "end"}) /\ Len(queue') = 0
      BY <2>1, EmptySeq
    <2>3. \A i \in Nat : ~At(i)'
      BY <2>2 DEF At
    <2>4. ~HasEnd'
      BY <2>3 DEF HasEnd
    <2>5. Signal' /\ Streams' /\ Checkpoints'
      BY <2>1, <2>3, <2>4 DEF Counts, Signal, Streams, Checkpoints
    <2>6. NotMore'
      <3>1. trained + batch + abandoned <= produced
        <4>1. HasEnd => Len(queue) >= 1
          BY <1>0 DEF HasEnd, At
        <4>. QED
          BY <1>0, <4>1 DEF Counts, NotMore, Types
      <3>. QED
        BY <2>1, <2>2, <2>4, <3>1 DEF Counts, NotMore, Types
    <2>7. ~error => fit["trainer"] = "completed"
      BY <2>1 DEF Calls, Waited
    <2>8. NothingLost' /\ TrainerIsDone'
      BY <2>1, <2>7 DEF Counts, NothingLost, TrainerIsDone
    <2>9. Calls'
      BY <2>1 DEF Calls, Waited, Cancellations, CancelledForFailure
    <2>10. Types'
      BY <1>0, <2>1, <2>2 DEF Types
    <2>. QED
      BY <2>5, <2>6, <2>8, <2>9, <2>10 DEF Counts
  <1>14. CASE UNCHANGED vars
    <2>1. Counts'
      BY <1>0, <1>14, SameCounts DEF vars, runner
    <2>2. Calls'
      BY <1>0, <1>14, SameCalls DEF vars
    <2>. QED
      BY <1>0, <1>14, <2>1, <2>2 DEF vars, rollouter, trainer, counters, runner, Types
  <1>. QED
    BY <1>1, <1>2, <1>3, <1>4, <1>5, <1>6, <1>7, <1>8, <1>9, <1>10, <1>11, <1>12, <1>13, <1>14
    DEF Next, Runner

THEOREM Inductive == Spec => []IInv
  BY Initially, Step, PTL DEF Spec

\* The components' states, the counts of samples and the queue, which never
\* holds more than all samples and the end signal, keep their types.
THEOREM RunnerTypes == Spec => []TypeOK
  <1>1. IInv => TypeOK
    <2>. SUFFICES ASSUME IInv PROVE TypeOK
      OBVIOUS
    <2>1. Len(queue) <= Samples + 1 /\ trained \in 0 .. produced /\ late \in 0 .. produced
      <3>1. Len(queue) \in Nat /\ HasEnd => Len(queue) >= 1
        BY DEF HasEnd, At
      <3>. QED
        BY <3>1, TaskRunnerAssumption DEF IInv, Types, Counts, NotMore
    <2>. QED
      BY <2>1, TaskRunnerAssumption DEF IInv, Types, TypeOK
  <1>. QED
    BY <1>1, Inductive, PTL

\* _run_training_loop returns only when both calls have completed; then every sample put before the
\* end signal was trained on but for less than a batch, clear_queue loses only late samples of a
\* failed stream, and a checkpoint has the last version and all but less than a version of steps.
THEOREM RunnerReturnsWhenDone == Spec => []ReturnsWhenDone
  <1>1. ASSUME IInv, run = "returned"
        PROVE  /\ \A c \in Components : fit[c] = "completed"
               /\ trained + abandoned + late = produced /\ abandoned < Required
               /\ stream = "ended" => trained + abandoned = Samples
               /\ lastCkpt = version /\ steps - saved < Trigger
    <2>1. \A c \in Components : fit[c] = "completed"
      BY <1>1 DEF IInv, Calls, Waited
    <2>2. /\ trained + abandoned + late = produced /\ abandoned < Required /\ stream # "running"
          /\ lastCkpt = version
      BY <1>1, <2>1 DEF IInv, Counts, TrainerIsDone, Components
    <2>3. stream = "ended" => late = 0 /\ produced = Samples
      BY <1>1 DEF IInv, Counts, Streams
    <2>4. /\ trained \in Nat /\ abandoned \in Nat /\ steps \in Nat /\ saved \in Nat
          /\ local \in 1 .. Trigger /\ Trigger \in Nat
      BY <1>1, TaskRunnerAssumption DEF IInv, Types
    <2>5. steps - saved < Trigger
      BY <1>1, <2>2, <2>4 DEF IInv, Counts, Checkpoints
    <2>. QED
      BY <2>1, <2>2, <2>3, <2>4, <2>5
  <1>2. IInv => ReturnsWhenDone
    BY <1>1 DEF ReturnsWhenDone
  <1>. QED
    BY <1>2, Inductive, PTL

\* ray.cancel is called only for a component whose partner has failed.
THEOREM RunnerCancelsForFailure == Spec => []CancelledForFailure
  <1>1. IInv => CancelledForFailure
    BY DEF IInv, Calls, Cancellations
  <1>. QED
    BY <1>1, Inductive, PTL
=============================================================================
