--------------------------- MODULE RestartProofs ---------------------------
(***************************************************************************)
(* Proofs about the jobs that save checkpoints, die and start again        *)
(* (MCRestarts), for every number of steps, epochs, ranks and crashes, and *)
(* every save frequency.                                                   *)
(*                                                                         *)
(* The one step off job: the policy is one update ahead of the data at     *)
(* most (OneStep), no batch is generated by two policies                   *)
(* (OnePolicyPerBatch), and until the second crash one batch is lost at    *)
(* most (FewLost).  None is inductive: the version of the batch that is    *)
(* trained on was fixed a step earlier, when its task began.  What carries *)
(* it over is that a task's version is that of the replicas as long as it  *)
(* lasts (TaskVersion), how far the replicas are behind in each phase      *)
(* (Behind), and where the iterator is from the batch that comes next, in  *)
(* memory (Ahead) and on the disk (FirstDisk).                             *)
(*                                                                         *)
(* The other jobs: what the tracker file names is whole (Resumable), and   *)
(* the weights have seen each batch once, or no sample twice               *)
(* (EachBatchOnce, LossBounded).  Each invariant says, besides what is on  *)
(* the disk, how far the save under way has come (Progress), that the      *)
(* version the tracker file names is the newest of those that the job      *)
(* remembers and will remove (Retention), and where the loop is in its     *)
(* data (Place, or Samples and Steps).                                     *)
(***************************************************************************)
EXTENDS MCRestarts, SequenceTheorems, FiniteSetTheorems, TLAPS

-----------------------------------------------------------------------------
(* Arithmetic of steps and epochs, and sequences of numbers.               *)

\* What the oldest n elements leave of a sequence.
LEMMA Remaining ==
  ASSUME NEW S, NEW s \in Seq(S), NEW n \in 0..Len(s)
  PROVE  /\ SubSeq(s, n + 1, Len(s)) \in Seq(S)
         /\ Len(SubSeq(s, n + 1, Len(s))) = Len(s) - n
         /\ \A i \in 1..(Len(s) - n) : SubSeq(s, n + 1, Len(s))[i] = s[i + n]
  OBVIOUS

\* A checkpoint position within an epoch of S steps.
LEMMA Division ==
  ASSUME NEW S \in Nat \ {0}, NEW v \in Nat
  PROVE  /\ v % S \in Nat /\ v % S < S /\ v \div S \in Nat
         /\ v = S * (v \div S) + (v % S)
  <1>1. v % S \in Nat /\ v % S < S
    BY SMTT(30)
  <1>2. v \div S \in Nat
    BY SMTT(30)
  <1>3. v = S * (v \div S) + (v % S)
    BY SMTT(30)
  <1>. QED
    BY <1>1, <1>2, <1>3

LEMMA Quotient ==
  ASSUME NEW S \in Nat \ {0}, NEW e \in Nat, NEW p \in Nat, p < S
  PROVE  (S * e + p) % S = p /\ (S * e + p) \div S = e
  BY SMTT(30)

LEMMA Product ==
  ASSUME NEW S \in Nat \ {0}, NEW E \in Nat \ {0}
  PROVE  /\ S * E \in Nat
         /\ \A e \in Nat : S * e \in Nat /\ S * e = e * S /\ S * (e + 1) = S * e + S
         /\ \A e \in Nat : e < E => S * e + S <= S * E
         /\ \A e \in Nat : e >= E => S * e >= S * E
  <1>1. S * E \in Nat
    BY SMTT(30)
  <1>2. \A e \in Nat : S * e \in Nat /\ S * e = e * S /\ S * (e + 1) = S * e + S
    BY SMTT(30)
  <1>3. \A e \in Nat : e < E => S * e + S <= S * E
    BY SMTT(30)
  <1>4. \A e \in Nat : e >= E => S * e >= S * E
    BY SMTT(30)
  <1>. QED
    BY <1>1, <1>2, <1>3, <1>4

\* The weights after n batches, each trained on once and in order, and the position within the epoch
\* of S steps that belongs to them.
Upto(n) == [i \in 1..n |-> i - 1]
PosOf(v, S) == ((v - 1) % S) + 1

LEMMA Positions ==
  ASSUME NEW S \in Nat \ {0}, NEW E \in Nat \ {0}
  PROVE  /\ \A e \in Nat : \A p \in 1..S : PosOf(S * e + p, S) = p
         /\ \A v \in 1..(S * E) :
              /\ PosOf(v, S) \in 1..S
              /\ v \div S \in 0..E
              /\ v % S = 0 => v = S * (v \div S)
              /\ v % S # 0 => /\ v \div S < E /\ PosOf(v, S) = v % S
                              /\ v = S * (v \div S) + PosOf(v, S)
  <1>1. ASSUME NEW e \in Nat, NEW p \in 1..S PROVE PosOf(S * e + p, S) = p
    <2>. DEFINE b == S * e
    <2>1. b \in Nat /\ (b + (p - 1)) % S = p - 1
      BY Product, Quotient
    <2>. HIDE DEF b
    <2>2. (b + p) - 1 = b + (p - 1)
      BY <2>1
    <2>3. ((b + p) - 1) % S = p - 1
      BY <2>1, <2>2, Zenon
    <2>. QED
      BY <2>3 DEF PosOf, b
  <1>2. ASSUME NEW v \in 1..(S * E)
        PROVE  /\ PosOf(v, S) \in 1..S
               /\ v \div S \in 0..E
               /\ v % S = 0 => v = S * (v \div S)
               /\ v % S # 0 => /\ v \div S < E /\ PosOf(v, S) = v % S
                               /\ v = S * (v \div S) + PosOf(v, S)
    <2>. DEFINE e == v \div S
                m == v % S
                b == S * e
                t == S * E
    <2>0. t \in Nat /\ v \in Nat /\ v - 1 \in Nat /\ v <= t
      BY Product
    <2>1. m \in Nat /\ m < S /\ e \in Nat /\ v = b + m
      BY <2>0, Division
    <2>2. (v - 1) % S \in Nat /\ (v - 1) % S < S
      BY <2>0, Division
    <2>3. b \in Nat /\ (e >= E => b >= t) /\ (e < E => b + S <= t)
      BY <2>1, Product
    <2>7. e + 1 \in Nat /\ S * (e + 1) = b + S
      BY <2>1, Product
    <2>4. e \in 0..E
      <3>. SUFFICES ASSUME e > E PROVE FALSE
        BY <2>1
      <3>. DEFINE d == e - 1
      <3>1. d \in Nat /\ d >= E /\ d + 1 = e
        BY <2>1
      <3>2. S * d >= t /\ S * d \in Nat /\ S * (d + 1) = S * d + S
        BY <3>1, Product
      <3>3. b = S * d + S
        BY <3>1, <3>2, Zenon
      <3>. DEFINE bd == S * d
      <3>. HIDE DEF b, t, bd, m
      <3>. QED
        BY <2>0, <2>1, <3>2, <3>3 DEF bd
    <2>5. m = 0 => v = b
      <3>. HIDE DEF b, m
      <3>. QED
        BY <2>1, <2>3
    <2>6. ASSUME m # 0 PROVE e < E /\ PosOf(v, S) = m
      <3>1. e < E
        <4>. HIDE DEF b, t, m, e
        <4>. QED
          BY <2>0, <2>1, <2>3, <2>4, <2>6
      <3>2. PosOf(b + m, S) = m
        <4>1. m \in 1..S
          BY <2>1, <2>6
        <4>. QED
          BY <1>1, <2>1, <4>1, Zenon
      <3>. QED
        BY <2>1, <3>1, <3>2, Zenon
    <2>. QED
      BY <2>1, <2>2, <2>4, <2>5, <2>6 DEF PosOf
  <1>. QED
    BY <1>1, <1>2

LEMMA EpochOf ==
  ASSUME NEW S \in Nat \ {0}, NEW v \in Nat \ {0}
  PROVE  /\ PosOf(v, S) \in 1..S
         /\ \E e \in 0..(v \div S) : v = S * e + PosOf(v, S)
  <1>. DEFINE e == (v - 1) \div S
              m == (v - 1) % S
              q == v \div S
              b == S * e
              t == S * q
              d == v % S
  <1>1. v - 1 \in Nat
    OBVIOUS
  <1>2. e \in Nat /\ m \in Nat /\ m < S /\ v - 1 = b + m
    BY <1>1, Division
  <1>3. q \in Nat /\ d \in Nat /\ d < S /\ v = t + d
    BY Division
  <1>4. q + 1 \in Nat \ {0} /\ S * (q + 1) = t + S /\ b \in Nat /\ t \in Nat
        /\ (e >= q + 1 => b >= S * (q + 1))
    BY <1>2, <1>3, Product
  <1>5. PosOf(v, S) = m + 1
    BY DEF PosOf
  <1>. HIDE DEF e, m, q, b, t, d
  <1>6. e <= q
    BY <1>2, <1>3, <1>4
  <1>7. v = b + PosOf(v, S) /\ PosOf(v, S) \in 1..S /\ e \in 0..q
    BY <1>2, <1>3, <1>4, <1>5, <1>6
  <1>. QED
    BY <1>7 DEF b, q

LEMMA UptoFacts ==
  /\ Upto(0) = <<>>
  /\ \A n \in Nat : /\ Upto(n) \in Seq(Nat) /\ Len(Upto(n)) = n
                    /\ Append(Upto(n), n) = Upto(n + 1)
                    /\ n > 0 => Upto(n)[1] = 0
  <1>1. Upto(0) = <<>>
    BY DEF Upto
  <1>2. ASSUME NEW n \in Nat PROVE Upto(n) \in Seq(Nat) /\ Len(Upto(n)) = n
    BY DEF Upto
  <1>3. ASSUME NEW n \in Nat PROVE Append(Upto(n), n) = Upto(n + 1)
    <2>1. Append(Upto(n), n) \in Seq(Nat) /\ Len(Append(Upto(n), n)) = n + 1
      BY <1>2, AppendProperties
    <2>2. Upto(n + 1) \in Seq(Nat) /\ Len(Upto(n + 1)) = n + 1
      BY <1>2
    <2>3. \A i \in 1..(n + 1) : Append(Upto(n), n)[i] = Upto(n + 1)[i]
      BY <1>2 DEF Upto
    <2>. QED
      BY <2>1, <2>2, <2>3, SeqEqual
  <1>4. ASSUME NEW n \in Nat, n > 0 PROVE Upto(n)[1] = 0
    BY <1>4 DEF Upto
  <1>. QED
    BY <1>1, <1>2, <1>3, <1>4

-----------------------------------------------------------------------------
(* The one step off job.                                                   *)

Phase == {"down", "start", "await", "update", "validate", "save", "done", "failed"}
Batch == [number : Int, version : Int]
Saved == [step : Nat, batches : Seq(Int), updates : Nat, pass : Nat, pos : 0 .. StepsPerEpoch]

Types ==
  /\ phase \in Phase /\ step \in Nat
  /\ pass \in Nat /\ pos \in 0 .. StepsPerEpoch /\ left \in 0 .. Epochs
  /\ task \in {"none", "running", "ready", "over"}
  /\ next \in Batch /\ batch \in Batch
  /\ batches \in Seq(Int) /\ updates \in Nat /\ rollout \in Nat
  /\ disk \in Saved
  /\ crashes \in 0 .. MaxCrashes

\* The last checkpoint is that of an unfinished job, unless the job is done.
Steps ==
  /\ step <= TotalSteps + 1 /\ disk.step <= TotalSteps
  /\ phase # "done" => step <= TotalSteps /\ disk.step < TotalSteps

\* Whoever launches a task has an epoch left.
EpochLeft == phase \in {"start", "await", "update", "validate", "save"} => left >= 1

Updates == updates <= Len(batches) /\ disk.updates <= Len(disk.batches)

\* A task generates with the weights that the replicas hold, until its batch
\* is taken.
TaskVersion == task \in {"running", "ready"} => next.version = rollout

\* How many updates the replicas are behind.
Behind ==
  /\ phase \in {"start", "update"} => rollout = updates
  /\ phase \in {"await", "validate", "save"} =>
       updates - rollout \in {0, 1} /\ (step < Warmup => rollout = updates)
  /\ phase = "update" => updates - batch.version \in {0, 1}

OneStepInv == Types /\ Steps /\ EpochLeft /\ Updates /\ TaskVersion /\ Behind

LEMMA OneStepInitially == Init => OneStepInv
  <1>. SUFFICES ASSUME Init PROVE OneStepInv
    OBVIOUS
  <1>. USE OneStepAssumption DEF Init, NoBatch, NoSave
  <1>1. Types
    <2>1. <<>> \in Seq(Int) /\ Len(<<>>) = 0
      BY EmptySeq
    <2>2. next \in Batch /\ batch \in Batch
      BY DEF Batch
    <2>3. disk \in Saved
      BY <2>1 DEF Saved
    <2>. QED
      BY <2>1, <2>2, <2>3 DEF Types, Phase
  <1>2. Steps /\ EpochLeft /\ TaskVersion /\ Behind
    BY DEF Steps, EpochLeft, TaskVersion, Behind
  <1>3. Updates
    BY EmptySeq DEF Updates
  <1>. QED
    BY <1>1, <1>2, <1>3 DEF OneStepInv

\* A launch keeps the types and starts a task of the given weights, if any.
LEMMA Launched ==
  ASSUME Types, left >= 1, NEW version \in Nat, Launch(version)
  PROVE  /\ pass' \in Nat /\ pos' \in 0 .. StepsPerEpoch /\ left' \in 1 .. Epochs
         /\ task' \in {"running", "over"} /\ next' \in Batch
         /\ task' = "running" => next'.version = version
  <1>. DEFINE to == Following
  <1>. USE OneStepAssumption
  <1>1. to.pass \in Nat /\ to.pos \in 0 .. StepsPerEpoch /\ to.left \in 0 .. Epochs
    BY DEF Following, Types
  <1>2. \A a, b \in Nat : a * b \in Nat
    BY Z3
  <1>. HIDE DEF to
  <1>3. CASE to.left = 0
    <2>1. UNCHANGED <<pass, pos, left, next>> /\ task' = "over"
      BY <1>3 DEF Launch, loader, to
    <2>. QED
      BY <2>1 DEF Types
  <1>4. CASE to.left # 0
    <2>1. /\ task' = "running"
          /\ next' = [number |-> to.pass * StepsPerEpoch + to.pos - 1, version |-> version]
          /\ pass' = to.pass /\ pos' = to.pos /\ left' = to.left
      BY <1>4 DEF Launch, to
    <2>2. to.pass * StepsPerEpoch \in Nat
      BY <1>1, <1>2
    <2>3. to.pass * StepsPerEpoch + to.pos - 1 \in Int
      BY <1>1, <2>2
    <2>4. next' \in Batch /\ next'.version = version
      BY <2>1, <2>3 DEF Batch
    <2>. QED
      BY <1>1, <1>4, <2>1, <2>4
  <1>. QED
    BY <1>3, <1>4

LEMMA OneStepStep == OneStepInv /\ [Next]_vars => OneStepInv'
  <1>. SUFFICES ASSUME OneStepInv, [Next]_vars PROVE OneStepInv'
    OBVIOUS
  <1>. USE OneStepAssumption DEF OneStepInv
  <1>1. CASE Load
    <2>1. ResumedAt.pass \in Nat /\ ResumedAt.pos \in 0 .. StepsPerEpoch
      BY DEF ResumedAt, Types, Saved
    <2>2. Types'
      BY <1>1, <2>1 DEF Load, Types, Phase, Saved, NoBatch, Batch
    <2>3. Steps'
      BY <1>1 DEF Load, Types, Saved, Steps
    <2>. QED
      BY <1>1, <2>2, <2>3 DEF Load, Types, Saved, EpochLeft, Updates, TaskVersion, Behind
  <1>2. CASE Start
    <2>1. /\ pass' \in Nat /\ pos' \in 0 .. StepsPerEpoch /\ left' \in 1 .. Epochs
          /\ task' \in {"running", "over"} /\ next' \in Batch
          /\ task' = "running" => next'.version = rollout
      BY <1>2, Launched DEF Start, Types, EpochLeft
    <2>2. Types'
      BY <1>2, <2>1 DEF Start, model, Types, Phase
    <2>. QED
      BY <1>2, <2>1, <2>2 DEF Start, model, Types, Steps, EpochLeft, Updates, TaskVersion, Behind
  <1>3. CASE Await
    <2>1. Synced \in Nat /\ Synced = updates
      BY <1>3 DEF Await, Synced, Types, Behind
    <2>2. /\ pass' \in Nat /\ pos' \in 0 .. StepsPerEpoch /\ left' \in 1 .. Epochs
          /\ task' \in {"none", "running", "over"} /\ next' \in Batch
          /\ task' = "running" => next'.version = Synced
      <3>1. CASE is_last_step
        BY <1>3, <3>1 DEF Await, loader, Types, EpochLeft, NoBatch, Batch
      <3>2. CASE ~is_last_step
        BY <1>3, <2>1, <3>2, Launched DEF Await, Types, EpochLeft
      <3>. QED
        BY <3>1, <3>2
    <2>3. Types'
      BY <1>3, <2>1, <2>2 DEF Await, model, Types, Phase
    <2>. QED
      BY <1>3, <2>1, <2>2, <2>3
      DEF Await, model, Types, Batch, Steps, EpochLeft, Updates, TaskVersion, Behind
  <1>4. CASE AwaitNone
    BY <1>4
    DEF AwaitNone, loader, future, model, Types, Phase, Steps, EpochLeft, Updates, TaskVersion,
        Behind
  <1>5. CASE Update
    <2>1. batches' \in Seq(Int) /\ Len(batches') = Len(batches) + 1 /\ Len(batches) \in Nat
      BY <1>5 DEF Update, Types, Batch
    <2>2. updates' \in Nat /\ updates' - updates \in {0, 1} /\ (step < Warmup => updates' = updates)
      BY <1>5 DEF Update, Types
    <2>3. Types'
      BY <1>5, <2>1, <2>2 DEF Update, loader, future, Types, Phase
    <2>. QED
      BY <1>5, <2>1, <2>2, <2>3
      DEF Update, loader, future, Types, Steps, EpochLeft, Updates, TaskVersion, Behind
  <1>6. CASE Validate
    BY <1>6
    DEF Validate, loader, future, model, Types, Phase, Steps, EpochLeft, Updates, TaskVersion,
        Behind
  <1>7. CASE Save
    <2>1. disk' \in Saved
      BY <1>7 DEF Save, Types, Saved
    <2>2. Types'
      BY <1>7, <2>1 DEF Save, loader, future, model, Types, Phase
    <2>3. Steps'
      <3>1. /\ step \in Nat /\ step <= TotalSteps /\ disk.step < TotalSteps /\ disk.step \in Nat
            /\ step' = step + 1 /\ disk'.step \in {step, disk.step}
        BY <1>7 DEF Save, Types, Saved, Steps
      <3>2. phase' # "done" => step < TotalSteps
        BY <1>7, <3>1 DEF Save, is_last_step
      <3>. QED
        BY <3>1, <3>2 DEF Steps
    <2>4. Updates'
      BY <1>7 DEF Save, model, Updates
    <2>. QED
      BY <1>7, <2>2, <2>3, <2>4
      DEF Save, loader, future, model, Types, EpochLeft, TaskVersion, Behind
  <1>8. CASE Generated
    BY <1>8 DEF Generated, loader, model, Types, Steps, EpochLeft, Updates, TaskVersion, Behind
  <1>9. CASE Crash
    <2>1. <<>> \in Seq(Int) /\ Len(<<>>) = 0
      BY EmptySeq
    <2>2. Types'
      BY <1>9, <2>1 DEF Crash, Types, Phase, NoBatch, Batch
    <2>. QED
      BY <1>9, <2>1, <2>2 DEF Crash, Types, Steps, EpochLeft, Updates, TaskVersion, Behind
  <1>10. CASE UNCHANGED vars
    BY <1>10
    DEF vars, loader, future, model, Types, Steps, EpochLeft, Updates, TaskVersion, Behind
  <1>. QED
    BY <1>1, <1>2, <1>3, <1>4, <1>5, <1>6, <1>7, <1>8, <1>9, <1>10 DEF Next, Trainer

THEOREM OneStepInductive == Spec => []OneStepInv
  BY OneStepInitially, OneStepStep, PTL DEF Spec

\* The counters of the trainer and of its iterator stay within their bounds,
\* and no update is counted that no batch has made.
THEOREM OneStepTypes == Spec => []TypeOK
  <1>1. OneStepInv => TypeOK
    BY OneStepAssumption DEF OneStepInv, Types, Phase, Steps, Updates, TypeOK
  <1>. QED
    BY <1>1, OneStepInductive, PTL

\* A batch is trained on by the weights that generated it or by those of one
\* update later, whatever the warm-up and after any crash.
THEOREM AtMostOneStep == Spec => []OneStep
  <1>1. OneStepInv => OneStep
    BY DEF OneStepInv, Behind, OneStep
  <1>. QED
    BY <1>1, OneStepInductive, PTL

\* The weights of the replicas do not change while a batch is generated.
THEOREM OnePolicy == Spec => []OnePolicyPerBatch
  <1>1. OneStepInv => OnePolicyPerBatch
    BY DEF OneStepInv, TaskVersion, OnePolicyPerBatch
  <1>. QED
    BY <1>1, OneStepInductive, PTL

\* How many batches the iterator has given.
Fetched == pass * StepsPerEpoch + pos
SavedFetched == disk.pass * StepsPerEpoch + disk.pos

Live == phase \in {"start", "await", "update", "validate", "save"}
Trains == IF phase \in {"validate", "save"} THEN step ELSE step - 1

\* The number of the batch that comes after those trained on.
Coming ==
  IF phase = "update" THEN batch.number
  ELSE IF task \in {"running", "ready"} THEN next.number ELSE Fetched

\* With c crashes so far, the job is c batches ahead at most, of what it has trained on and of what
\* it takes next; the iterator is ahead of that by the batch of the task.
Ahead(c) ==
  /\ phase # "down" => \A i \in DOMAIN batches : batches[i] - (i - 1) \in 0..c
  /\ phase # "down" => \A i, j \in DOMAIN batches : i < j => batches[i] < batches[j]
  /\ Live => /\ step >= 1 /\ Len(batches) = Trains /\ Coming - Trains \in 0..c
             /\ \A i \in DOMAIN batches : batches[i] < Coming
  /\ task \in {"running", "ready"} => Fetched = next.number + 1
  /\ phase = "start" => task = "none"
  /\ phase = "update" =>
       Fetched = IF task \in {"running", "ready"} THEN batch.number + 2 ELSE batch.number + 1
  /\ phase = "update" /\ task \in {"running", "ready"} => next.number = batch.number + 1
  /\ phase \in {"update", "validate", "save"} \/ task \in {"running", "ready"} => pos >= 1

\* The disk that the second life of the job starts from: without a crash so far, nothing but the
\* batch of the task is missing.
FirstDisk ==
  /\ phase = "down" /\ crashes = 0 => disk = NoSave
  /\ crashes = 0 \/ (crashes = 1 /\ phase = "down") =>
       /\ Len(disk.batches) = disk.step
       /\ \A i \in DOMAIN disk.batches : disk.batches[i] = i - 1
       /\ SavedFetched - disk.step \in {0, 1}
       /\ disk = NoSave \/ disk.pos >= 1

FewInv == OneStepInv /\ FirstDisk /\ (crashes <= 1 => Ahead(crashes))

LEMMA Fetching ==
  ASSUME Types, NEW version, Launch(version)
  PROVE  \/ task' = "over" /\ UNCHANGED <<pass, pos, next, Fetched>>
         \/ task' = "running" /\ next'.number = Fetched /\ Fetched' = Fetched + 1 /\ pos' >= 1
  <1>. DEFINE to == Following
  <1>. USE OneStepAssumption
  <1>1. to.pass * StepsPerEpoch + to.pos = Fetched + 1 /\ to.pos >= 1
    <2>. DEFINE b == pass * StepsPerEpoch
    <2>1. pass \in Nat /\ pos \in 0..StepsPerEpoch /\ StepsPerEpoch \in Nat /\ Fetched = b + pos
      BY DEF Types, Fetched
    <2>2. \A S \in Nat \ {0} : \A p \in Nat : p * S \in Nat /\ (p + 1) * S = p * S + S
      BY Product
    <2>3. b \in Nat /\ (pass + 1) * StepsPerEpoch = b + StepsPerEpoch
      BY <2>1, <2>2
    <2>4. CASE pos < StepsPerEpoch
      <3>1. to.pass = pass /\ to.pos = pos + 1
        BY <2>4 DEF Following
      <3>2. to.pass * StepsPerEpoch = b
        BY <3>1
      <3>. HIDE DEF b, to
      <3>. QED
        BY <2>1, <2>3, <3>1, <3>2
    <2>5. CASE ~(pos < StepsPerEpoch)
      <3>1. to.pass = pass + 1 /\ to.pos = 1 /\ pos = StepsPerEpoch
        BY <2>1, <2>5 DEF Following
      <3>2. to.pass * StepsPerEpoch = b + StepsPerEpoch
        BY <2>3, <3>1
      <3>. HIDE DEF b, to
      <3>. QED
        BY <2>1, <2>3, <3>1, <3>2
    <2>. QED
      BY <2>4, <2>5
  <1>2. CASE to.left = 0
    BY <1>2 DEF Launch, loader, Fetched
  <1>3. CASE to.left # 0
    <2>1. /\ task' = "running" /\ pass' = to.pass /\ pos' = to.pos
          /\ next' = [number |-> to.pass * StepsPerEpoch + to.pos - 1, version |-> version]
      BY <1>3 DEF Launch
    <2>2. Fetched' = to.pass * StepsPerEpoch + to.pos
      BY <2>1 DEF Fetched
    <2>3. next'.number = (to.pass * StepsPerEpoch + to.pos) - 1
      <3>. DEFINE c == to.pass * StepsPerEpoch
      <3>1. next'.number = c + (to.pos - 1)
        BY <2>1
      <3>2. c \in Nat /\ to.pos \in Nat
        <4>1. to.pass \in Nat /\ to.pos \in Nat
          BY DEF Following, Types
        <4>2. \A S \in Nat \ {0} : \A p \in Nat : p * S \in Nat
          BY Product
        <4>. HIDE DEF to
        <4>. QED
          BY <4>1, <4>2
      <3>. HIDE DEF c, to
      <3>3. next'.number = (c + to.pos) - 1
        BY <3>1, <3>2
      <3>. QED
        BY <3>3 DEF c
    <2>4. Fetched \in Int
      <3>1. \A S \in Nat \ {0} : \A p \in Nat : p * S \in Nat
        BY Product
      <3>2. pass * StepsPerEpoch \in Nat /\ pos \in Nat
        BY <3>1 DEF Types
      <3>. QED
        BY <3>2 DEF Fetched
    <2>. DEFINE f == to.pass * StepsPerEpoch + to.pos
    <2>5. f = Fetched + 1 /\ Fetched' = f /\ next'.number = f - 1
      BY <1>1, <2>2, <2>3
    <2>. HIDE DEF f
    <2>6. next'.number = Fetched /\ Fetched' = Fetched + 1
      BY <2>4, <2>5
    <2>. QED
      BY <1>1, <2>1, <2>6
  <1>. QED
    BY <1>2, <1>3

\* A start goes on where the saved iterator was, or a batch before, at the end of a pass.
LEMMA Resuming ==
  ASSUME Types, Load, SavedFetched - disk.step \in {0, 1}, disk = NoSave \/ disk.pos >= 1
  PROVE  Fetched' - disk.step \in {0, 1} /\ (disk = NoSave => Fetched' = 0)
  <1>. DEFINE S == StepsPerEpoch
              b == disk.pass * S
              p == disk.pos
              n == disk.step
  <1>. USE OneStepAssumption
  <1>1. /\ S \in Nat \ {0} /\ disk.pass \in Nat /\ p \in 0..S /\ n \in Nat
        /\ SavedFetched = b + p /\ Fetched' = pass' * S + pos'
        /\ pass' = ResumedAt.pass /\ pos' = ResumedAt.pos
    BY DEF Types, Saved, Load, SavedFetched, Fetched
  <1>2. \A k \in Nat : k * S \in Nat /\ (k + 1) * S = k * S + S /\ S * k = k * S
    BY <1>1, Product
  <1>3. b \in Nat /\ (disk.pass + 1) * S = b + S
    BY <1>1, <1>2
  <1>4. CASE disk = NoSave
    <2>1. 0 % S = 0
      BY <1>1
    <2>2. ResumedAt = [pass |-> 0, pos |-> 0] /\ disk.step = 0
      BY <1>1, <1>4, <2>1 DEF ResumedAt, AtBoundary, NoSave
    <2>3. Fetched' = 0 * S + 0
      BY <1>1, <2>2
    <2>4. \A k \in Nat : 0 * k + 0 = 0
      OBVIOUS
    <2>. QED
      BY <1>1, <2>2, <2>3, <2>4
  <1>5. CASE disk # NoSave /\ ~AtBoundary
    BY <1>1, <1>5 DEF ResumedAt
  <1>6. CASE disk # NoSave /\ AtBoundary /\ p = S
    <2>1. pass' = disk.pass + 1 /\ pos' = 0
      BY <1>1, <1>6 DEF ResumedAt
    <2>2. Fetched' = (disk.pass + 1) * S + 0
      BY <1>1, <2>1
    <2>. HIDE DEF b, S
    <2>3. Fetched' = b + p
      BY <1>1, <1>3, <1>6, <2>2
    <2>. QED
      BY <1>1, <1>6, <2>3
  <1>7. CASE disk # NoSave /\ AtBoundary /\ p # S
    <2>1. pass' = disk.pass /\ pos' = 0
      BY <1>1, <1>7 DEF ResumedAt
    <2>2. Fetched' = b + 0
      BY <1>1, <2>1
    <2>3. Fetched' = b
      BY <1>3, <2>2
    <2>4. n % S = 0 /\ p \in 1..(S - 1) /\ S * disk.pass = b
      <3>1. n % S = 0
        BY <1>7 DEF AtBoundary
      <3>2. S * disk.pass = b
        BY <1>1, <1>2
      <3>3. p \in 1..(S - 1)
        <4>1. p \in 0..S /\ p # S /\ p >= 1 /\ S \in Nat
          BY <1>1, <1>7
        <4>. HIDE DEF p, S
        <4>. QED
          BY <4>1
      <3>. QED
        BY <3>1, <3>2, <3>3
    <2>5. ASSUME NEW d \in {0, 1}, b + p = n + d PROVE b = n
      <3>1. p - d \in Nat /\ p - d < S
        <4>1. S \in Nat /\ p \in 1..(S - 1)
          BY <1>1, <2>4
        <4>. HIDE DEF p, S
        <4>. QED
          BY <4>1
      <3>2. (S * disk.pass + (p - d)) % S = p - d
        BY <1>1, <3>1, Quotient
      <3>3. S * disk.pass + (p - d) = n
        <4>. HIDE DEF b, p, n
        <4>. QED
          BY <1>1, <1>3, <2>4, <2>5, <3>1
      <3>4. p - d = 0
        BY <2>4, <3>2, <3>3
      <3>. HIDE DEF b, p, n
      <3>. QED
        BY <1>1, <1>3, <2>4, <2>5, <3>4
    <2>6. b + p = n + 0 \/ b + p = n + 1
      <3>1. (b + p) - n \in {0, 1}
        BY <1>1
      <3>. HIDE DEF b, p, n
      <3>. QED
        BY <1>1, <1>3, <3>1
    <2>7. b = n
      BY <2>5, <2>6
    <2>. QED
      BY <1>1, <1>7, <2>3, <2>7
  <1>. QED
    BY <1>1, <1>4, <1>5, <1>6, <1>7

LEMMA FewInitially == Init => FewInv
  <1>. SUFFICES ASSUME Init PROVE FewInv
    OBVIOUS
  <1>1. \A S \in Nat \ {0} : 0 * S + 0 = 0
    OBVIOUS
  <1>2. SavedFetched = 0 /\ disk.step = 0 /\ disk.batches = <<>>
    BY <1>1, OneStepAssumption DEF Init, NoSave, SavedFetched
  <1>3. FirstDisk
    BY <1>2 DEF Init, FirstDisk
  <1>4. Ahead(crashes)
    BY DEF Init, Ahead, Live
  <1>. QED
    BY <1>3, <1>4, OneStepInitially DEF FewInv

\* While nothing of it changes, the disk of the first life stays as it is.
LEMMA DiskKept ==
  ASSUME FewInv, phase' # "down", UNCHANGED <<disk, crashes>>
  PROVE  FirstDisk'
  BY DEF FewInv, FirstDisk, SavedFetched

LEMMA FewLoad ==
  ASSUME FewInv, Load
  PROVE  FirstDisk' /\ (crashes <= 1 => Ahead(crashes)')
  <1>1. /\ phase = "down" /\ phase' = "start" /\ step' = disk.step + 1 /\ batches' = disk.batches
        /\ task' = "none" /\ UNCHANGED <<disk, crashes>>
    BY DEF Load
  <1>2. Types /\ crashes \in Nat /\ disk.step \in Nat /\ disk.batches \in Seq(Int)
    BY DEF FewInv, OneStepInv, Types, Saved
  <1>3. ASSUME crashes <= 1 PROVE Ahead(crashes)'
    <2>1. crashes = 0 \/ crashes = 1
      BY <1>2, <1>3
    <2>2. /\ Len(disk.batches) = disk.step /\ SavedFetched - disk.step \in {0, 1}
          /\ \A i \in DOMAIN disk.batches : disk.batches[i] = i - 1
          /\ disk = NoSave \/ disk.pos >= 1
      BY <1>1, <2>1 DEF FewInv, FirstDisk
    <2>3. Fetched' - disk.step \in {0, 1} /\ (disk = NoSave => Fetched' = 0)
      BY <1>2, <2>2, Resuming
    <2>4. Fetched' - disk.step \in 0..crashes
      <3>1. CASE crashes = 0
        BY <1>1, <2>3, <3>1 DEF FewInv, FirstDisk, NoSave
      <3>2. CASE crashes = 1
        BY <2>3, <3>2
      <3>. QED
        BY <2>1, <3>1, <3>2
    <2>5. DOMAIN batches' = 1..disk.step /\ \A i \in DOMAIN batches' : batches'[i] = i - 1
      BY <1>1, <1>2, <2>2
    <2>6. Live' /\ Trains' = disk.step /\ Coming' = Fetched'
      BY <1>1, <1>2 DEF Live, Trains, Coming
    <2>. DEFINE f == Fetched'
    <2>7. Fetched' \in Int
      <3>1. pass' \in Nat /\ pos' \in Nat /\ StepsPerEpoch \in Nat
        BY <1>2, OneStepAssumption DEF Load, ResumedAt, Types, Saved
      <3>2. \A a, b, c \in Nat : a * b + c \in Int
        BY Z3
      <3>. QED
        BY <3>1, <3>2 DEF Fetched
    <2>8. f \in Int /\ f >= disk.step /\ f - disk.step \in 0..crashes
      BY <1>2, <2>4, <2>7
    <2>. HIDE DEF f
    <2>9. \A i \in DOMAIN batches' : batches'[i] < f
      BY <1>2, <2>5, <2>8
    <2>10. \A i \in DOMAIN batches' : batches'[i] - (i - 1) \in 0..crashes
      BY <1>2, <2>5
    <2>11. \A i, j \in DOMAIN batches' : i < j => batches'[i] < batches'[j]
      BY <1>2, <2>5
    <2>12. step' >= 1 /\ Len(batches') = disk.step /\ crashes' = crashes
      BY <1>1, <1>2, <2>2
    <2>13. Coming' = f
      BY <2>6 DEF f
    <2>. QED
      BY <1>1, <2>6, <2>8, <2>9, <2>10, <2>11, <2>12, <2>13 DEF Ahead
  <1>. QED
    BY <1>1, <1>3, DiskKept

LEMMA FewStart ==
  ASSUME FewInv, Start
  PROVE  FirstDisk' /\ (crashes <= 1 => Ahead(crashes)')
  <1>1. /\ phase = "start" /\ phase' = "await" /\ Launch(rollout)
        /\ UNCHANGED <<step, batches, disk, crashes>>
    BY DEF Start, model
  <1>2. \/ task' = "over" /\ UNCHANGED <<pass, pos, next, Fetched>>
        \/ task' = "running" /\ next'.number = Fetched /\ Fetched' = Fetched + 1 /\ pos' >= 1
    BY <1>1, Fetching DEF FewInv, OneStepInv, Types
  <1>3. ASSUME crashes <= 1 PROVE Ahead(crashes)'
    <2>1. Ahead(crashes) /\ task = "none"
      BY <1>1, <1>3 DEF FewInv, Ahead
    <2>2. Live /\ Live' /\ Trains' = Trains /\ Coming = Fetched /\ Coming' = Coming
      BY <1>1, <1>2, <2>1 DEF Live, Trains, Coming
    <2>. QED
      BY <1>1, <1>2, <2>1, <2>2 DEF Ahead
  <1>. QED
    BY <1>1, <1>3, DiskKept

LEMMA FewAwait ==
  ASSUME FewInv, Await
  PROVE  FirstDisk' /\ (crashes <= 1 => Ahead(crashes)')
  <1>1. /\ phase = "await" /\ phase' = "update" /\ task = "ready" /\ batch' = next
        /\ UNCHANGED <<step, batches, disk, crashes>>
    BY DEF Await, model
  <1>2. \/ task' = "none" /\ UNCHANGED <<pos, Fetched>>
        \/ task' = "over" /\ UNCHANGED <<pos, Fetched>>
        \/ task' = "running" /\ next'.number = Fetched /\ Fetched' = Fetched + 1 /\ pos' >= 1
    <2>1. CASE is_last_step
      BY <2>1 DEF Await, loader, Fetched
    <2>2. CASE ~is_last_step
      <3>1. Launch(Synced)
        BY <2>2 DEF Await
      <3>2. Types /\ Synced \in Nat
        BY DEF FewInv, OneStepInv, Types, Synced
      <3>. QED
        BY <3>1, <3>2, Fetching
    <2>. QED
      BY <2>1, <2>2
  <1>3. ASSUME crashes <= 1 PROVE Ahead(crashes)'
    <2>1. Ahead(crashes) /\ Fetched = next.number + 1 /\ pos >= 1 /\ next.number \in Int
      BY <1>1, <1>3 DEF FewInv, Ahead, OneStepInv, Types, Batch
    <2>2. Live /\ Live' /\ Trains' = Trains /\ Coming = next.number /\ Coming' = Coming
      BY <1>1, <1>2, <2>1 DEF Live, Trains, Coming
    <2>3. /\ task' \in {"running", "ready"} => /\ Fetched' = next'.number + 1
                                               /\ next'.number = batch'.number + 1
                                               /\ Fetched' = batch'.number + 2
          /\ task' \notin {"running", "ready"} => Fetched' = batch'.number + 1
          /\ pos' >= 1
      BY <1>1, <1>2, <2>1
    <2>4. /\ phase' # "start" /\ phase' # "down"
          /\ Fetched' = IF task' \in {"running", "ready"} THEN batch'.number + 2
                                                          ELSE batch'.number + 1
      BY <1>1, <2>3
    <2>. QED
      BY <1>1, <2>1, <2>2, <2>3, <2>4 DEF Ahead
  <1>. QED
    BY <1>1, <1>3, DiskKept

LEMMA FewUpdate ==
  ASSUME FewInv, Update
  PROVE  FirstDisk' /\ (crashes <= 1 => Ahead(crashes)')
  <1>1. /\ phase = "update" /\ phase' = "validate" /\ batches' = Append(batches, batch.number)
        /\ UNCHANGED <<step, pass, pos, task, next, batch, disk, crashes>>
    BY DEF Update, loader, future
  <1>2. /\ batches \in Seq(Int) /\ batch.number \in Int /\ step \in Nat /\ crashes \in Nat
        /\ Fetched' = Fetched
    BY <1>1 DEF FewInv, OneStepInv, Types, Batch, Fetched
  <1>3. ASSUME crashes <= 1 PROVE Ahead(crashes)'
    <2>. DEFINE a == batch.number
                m == Len(batches)
                f == Fetched
    <2>1. /\ Ahead(crashes) /\ Live /\ Live' /\ Trains = step - 1 /\ Trains' = step /\ Coming = a
      BY <1>1, <1>3 DEF FewInv, Live, Trains, Coming
    <2>2. /\ step >= 1 /\ m = step - 1 /\ a - (step - 1) \in 0..crashes
          /\ \A i \in DOMAIN batches : batches[i] < a
          /\ \A i \in DOMAIN batches : batches[i] - (i - 1) \in 0..crashes
          /\ \A i, j \in DOMAIN batches : i < j => batches[i] < batches[j]
      BY <1>1, <2>1 DEF Ahead
    <2>3. /\ DOMAIN batches = 1..m /\ DOMAIN batches' = 1..(m + 1) /\ Len(batches') = m + 1
          /\ m \in Nat /\ batches'[m + 1] = a /\ \A i \in 1..m : batches'[i] = batches[i]
          /\ \A i \in 1..m : batches[i] \in Int
      BY <1>1, <1>2
    <2>4. Coming' = a + 1
      <3>1. CASE task \in {"running", "ready"}
        BY <1>1, <2>1, <3>1 DEF Ahead, Coming
      <3>2. CASE task \notin {"running", "ready"}
        BY <1>1, <1>2, <2>1, <3>2 DEF Ahead, Coming
      <3>. QED
        BY <3>1, <3>2
    <2>. HIDE DEF a, m
    <2>5. a \in Int
      BY <1>2 DEF a
    <2>6. Len(batches') = step /\ (a + 1) - step \in 0..crashes
      BY <1>2, <2>2, <2>3, <2>5
    <2>7. \A i \in DOMAIN batches' : batches'[i] < a + 1
      BY <2>2, <2>3, <2>5
    <2>8. \A i \in DOMAIN batches' : batches'[i] - (i - 1) \in 0..crashes
      BY <1>2, <2>2, <2>3, <2>5
    <2>9. \A i, j \in DOMAIN batches' : i < j => batches'[i] < batches'[j]
      BY <2>2, <2>3, <2>5
    <2>10. task' \in {"running", "ready"} => Fetched' = next'.number + 1
      BY <1>1, <1>2, <2>1 DEF Ahead
    <2>11. pos' >= 1
      BY <1>1, <2>1 DEF Ahead
    <2>. QED
      BY <1>1, <2>1, <2>2, <2>4, <2>6, <2>7, <2>8, <2>9, <2>10, <2>11 DEF Ahead
  <1>. QED
    BY <1>1, <1>3, DiskKept

LEMMA FewSave ==
  ASSUME FewInv, Save
  PROVE  FirstDisk' /\ (crashes <= 1 => Ahead(crashes)')
  <1>1. /\ phase = "save" /\ phase' \in {"await", "done"} /\ step' = step + 1
        /\ UNCHANGED <<pass, pos, task, next, batch, batches, crashes>>
        /\ \/ UNCHANGED disk
           \/ disk' = [step |-> step, batches |-> batches, updates |-> updates,
                       pass |-> pass, pos |-> pos]
    BY DEF Save, loader, future, model
  <1>2. /\ step \in Nat /\ crashes \in Nat /\ Fetched' = Fetched /\ batches \in Seq(Int)
        /\ next.number \in Int
    BY <1>1 DEF FewInv, OneStepInv, Types, Batch, Fetched
  <1>3. ASSUME crashes <= 1
        PROVE  /\ Ahead(crashes) /\ Live /\ Trains = step /\ step >= 1 /\ pos >= 1
               /\ Len(batches) = step /\ Coming - step \in 0..crashes
               /\ Coming = IF task \in {"running", "ready"} THEN next.number ELSE Fetched
    BY <1>1, <1>3 DEF FewInv, Ahead, Live, Trains, Coming
  <1>4. FirstDisk'
    <2>1. CASE UNCHANGED disk
      BY <1>1, <2>1, DiskKept
    <2>2. CASE disk' = [step |-> step, batches |-> batches, updates |-> updates,
                        pass |-> pass, pos |-> pos]
      <3>. SUFFICES ASSUME crashes = 0
                    PROVE  /\ Len(batches) = step /\ Fetched - step \in {0, 1} /\ pos >= 1
                           /\ \A i \in DOMAIN batches : batches[i] = i - 1
        BY <1>1, <1>2, <2>2 DEF FirstDisk, SavedFetched, Fetched
      <3>1. \A i \in DOMAIN batches : batches[i] - (i - 1) \in 0..0
        BY <1>1, <1>3 DEF Ahead
      <3>2. \A i \in DOMAIN batches : batches[i] = i - 1
        BY <1>2, <3>1
      <3>3. Fetched - step \in {0, 1}
        <4>1. CASE task \in {"running", "ready"}
          <5>1. Fetched = next.number + 1 /\ next.number - step \in 0..0
            BY <1>3, <4>1 DEF Ahead
          <5>. QED
            BY <1>2, <5>1
        <4>2. CASE task \notin {"running", "ready"}
          <5>1. Fetched - step \in 0..0
            BY <1>3, <4>2
          <5>. QED
            BY <5>1
        <4>. QED
          BY <4>1, <4>2
      <3>. QED
        BY <1>3, <3>2, <3>3
    <2>. QED
      BY <1>1, <2>1, <2>2
  <1>5. ASSUME crashes <= 1 PROVE Ahead(crashes)'
    <2>1. phase' = "await" => Trains' = step /\ Coming' = Coming
      BY <1>1, <1>2, <1>3, <1>5 DEF Trains, Coming
    <2>2. step' >= 1 /\ (Live' => phase' = "await")
      BY <1>1, <1>2 DEF Live
    <2>. QED
      BY <1>1, <1>2, <1>3, <1>5, <2>1, <2>2 DEF Ahead
  <1>. QED
    BY <1>4, <1>5

LEMMA FewCrash ==
  ASSUME FewInv, Crash
  PROVE  FirstDisk' /\ (crashes' <= 1 => Ahead(crashes)')
  <1>1. /\ phase # "down" /\ phase' = "down" /\ crashes' = crashes + 1 /\ task' = "none"
        /\ UNCHANGED disk /\ crashes \in Nat
    BY DEF Crash, FewInv, OneStepInv, Types
  <1>2. FirstDisk'
    <2>1. crashes' # 0 /\ (crashes' = 1 => crashes = 0)
      BY <1>1
    <2>. QED
      BY <1>1, <2>1 DEF FewInv, FirstDisk, SavedFetched
  <1>3. Ahead(crashes)'
    BY <1>1 DEF Ahead, Live
  <1>. QED
    BY <1>2, <1>3

LEMMA FewStep == FewInv /\ [Next]_vars => FewInv'
  <1>. SUFFICES ASSUME FewInv, [Next]_vars PROVE FirstDisk' /\ (crashes' <= 1 => Ahead(crashes)')
    BY OneStepStep DEF FewInv
  <1>1. CASE AwaitNone
    <2>1. /\ phase' = "failed" /\ task = "over"
          /\ UNCHANGED <<step, pass, pos, task, next, batch, batches, disk, crashes, Fetched>>
      BY <1>1 DEF AwaitNone, loader, future, model, Fetched
    <2>2. crashes <= 1 => Ahead(crashes)
      BY DEF FewInv
    <2>3. phase # "down"
      BY <1>1 DEF AwaitNone
    <2>. QED
      BY <2>1, <2>2, <2>3, DiskKept DEF Ahead, Live
  <1>2. CASE Validate
    <2>1. /\ phase = "validate" /\ phase' = "save"
          /\ UNCHANGED <<step, pass, pos, task, next, batch, batches, disk, crashes, Fetched>>
      BY <1>2 DEF Validate, loader, future, model, Fetched
    <2>2. crashes <= 1 => Ahead(crashes)
      BY DEF FewInv
    <2>. QED
      BY <2>1, <2>2, DiskKept DEF Ahead, Live, Trains, Coming
  <1>3. CASE Generated
    <2>1. /\ task = "running" /\ task' = "ready"
          /\ UNCHANGED <<phase, step, pass, pos, next, batch, batches, disk, crashes, Fetched>>
      BY <1>3 DEF Generated, loader, model, Fetched
    <2>2. crashes <= 1 => Ahead(crashes)
      BY DEF FewInv
    <2>3. FirstDisk'
      BY <2>1 DEF FewInv, FirstDisk, SavedFetched
    <2>4. Live' = Live /\ Trains' = Trains /\ Coming' = Coming
      BY <2>1 DEF Live, Trains, Coming
    <2>. QED
      BY <2>1, <2>2, <2>3, <2>4 DEF Ahead
  <1>4. CASE UNCHANGED vars
    <2>1. UNCHANGED <<phase, step, pass, pos, task, next, batch, batches, disk, crashes, Fetched>>
      BY <1>4 DEF vars, loader, future, model, Fetched
    <2>2. crashes <= 1 => Ahead(crashes)
      BY DEF FewInv
    <2>. QED
      BY <2>1, <2>2 DEF FewInv, FirstDisk, SavedFetched, Ahead, Live, Trains, Coming
  <1>6. CASE Load
    BY <1>6, FewLoad DEF Load
  <1>7. CASE Start
    BY <1>7, FewStart DEF Start
  <1>8. CASE Await
    BY <1>8, FewAwait DEF Await
  <1>9. CASE Update
    BY <1>9, FewUpdate DEF Update
  <1>10. CASE Save
    BY <1>10, FewSave DEF Save
  <1>11. CASE Crash
    BY <1>11, FewCrash
  <1>. QED
    BY <1>1, <1>2, <1>3, <1>4, <1>6, <1>7, <1>8, <1>9, <1>10, <1>11 DEF Next, Trainer

LEMMA OnceAhead == FewInv /\ crashes <= 1 => FewLost
  <1>. SUFFICES ASSUME FewInv, crashes <= 1, phase # "down" PROVE
         /\ \A i, j \in DOMAIN batches : i < j => batches[i] < batches[j]
         /\ Len(batches) > 0 => batches[Len(batches)] - (Len(batches) - 1) <= crashes
    BY DEF FewLost
  <1>1. /\ \A i, j \in DOMAIN batches : i < j => batches[i] < batches[j]
        /\ \A i \in DOMAIN batches : batches[i] - (i - 1) \in 0..crashes
        /\ batches \in Seq(Int)
    BY DEF FewInv, Ahead, OneStepInv, Types
  <1>2. Len(batches) > 0 => Len(batches) \in DOMAIN batches
    BY <1>1
  <1>3. \A x \in 0..crashes : x <= crashes
    OBVIOUS
  <1>. QED
    BY <1>1, <1>2, <1>3

\* Until its second crash the one step off job trains on no batch twice and loses at most the one
\* that was being generated when the checkpoint was saved; after that it may do both.
THEOREM OneLostAtMost == Spec => [](crashes <= 1 => FewLost)
  <1>1. Spec => []FewInv
    BY FewInitially, FewStep, PTL DEF Spec
  <1>2. FewInv => (crashes <= 1 => FewLost)
    BY OnceAhead
  <1>. QED
    BY <1>1, <1>2, PTL

-----------------------------------------------------------------------------
(* The synchronous job.                                                    *)

SyncSaving == syncPhase \in {"capacity", "shards", "data", "open", "write"}

SyncTypes ==
  /\ syncPhase \in {"down", "train", "done"} \/ SyncSaving
  /\ part \in Sync!Part /\ (part = "critic" => syncPhase \in {"capacity", "shards"})
  /\ jobStep \in 0..(Sync!Total + 1) /\ epoch \in 0..SyncEpochs /\ jobPos \in 0..SyncSteps
  /\ saved \in [Sync!Part -> Seq(Sync!Version)]
  /\ DOMAIN shards = Sync!Part
  /\ \A p \in Sync!Part : DOMAIN shards[p] = Sync!Version
       /\ \A v \in Sync!Version : DOMAIN shards[p][v] = SyncRank
  /\ DOMAIN data = Sync!Version
  /\ tracker \in {Sync!NoFile, Sync!Cut} \cup Sync!Version
  /\ jobCrashes \in 0..SyncCrashes

\* The weights are those of the step, and the step that of the loop.
SyncPlace ==
  /\ syncPhase = "train" => /\ epoch < SyncEpochs /\ jobStep = SyncSteps * epoch + jobPos + 1
                            /\ weights = Upto(jobStep - 1)
  /\ SyncSaving => /\ epoch < SyncEpochs /\ jobPos >= 1 /\ jobStep = SyncSteps * epoch + jobPos
                   /\ weights = Upto(jobStep)
  /\ syncPhase = "done" => \E n \in 0..Sync!Total : weights = Upto(n)

\* Whatever is on disk is what its version was saved with, in whichever start of the job.
SyncDisk ==
  /\ \A p \in Sync!Part, v \in Sync!Version, r \in SyncRank :
       shards[p][v][r] \in {Sync!NoShard, Upto(v)}
  /\ \A v \in Sync!Version : data[v] \in {Sync!NoData, PosOf(v, SyncSteps)}

SyncWhole(p, v) == \A r \in SyncRank : shards[p][v][r] = Upto(v)

\* What the tracker names is whole.
SyncNamed ==
  tracker \in Sync!Version =>
    (\A p \in Sync!Part : SyncWhole(p, tracker)) /\ data[tracker] = PosOf(tracker, SyncSteps)

\* The save that is under way has registered this part.
SyncRegistered(p) == syncPhase \in {"data", "open", "write"} \/ (part = "critic" /\ p = "actor")

\* How many of the checkpoints that a part remembers are older than the one being saved.
SyncOlder(p) == IF SyncRegistered(p) THEN Len(saved[p]) - 1 ELSE Len(saved[p])

SyncProgress ==
  /\ \A p \in Sync!Part : SyncRegistered(p) => /\ Len(saved[p]) >= 1
                                               /\ saved[p][Len(saved[p])] = jobStep
                                               /\ SyncWhole(p, jobStep)
  /\ syncPhase \in {"open", "write"} => data[jobStep] = PosOf(jobStep, SyncSteps)

\* Of the older ones, only the last can be the one that the tracker names.
SyncRetention ==
  /\ \A p \in Sync!Part : \A i \in 1..SyncOlder(p) :
       saved[p][i] < jobStep /\ (i < SyncOlder(p) => saved[p][i] # tracker)
  /\ syncPhase = "shards" /\ Keep > 1 => Len(saved[part]) <= Keep - 1

SyncInv == SyncTypes /\ SyncPlace /\ SyncDisk /\ SyncNamed /\ SyncProgress /\ SyncRetention

LEMMA SyncConstants ==
  /\ SyncSteps \in Nat \ {0} /\ SyncEpochs \in Nat \ {0} /\ Sync!Total \in Nat /\ Keep \in Nat
  /\ SyncCrashes \in Nat /\ SyncRank # {}
  /\ Sync!Total = SyncSteps * SyncEpochs
  /\ \A e \in Nat : /\ SyncSteps * e \in Nat /\ SyncSteps * e = e * SyncSteps
                    /\ SyncSteps * (e + 1) = SyncSteps * e + SyncSteps
                    /\ e < SyncEpochs => SyncSteps * e + SyncSteps <= Sync!Total
  BY MCRestartsAssumption, Product DEF Sync!TrainingAssumption, Sync!KeepAssumption, Sync!Total

\* While a batch is saved its step is a version.
LEMMA SyncSavingStep ==
  ASSUME SyncTypes, SyncPlace, SyncSaving
  PROVE  jobStep \in Sync!Version /\ PosOf(jobStep, SyncSteps) = jobPos
  <1>. DEFINE b == SyncSteps * epoch
  <1>1. /\ b \in Nat /\ b + SyncSteps <= Sync!Total /\ jobStep = b + jobPos
        /\ jobPos \in 1..SyncSteps
        /\ epoch \in Nat
    BY SyncConstants DEF SyncTypes, SyncPlace
  <1>2. PosOf(b + jobPos, SyncSteps) = jobPos
    BY <1>1, SyncConstants, Positions
  <1>. HIDE DEF b
  <1>. QED
    BY <1>1, <1>2, SyncConstants DEF Sync!Version

\* A shard that was written.
LEMMA SyncWritten == \A n \in Nat : n > 0 => Upto(n) # Sync!NoShard
  BY UptoFacts DEF Sync!NoShard

LEMMA SyncInitially == Sync!Init => SyncInv
  <1>. SUFFICES ASSUME Sync!Init PROVE SyncInv
    OBVIOUS
  <1>. USE DEF Sync!Init
  <1>1. SyncTypes
    BY SyncConstants DEF SyncTypes, Sync!Part, Sync!NoFile, SyncSaving
  <1>2. tracker \notin Sync!Version
    BY SyncConstants DEF Sync!NoFile, Sync!Version
  <1>3. SyncDisk
    BY DEF SyncDisk
  <1>4. SyncPlace /\ SyncProgress /\ SyncRetention
    BY SyncConstants
    DEF SyncPlace, SyncProgress, SyncRetention, SyncRegistered, SyncOlder, SyncSaving, Sync!Part
  <1>. QED
    BY <1>1, <1>2, <1>3, <1>4 DEF SyncInv, SyncNamed

\* What a start finds: the version that the tracker names, whole, or nothing.
LEMMA SyncLatest ==
  ASSUME SyncInv, tracker # Sync!Cut
  PROVE  /\ Sync!Latest \in 0..Sync!Total
         /\ Sync!Latest # 0 => /\ Sync!Latest \in Sync!Version
                               /\ \A p \in Sync!Part, r \in SyncRank :
                                    shards[p][Sync!Latest][r] = Upto(Sync!Latest)
                               /\ data[Sync!Latest] = PosOf(Sync!Latest, SyncSteps)
  <1>1. CASE tracker = Sync!NoFile
    BY <1>1, SyncConstants DEF Sync!Latest
  <1>2. CASE tracker # Sync!NoFile
    <2>1. tracker \in Sync!Version
      BY <1>2 DEF SyncInv, SyncTypes
    <2>2. (\A p \in Sync!Part : SyncWhole(p, tracker)) /\ data[tracker] = PosOf(tracker, SyncSteps)
      BY <2>1 DEF SyncInv, SyncNamed
    <2>3. PICK r \in SyncRank : shards["actor"][tracker][r] = Upto(tracker)
      BY <2>2, SyncConstants DEF SyncWhole, Sync!Part
    <2>4. tracker \in Nat /\ tracker > 0 /\ tracker \in 0..Sync!Total
      BY <2>1, SyncConstants DEF Sync!Version
    <2>5. Sync!Exists(tracker)
      BY <2>3, <2>4, SyncWritten DEF Sync!Exists, Sync!Part
    <2>6. Sync!Latest = tracker
      BY <1>2, <2>5 DEF Sync!Latest
    <2>. QED
      BY <2>1, <2>2, <2>4, <2>6 DEF SyncWhole
  <1>. QED
    BY <1>1, <1>2

LEMMA SyncStart ==
  ASSUME SyncInv, Sync!Start
  PROVE  SyncInv'
  <1>. DEFINE v == Sync!Latest
              e == v \div SyncSteps
              b == SyncSteps * e
  <1>1. /\ syncPhase' = IF e < SyncEpochs THEN "train" ELSE "done"
        /\ jobStep' = v + 1 /\ epoch' = e /\ jobPos' = Sync!Position(v)
        /\ part' = "actor" /\ saved' = [p \in Sync!Part |-> <<>>]
        /\ UNCHANGED <<shards, data, tracker, jobCrashes>>
    BY DEF Sync!Start, Sync!FirstStep, Sync!disk
  <1>2. /\ v \in 0..Sync!Total
        /\ v # 0 => /\ v \in Sync!Version
                    /\ \A p \in Sync!Part, r \in SyncRank : shards[p][v][r] = Upto(v)
                    /\ data[v] = PosOf(v, SyncSteps)
    BY SyncLatest DEF Sync!Start
  <1>3. weights' = Upto(v)
    <2>1. CASE v = 0
      BY <2>1, UptoFacts DEF Sync!Start
    <2>2. CASE v # 0
      BY <1>2, <2>2, Zenon DEF Sync!Start
    <2>. QED
      BY <2>1, <2>2
  <1>4. e \in 0..SyncEpochs /\ jobPos' \in 0..SyncSteps /\ v = b + jobPos'
    <2>1. CASE v = 0
      <3>1. e = 0 /\ b = 0 /\ jobPos' = 0
        <4>1. \A S \in Nat \ {0} : 0 \div S = 0 /\ S * 0 = 0
          OBVIOUS
        <4>2. e = 0
          BY <2>1, <4>1, SyncConstants
        <4>. QED
          BY <1>1, <2>1, <4>1, <4>2, SyncConstants DEF Sync!Position
      <3>. QED
        BY <2>1, <3>1, SyncConstants
    <2>2. CASE v # 0
      <3>1. v \in 1..(SyncSteps * SyncEpochs)
        BY <1>2, <2>2, SyncConstants
      <3>2. /\ PosOf(v, SyncSteps) \in 1..SyncSteps
            /\ e \in 0..SyncEpochs
            /\ v % SyncSteps = 0 => v = b
            /\ v % SyncSteps # 0 => v = b + PosOf(v, SyncSteps)
        BY <3>1, SyncConstants, Positions
      <3>3. CASE v % SyncSteps = 0
        <4>1. jobPos' = 0
          BY <1>1, <3>3 DEF Sync!Position
        <4>. QED
          BY <1>2, <3>2, <3>3, <4>1, SyncConstants
      <3>4. CASE v % SyncSteps # 0
        <4>1. data[v] # Sync!NoData
          BY <1>2, <2>2, <3>2, SyncConstants DEF Sync!NoData
        <4>2. jobPos' = PosOf(v, SyncSteps)
          BY <1>1, <1>2, <2>2, <3>4, <4>1 DEF Sync!Position
        <4>. QED
          BY <3>2, <3>4, <4>2, SyncConstants
      <3>. QED
        BY <3>3, <3>4
    <2>. QED
      BY <2>1, <2>2
  <1>. HIDE DEF v, e, b
  <1>5. SyncTypes'
    <2>1. saved' \in [Sync!Part -> Seq(Sync!Version)]
      BY <1>1
    <2>. QED
      BY <1>1, <1>2, <1>4, <2>1, SyncConstants DEF SyncInv, SyncTypes, Sync!Part, SyncSaving
  <1>6. SyncPlace'
    <2>1. syncPhase' = "train" => e < SyncEpochs
      BY <1>1
    <2>2. b = SyncSteps * e
      BY DEF b
    <2>3. jobStep' - 1 = v
      BY <1>1, <1>2, SyncConstants
    <2>. QED
      BY <1>1, <1>2, <1>3, <1>4, <2>1, <2>2, <2>3, SyncConstants DEF SyncPlace, SyncSaving
  <1>7. SyncDisk' /\ SyncNamed'
    BY <1>1 DEF SyncInv, SyncDisk, SyncNamed, SyncWhole
  <1>8. SyncProgress' /\ SyncRetention'
    BY <1>1 DEF SyncProgress, SyncRetention, SyncRegistered, SyncOlder
  <1>. QED
    BY <1>5, <1>6, <1>7, <1>8 DEF SyncInv

LEMMA SyncTrainBatch ==
  ASSUME SyncInv, NEW expiring \in BOOLEAN, Sync!TrainBatch(expiring)
  PROVE  SyncInv'
  <1>. DEFINE b == SyncSteps * epoch
  <1>1. /\ syncPhase = "train" /\ jobPos < SyncSteps /\ jobPos' = jobPos + 1
        /\ weights' = Append(weights, epoch * SyncSteps + jobPos)
        /\ UNCHANGED <<part, epoch, saved, shards, data, tracker, jobCrashes>>
        /\ \/ syncPhase' = "capacity" /\ jobStep' = jobStep
           \/ syncPhase' = "train" /\ jobStep' = jobStep + 1 /\ jobStep < Sync!Total
    BY SyncConstants DEF Sync!TrainBatch, Sync!AfterStep, Sync!disk, SyncInv, SyncTypes
  <1>2. /\ epoch < SyncEpochs /\ jobStep = b + jobPos + 1 /\ weights = Upto(jobStep - 1)
        /\ epoch \in Nat /\ jobPos \in Nat /\ b \in Nat /\ b = epoch * SyncSteps
        /\ b + SyncSteps <= Sync!Total /\ part = "actor"
    BY <1>1, SyncConstants DEF SyncInv, SyncTypes, SyncPlace, Sync!Part
  <1>3. weights' = Upto(jobStep)
    <2>1. jobStep - 1 = b + jobPos /\ jobStep - 1 \in Nat /\ (jobStep - 1) + 1 = jobStep
      BY <1>2
    <2>2. weights' = Append(Upto(jobStep - 1), jobStep - 1)
      BY <1>1, <1>2, <2>1, Zenon
    <2>. QED
      BY <2>1, <2>2, UptoFacts, Zenon
  <1>4. SyncTypes'
    <2>1. jobPos' \in 0..SyncSteps
      BY <1>1, <1>2, SyncConstants
    <2>2. syncPhase' \in {"train", "capacity"}
      BY <1>1
    <2>3. jobStep \in Nat /\ jobStep <= Sync!Total
      <3>1. jobPos < SyncSteps /\ SyncSteps \in Nat /\ Sync!Total \in Nat
        BY <1>1, SyncConstants
      <3>. HIDE DEF b
      <3>. QED
        BY <1>2, <3>1
    <2>4. jobStep' \in 0..(Sync!Total + 1)
      BY <1>1, <2>3, SyncConstants
    <2>. QED
      BY <1>1, <1>2, <2>1, <2>2, <2>4 DEF SyncInv, SyncTypes, SyncSaving
  <1>5. SyncPlace'
    <2>1. CASE syncPhase' = "capacity" /\ jobStep' = jobStep
      <3>1. jobPos' >= 1 /\ jobStep' = b + jobPos'
        BY <1>1, <1>2, <2>1, SyncConstants
      <3>. QED
        BY <1>1, <1>2, <1>3, <2>1, <3>1 DEF SyncPlace, SyncSaving
    <2>2. CASE syncPhase' = "train" /\ jobStep' = jobStep + 1
      <3>1. jobStep' = b + jobPos' + 1 /\ jobStep' - 1 = jobStep
        BY <1>1, <1>2, <2>2, SyncConstants
      <3>. QED
        BY <1>1, <1>2, <1>3, <2>2, <3>1 DEF SyncPlace, SyncSaving
    <2>. QED
      BY <1>1, <2>1, <2>2
  <1>6. SyncDisk' /\ SyncNamed'
    BY <1>1 DEF SyncInv, SyncDisk, SyncNamed, SyncWhole
  <1>7. ~SyncRegistered("actor") /\ ~SyncRegistered("critic") /\ ~SyncRegistered("actor")'
       /\ ~SyncRegistered("critic")'
    BY <1>1, <1>2 DEF SyncRegistered
  <1>8. SyncProgress' /\ SyncRetention'
    <2>1. \A p \in Sync!Part : ~SyncRegistered(p) /\ ~SyncRegistered(p)'
         /\ SyncOlder(p) = Len(saved[p]) /\ SyncOlder(p)' = Len(saved[p])
      BY <1>1, <1>7 DEF Sync!Part, SyncOlder
    <2>2. SyncProgress'
      BY <1>1, <2>1 DEF SyncProgress
    <2>3. \A p \in Sync!Part : \A i \in 1..Len(saved[p]) : saved[p][i] \in Sync!Version
      BY DEF SyncInv, SyncTypes
    <2>4. jobStep' >= jobStep /\ jobStep \in Nat /\ jobStep' \in Nat
      BY <1>1, <1>2, SyncConstants
    <2>5. ASSUME NEW p \in Sync!Part, NEW i \in 1..SyncOlder(p)'
          PROVE  saved'[p][i] < jobStep' /\ (i < SyncOlder(p)' => saved'[p][i] # tracker')
      <3>1. saved[p][i] < jobStep /\ (i < SyncOlder(p) => saved[p][i] # tracker)
        BY <2>1, <2>5 DEF SyncInv, SyncRetention
      <3>2. saved[p][i] \in Nat
        BY <2>1, <2>3, <2>5 DEF Sync!Version
      <3>. QED
        BY <1>1, <2>1, <2>4, <3>1, <3>2
    <2>. QED
      BY <1>1, <2>2, <2>5 DEF SyncRetention
  <1>. QED
    BY <1>4, <1>5, <1>6, <1>8 DEF SyncInv

LEMMA SyncNextEpoch ==
  ASSUME SyncInv, Sync!NextEpoch
  PROVE  SyncInv'
  <1>. DEFINE b == SyncSteps * epoch
              b1 == SyncSteps * (epoch + 1)
  <1>1. /\ syncPhase = "train" /\ jobPos = SyncSteps /\ epoch' = epoch + 1 /\ jobPos' = 0
        /\ syncPhase' = IF epoch + 1 < SyncEpochs THEN "train" ELSE "done"
        /\ UNCHANGED <<part, jobStep, weights, saved, shards, data, tracker, jobCrashes>>
    BY DEF Sync!NextEpoch, Sync!disk
  <1>2. /\ epoch < SyncEpochs /\ jobStep = b + jobPos + 1 /\ weights = Upto(jobStep - 1)
        /\ part = "actor"
        /\ epoch \in Nat /\ b \in Nat /\ b + SyncSteps <= Sync!Total /\ b1 = b + SyncSteps
    <2>1. /\ epoch < SyncEpochs /\ jobStep = b + jobPos + 1 /\ weights = Upto(jobStep - 1)
          /\ part = "actor" /\ epoch \in Nat
      BY <1>1 DEF SyncInv, SyncTypes, SyncPlace, Sync!Part
    <2>. QED
      BY <2>1, SyncConstants
  <1>3. SyncTypes'
    BY <1>1, <1>2, SyncConstants DEF SyncInv, SyncTypes, SyncSaving
  <1>4. SyncPlace'
    <2>1. CASE syncPhase' = "train"
      <3>1. epoch' < SyncEpochs /\ jobStep' = b1 + jobPos' + 1
        BY <1>1, <1>2, <2>1, SyncConstants
      <3>. QED
        BY <1>1, <1>2, <2>1, <3>1 DEF SyncPlace, SyncSaving
    <2>2. CASE syncPhase' = "done"
      <3>1. jobStep - 1 \in 0..Sync!Total
        BY <1>1, <1>2, SyncConstants
      <3>. QED
        BY <1>1, <1>2, <2>2, <3>1 DEF SyncPlace, SyncSaving
    <2>. QED
      BY <1>1, <2>1, <2>2
  <1>5. SyncDisk' /\ SyncNamed'
    BY <1>1 DEF SyncInv, SyncDisk, SyncNamed, SyncWhole
  <1>6. \A p \in Sync!Part : ~SyncRegistered(p)' /\ ~SyncRegistered(p)
       /\ SyncOlder(p)' = SyncOlder(p)
    BY <1>1, <1>2 DEF SyncRegistered, SyncOlder
  <1>7. SyncProgress' /\ SyncRetention'
    BY <1>1, <1>6 DEF SyncInv, SyncProgress, SyncRetention
  <1>. QED
    BY <1>3, <1>4, <1>5, <1>7 DEF SyncInv

\* What a removal leaves alone.
LEMMA SyncRemoved ==
  ASSUME SyncTypes, NEW p \in Sync!Part, NEW vs
  PROVE  LET rest == Sync!Remove(p, vs) IN
         /\ DOMAIN rest = Sync!Part
         /\ \A q \in Sync!Part : /\ DOMAIN rest[q] = Sync!Version
                                 /\ \A v \in Sync!Version : DOMAIN rest[q][v] = SyncRank
         /\ \A q \in Sync!Part, v \in Sync!Version : q # p \/ v \notin vs
              => rest[q][v] = shards[q][v]
         /\ \A q \in Sync!Part, v \in Sync!Version, r \in SyncRank :
              rest[q][v][r] \in {Sync!NoShard, shards[q][v][r]}
  BY DEF SyncTypes, Sync!Remove

LEMMA SyncCapacity ==
  ASSUME SyncInv, Sync!Capacity
  PROVE  SyncInv'
  <1>. DEFINE L == Len(saved[part])
              n == Sync!OverCapacity(saved[part])
              gone == Sync!Oldest(saved[part], n)
  <1>1. /\ syncPhase = "capacity" /\ syncPhase' = "shards"
        /\ shards' = Sync!Remove(part, gone) /\ saved' = [saved EXCEPT ![part] = Sync!Without(@, n)]
        /\ UNCHANGED <<part, jobStep, epoch, jobPos, weights, data, tracker, jobCrashes>>
    BY DEF Sync!Capacity
  <1>2. part \in Sync!Part /\ saved \in [Sync!Part -> Seq(Sync!Version)]
       /\ saved[part] \in Seq(Sync!Version) /\ L \in Nat
    BY DEF SyncInv, SyncTypes
  <1>3. /\ n \in 0..L /\ (n > 0 => n < L)
        /\ Keep > 1 => L - n <= Keep - 1
    <2>1. n = IF Keep > 1 /\ L >= Keep THEN L - Keep + 1 ELSE 0
      BY DEF Sync!OverCapacity
    <2>. HIDE DEF L, n
    <2>. QED
      BY <1>2, <2>1, SyncConstants
  <1>4. /\ saved'[part] \in Seq(Sync!Version) /\ Len(saved'[part]) = L - n
        /\ \A i \in 1..(L - n) : saved'[part][i] = saved[part][i + n]
        /\ \A p \in Sync!Part : p # part => saved'[p] = saved[p]
    BY <1>1, <1>2, <1>3, Remaining DEF Sync!Without
  <1>5. /\ \A p \in Sync!Part : SyncRegistered(p)' = SyncRegistered(p)
             /\ (SyncRegistered(p) => p # part)
        /\ SyncOlder(part) = L /\ SyncOlder(part)' = L - n
        /\ \A p \in Sync!Part : p # part => SyncOlder(p)' = SyncOlder(p)
    BY <1>1, <1>2, <1>4 DEF SyncRegistered, SyncOlder, Sync!Part
  <1>6. tracker \notin gone
    <2>1. ASSUME NEW i \in 1..n PROVE saved[part][i] # tracker
      <3>1. i \in 1..L /\ i < L
        BY <1>2, <1>3
      <3>. QED
        BY <1>2, <1>5, <3>1 DEF SyncInv, SyncRetention
    <2>. QED
      BY <2>1 DEF Sync!Oldest
  <1>. HIDE DEF L, n, gone
  <1>7. /\ DOMAIN shards' = Sync!Part
        /\ \A q \in Sync!Part : DOMAIN shards'[q] = Sync!Version
             /\ \A v \in Sync!Version : DOMAIN shards'[q][v] = SyncRank
        /\ \A q \in Sync!Part, v \in Sync!Version : q # part \/ v \notin gone
             => shards'[q][v] = shards[q][v]
        /\ \A q \in Sync!Part, v \in Sync!Version, r \in SyncRank :
             shards'[q][v][r] \in {Sync!NoShard, shards[q][v][r]}
    BY <1>1, <1>2, SyncRemoved DEF SyncInv
  <1>8. SyncTypes'
    <2>1. saved' \in [Sync!Part -> Seq(Sync!Version)]
      BY <1>1, <1>2, <1>4
    <2>. QED
      BY <1>1, <1>7, <2>1 DEF SyncInv, SyncTypes, SyncSaving
  <1>9. SyncPlace'
    BY <1>1 DEF SyncInv, SyncPlace, SyncSaving
  <1>10. SyncDisk'
    BY <1>1, <1>7 DEF SyncInv, SyncDisk
  <1>11. SyncNamed'
    BY <1>1, <1>6, <1>7 DEF SyncInv, SyncNamed, SyncWhole
  <1>12. SyncProgress'
    <2>1. jobStep \in Sync!Version
      BY <1>1, SyncSavingStep DEF SyncInv, SyncSaving
    <2>. QED
      BY <1>1, <1>4, <1>5, <1>7, <2>1 DEF SyncInv, SyncProgress, SyncWhole
  <1>13. SyncRetention'
    <2>1. ASSUME NEW p \in Sync!Part, NEW i \in 1..SyncOlder(p)'
          PROVE  saved'[p][i] < jobStep' /\ (i < SyncOlder(p)' => saved'[p][i] # tracker')
      <3>1. CASE p # part
        BY <1>1, <1>4, <1>5, <2>1, <3>1 DEF SyncInv, SyncRetention
      <3>2. CASE p = part
        <4>0. i \in 1..(L - n)
          BY <1>1, <1>5, <2>1, <3>2
        <4>1. i + n \in 1..L /\ (i < L - n => i + n < L)
          BY <1>2, <1>3, <4>0
        <4>2. saved'[p][i] = saved[p][i + n]
          BY <1>4, <3>2, <4>0
        <4>3. saved[p][i + n] < jobStep /\ (i + n < L => saved[p][i + n] # tracker)
          BY <1>2, <1>5, <3>2, <4>1 DEF SyncInv, SyncRetention
        <4>. QED
          BY <1>1, <1>5, <3>2, <4>0, <4>1, <4>2, <4>3
      <3>. QED
        BY <3>1, <3>2
    <2>2. Keep > 1 => Len(saved'[part]) <= Keep - 1
      BY <1>3, <1>4
    <2>. QED
      BY <1>1, <2>1, <2>2 DEF SyncRetention
  <1>. QED
    BY <1>8, <1>9, <1>10, <1>11, <1>12, <1>13 DEF SyncInv

LEMMA SyncWriteShard ==
  ASSUME SyncInv, NEW r \in SyncRank, Sync!WriteShard(r)
  PROVE  SyncInv'
  <1>1. /\ syncPhase = "shards" /\ shards' = [shards EXCEPT ![part][jobStep][r] = weights]
        /\ UNCHANGED <<syncPhase, part, jobStep, epoch, jobPos, weights, saved, data, tracker,
                       jobCrashes>>
    BY DEF Sync!WriteShard, Sync!memory
  <1>2. /\ jobStep \in Sync!Version /\ weights = Upto(jobStep) /\ part \in Sync!Part
        /\ DOMAIN shards = Sync!Part
        /\ \A p \in Sync!Part : DOMAIN shards[p] = Sync!Version
             /\ \A v \in Sync!Version : DOMAIN shards[p][v] = SyncRank
    BY <1>1, SyncSavingStep DEF SyncInv, SyncSaving, SyncPlace, SyncTypes
  <1>3. /\ DOMAIN shards' = Sync!Part
        /\ \A p \in Sync!Part : DOMAIN shards'[p] = Sync!Version
             /\ \A v \in Sync!Version : DOMAIN shards'[p][v] = SyncRank
        /\ \A p \in Sync!Part, v \in Sync!Version, q \in SyncRank :
             shards'[p][v][q] = IF p = part /\ v = jobStep
                 /\ q = r THEN Upto(jobStep) ELSE shards[p][v][q]
    BY <1>1, <1>2
  <1>4. \A p \in Sync!Part, v \in Sync!Version : SyncWhole(p, v) => SyncWhole(p, v)'
    BY <1>3 DEF SyncWhole
  <1>5. SyncTypes'
    BY <1>1, <1>3 DEF SyncInv, SyncTypes, SyncSaving
  <1>6. SyncPlace'
    BY <1>1 DEF SyncInv, SyncPlace, SyncSaving
  <1>7. SyncDisk'
    BY <1>1, <1>3 DEF SyncInv, SyncDisk
  <1>8. SyncNamed'
    BY <1>1, <1>4 DEF SyncInv, SyncNamed
  <1>9. SyncProgress'
    BY <1>1, <1>2, <1>4 DEF SyncInv, SyncProgress, SyncRegistered
  <1>10. SyncRetention'
    BY <1>1 DEF SyncInv, SyncRetention, SyncOlder, SyncRegistered
  <1>. QED
    BY <1>5, <1>6, <1>7, <1>8, <1>9, <1>10 DEF SyncInv

\* With more than one checkpoint to keep, or all, nothing is removed behind the barrier: the place
\* was made before the save.
LEMMA SyncRegister ==
  ASSUME SyncInv, Sync!Register, Keep # 1
  PROVE  SyncInv'
  <1>. DEFINE L == Len(saved[part])
              all == Append(saved[part], jobStep)
              n == Sync!OverLimit(all)
  <1>1. /\ syncPhase = "shards" /\ Sync!Written
        /\ shards' = Sync!Remove(part, Sync!Oldest(all, n))
        /\ saved' = [saved EXCEPT ![part] = Sync!Without(all, n)]
        /\ \/ part = "actor" /\ part' = "critic" /\ syncPhase' = "capacity"
           \/ part # "actor" /\ part' = "actor" /\ syncPhase' = "data"
        /\ UNCHANGED <<jobStep, epoch, jobPos, weights, data, tracker, jobCrashes>>
    BY DEF Sync!Register
  <1>2. /\ jobStep \in Sync!Version /\ weights = Upto(jobStep) /\ part \in Sync!Part
        /\ saved \in [Sync!Part -> Seq(Sync!Version)] /\ saved[part] \in Seq(Sync!Version)
        /\ L \in Nat
    BY <1>1, SyncSavingStep DEF SyncInv, SyncSaving, SyncPlace, SyncTypes
  <1>3. /\ all \in Seq(Sync!Version) /\ Len(all) = L + 1 /\ all[L + 1] = jobStep
        /\ \A i \in 1..L : all[i] = saved[part][i]
    BY <1>2
  <1>4. n = 0
    <2>1. n = IF Keep > 0 /\ Len(all) > Keep THEN Len(all) - Keep ELSE 0
      BY DEF Sync!OverLimit
    <2>2. Keep > 1 => L <= Keep - 1
      BY <1>1 DEF SyncInv, SyncRetention
    <2>. HIDE DEF L, n, all
    <2>. QED
      BY <1>2, <1>3, <2>1, <2>2, SyncConstants
  <1>. HIDE DEF L, n
  <1>5. /\ saved'[part] = all
        /\ \A p \in Sync!Part : p # part => saved'[p] = saved[p]
        /\ saved' \in [Sync!Part -> Seq(Sync!Version)]
    <2>1. Sync!Without(all, n) = all
      <3>. HIDE DEF all
      <3>1. Sync!Without(all, n) \in Seq(Sync!Version) /\ Len(Sync!Without(all, n)) = Len(all)
            /\ \A i \in 1..Len(all) : Sync!Without(all, n)[i] = all[i]
        BY <1>3, <1>4, Remaining DEF Sync!Without
      <3>. QED
        BY <1>3, <3>1, SeqEqual
    <2>. HIDE DEF all
    <2>. QED
      BY <1>1, <1>2, <1>3, <2>1
  <1>. HIDE DEF all
  <1>6. /\ DOMAIN shards' = Sync!Part
        /\ \A q \in Sync!Part : DOMAIN shards'[q] = Sync!Version
             /\ \A v \in Sync!Version : DOMAIN shards'[q][v] = SyncRank
        /\ \A q \in Sync!Part, v \in Sync!Version : shards'[q][v] = shards[q][v]
    <2>1. Sync!Oldest(all, n) = {}
      BY <1>4 DEF Sync!Oldest
    <2>. QED
      BY <1>1, <1>2, <2>1, SyncRemoved DEF SyncInv
  <1>7. SyncWhole(part, jobStep)
    BY <1>1, <1>2 DEF Sync!Written, SyncWhole
  <1>8. /\ \A p \in Sync!Part : SyncRegistered(p)' <=> (SyncRegistered(p) \/ p = part)
        /\ ~SyncRegistered(part)
        /\ syncPhase' \notin {"open", "write"}
    BY <1>1, <1>2 DEF SyncRegistered, Sync!Part
  <1>9. \A p \in Sync!Part : SyncOlder(p)' = SyncOlder(p) /\ (p = part => SyncOlder(p) = L)
    <2>1. ASSUME NEW p \in Sync!Part, p = part PROVE SyncOlder(p) = L /\ SyncOlder(p)' = L
      <3>1. SyncRegistered(p)' /\ ~SyncRegistered(p) /\ saved'[p] = all
        BY <1>5, <1>8, <2>1
      <3>2. SyncOlder(p) = L /\ SyncOlder(p)' = Len(all) - 1
        BY <2>1, <3>1 DEF SyncOlder, L
      <3>. QED
        BY <1>2, <1>3, <3>2
    <2>2. ASSUME NEW p \in Sync!Part, p # part PROVE SyncOlder(p)' = SyncOlder(p)
      BY <1>5, <1>8, <2>2 DEF SyncOlder
    <2>. QED
      BY <2>1, <2>2
  <1>10. SyncTypes'
    BY <1>1, <1>2, <1>5, <1>6 DEF SyncInv, SyncTypes, Sync!Part, SyncSaving
  <1>11. SyncPlace'
    BY <1>1 DEF SyncInv, SyncPlace, SyncSaving
  <1>12. SyncDisk' /\ SyncNamed'
    BY <1>1, <1>6 DEF SyncInv, SyncDisk, SyncNamed, SyncWhole
  <1>13. SyncProgress'
    <2>1. ASSUME NEW p \in Sync!Part, SyncRegistered(p)'
          PROVE  Len(saved'[p]) >= 1 /\ saved'[p][Len(saved'[p])] = jobStep
              /\ SyncWhole(p, jobStep)'
      <3>1. CASE p = part
        BY <1>1, <1>2, <1>3, <1>5, <1>6, <1>7, <3>1 DEF SyncWhole
      <3>2. CASE p # part
        BY <1>1, <1>2, <1>5, <1>6, <1>8, <2>1, <3>2 DEF SyncInv, SyncProgress, SyncWhole
      <3>. QED
        BY <3>1, <3>2
    <2>. QED
      BY <1>1, <1>8, <2>1 DEF SyncProgress
  <1>14. SyncRetention'
    <2>1. ASSUME NEW p \in Sync!Part, NEW i \in 1..SyncOlder(p)'
          PROVE  saved'[p][i] < jobStep' /\ (i < SyncOlder(p)' => saved'[p][i] # tracker')
      <3>1. CASE p = part
        <4>1. i \in 1..L /\ saved'[p][i] = saved[p][i]
          BY <1>3, <1>5, <1>9, <2>1, <3>1
        <4>. QED
          BY <1>1, <1>2, <1>9, <3>1, <4>1 DEF SyncInv, SyncRetention
      <3>2. CASE p # part
        BY <1>1, <1>5, <1>9, <2>1, <3>2 DEF SyncInv, SyncRetention
      <3>. QED
        BY <3>1, <3>2
    <2>2. syncPhase' # "shards"
      BY <1>1
    <2>. QED
      BY <2>1, <2>2 DEF SyncRetention
  <1>. QED
    BY <1>10, <1>11, <1>12, <1>13, <1>14 DEF SyncInv

LEMMA SyncSaveData ==
  ASSUME SyncInv, Sync!SaveData
  PROVE  SyncInv'
  <1>1. /\ syncPhase = "data" /\ syncPhase' = "open" /\ data' = [data EXCEPT ![jobStep] = jobPos]
        /\ UNCHANGED <<part, jobStep, epoch, jobPos, weights, saved, shards, tracker, jobCrashes>>
    BY DEF Sync!SaveData
  <1>2. jobStep \in Sync!Version /\ PosOf(jobStep, SyncSteps) = jobPos /\ DOMAIN data = Sync!Version
    BY <1>1, SyncSavingStep DEF SyncInv, SyncSaving, SyncTypes
  <1>3. DOMAIN data' = Sync!Version
        /\ \A v \in Sync!Version : data'[v] = IF v = jobStep THEN PosOf(jobStep, SyncSteps)
             ELSE data[v]
    BY <1>1, <1>2
  <1>4. SyncTypes'
    BY <1>1, <1>3 DEF SyncInv, SyncTypes, SyncSaving
  <1>5. SyncPlace'
    BY <1>1 DEF SyncInv, SyncPlace, SyncSaving
  <1>6. SyncDisk' /\ SyncNamed'
    BY <1>1, <1>3 DEF SyncInv, SyncDisk, SyncNamed, SyncWhole
  <1>7. SyncProgress' /\ SyncRetention'
    BY <1>1, <1>2, <1>3
    DEF SyncInv, SyncProgress, SyncRetention, SyncRegistered, SyncOlder, SyncWhole
  <1>. QED
    BY <1>4, <1>5, <1>6, <1>7 DEF SyncInv

LEMMA SyncOpenTracker ==
  ASSUME SyncInv, Sync!OpenTracker
  PROVE  SyncInv'
  <1>1. /\ syncPhase = "open" /\ syncPhase' = "write" /\ tracker' = Sync!Cut
        /\ UNCHANGED <<part, jobStep, epoch, jobPos, weights, saved, shards, data, jobCrashes>>
    BY DEF Sync!OpenTracker
  <1>2. Sync!Cut \notin Sync!Version
    BY SyncConstants DEF Sync!Cut, Sync!Version
  <1>3. SyncTypes'
    BY <1>1 DEF SyncInv, SyncTypes, SyncSaving
  <1>4. SyncPlace' /\ SyncDisk' /\ SyncNamed'
    BY <1>1, <1>2 DEF SyncInv, SyncPlace, SyncSaving, SyncDisk, SyncNamed
  <1>5. SyncProgress'
    BY <1>1 DEF SyncInv, SyncProgress, SyncRegistered, SyncWhole
  <1>6. SyncRetention'
    <2>1. ASSUME NEW p \in Sync!Part, NEW i \in 1..SyncOlder(p)'
          PROVE  saved'[p][i] < jobStep' /\ saved'[p][i] # tracker'
      <3>1. SyncOlder(p)' = SyncOlder(p) /\ SyncRegistered(p)
        BY <1>1 DEF SyncOlder, SyncRegistered
      <3>2. saved[p] \in Seq(Sync!Version) /\ i \in 1..Len(saved[p])
        BY <2>1, <3>1 DEF SyncInv, SyncTypes, SyncOlder
      <3>3. saved[p][i] \in Sync!Version
        BY <3>2
      <3>. QED
        BY <1>1, <1>2, <2>1, <3>1, <3>3 DEF SyncInv, SyncRetention
    <2>. QED
      BY <1>1, <2>1 DEF SyncRetention
  <1>. QED
    BY <1>3, <1>4, <1>5, <1>6 DEF SyncInv

LEMMA SyncWriteTracker ==
  ASSUME SyncInv, Sync!WriteTracker
  PROVE  SyncInv'
  <1>. DEFINE b == SyncSteps * epoch
  <1>1. /\ syncPhase = "write" /\ tracker' = jobStep /\ syncPhase' = Sync!AfterStep(jobStep)
        /\ jobStep' = jobStep + 1
        /\ UNCHANGED <<part, epoch, jobPos, weights, saved, shards, data, jobCrashes>>
    BY DEF Sync!WriteTracker
  <1>2. /\ jobStep \in Sync!Version /\ jobStep = b + jobPos /\ weights = Upto(jobStep) /\ b \in Nat
        /\ epoch < SyncEpochs /\ jobPos \in Nat /\ part = "actor"
    BY <1>1, SyncSavingStep, SyncConstants
    DEF SyncInv, SyncSaving, SyncPlace, SyncTypes, Sync!Part
  <1>3. jobStep \in 1..Sync!Total /\ syncPhase' \in {"train", "done"} /\ (jobStep + 1) - 1 = jobStep
    BY <1>1, <1>2, SyncConstants DEF Sync!AfterStep, Sync!Version
  <1>4. SyncTypes'
    <2>1. jobStep' \in 0..(Sync!Total + 1)
      BY <1>1, <1>3, SyncConstants
    <2>2. tracker' \in {Sync!NoFile, Sync!Cut} \cup Sync!Version
      BY <1>1, <1>2
    <2>. QED
      BY <1>1, <1>2, <1>3, <2>1, <2>2 DEF SyncInv, SyncTypes, SyncSaving
  <1>5. SyncPlace'
    <2>1. jobStep' = b + jobPos' + 1 /\ jobStep' - 1 = jobStep
      BY <1>1, <1>2, <1>3
    <2>2. jobStep \in 0..Sync!Total
      BY <1>3, SyncConstants
    <2>. QED
      BY <1>1, <1>2, <1>3, <2>1, <2>2 DEF SyncPlace, SyncSaving
  <1>6. SyncDisk'
    BY <1>1 DEF SyncInv, SyncDisk
  <1>7. SyncNamed'
    BY <1>1 DEF SyncInv, SyncProgress, SyncRegistered, SyncNamed, SyncWhole
  <1>8. SyncProgress'
    BY <1>1, <1>2, <1>3 DEF SyncProgress, SyncRegistered
  <1>9. SyncRetention'
    <2>1. ASSUME NEW p \in Sync!Part, NEW i \in 1..SyncOlder(p)'
          PROVE  saved'[p][i] < jobStep' /\ (i < SyncOlder(p)' => saved'[p][i] # tracker')
      <3>. DEFINE m == Len(saved[p])
      <3>1. /\ saved[p] \in Seq(Sync!Version) /\ m \in Nat /\ SyncOlder(p)' = m
            /\ SyncOlder(p) = m - 1
            /\ m >= 1 /\ saved[p][m] = jobStep
        BY <1>1, <1>2, <1>3 DEF SyncInv, SyncTypes, SyncOlder, SyncRegistered, SyncProgress
      <3>2. saved[p][i] \in Sync!Version
        BY <2>1, <3>1
      <3>. HIDE DEF m
      <3>3. i \in 1..m
        BY <2>1, <3>1
      <3>4. CASE i = m
        BY <1>1, <1>3, <2>1, <3>1, <3>4
      <3>5. CASE i # m
        <4>1. i \in 1..SyncOlder(p)
          BY <3>1, <3>3, <3>5
        <4>2. saved[p][i] < jobStep
          BY <4>1 DEF SyncInv, SyncRetention
        <4>. QED
          BY <1>1, <1>3, <3>2, <4>2, SyncConstants DEF Sync!Version
      <3>. QED
        BY <3>4, <3>5
    <2>2. syncPhase' # "shards"
      BY <1>3
    <2>. QED
      BY <2>1, <2>2 DEF SyncRetention
  <1>. QED
    BY <1>4, <1>5, <1>6, <1>7, <1>8, <1>9 DEF SyncInv

LEMMA SyncCrash ==
  ASSUME SyncInv, Sync!Crash
  PROVE  SyncInv'
  <1>1. /\ syncPhase' = "down" /\ part' = "actor" /\ jobStep' = 0 /\ epoch' = 0 /\ jobPos' = 0
        /\ saved' = [p \in Sync!Part |-> <<>>] /\ jobCrashes < SyncCrashes
        /\ jobCrashes' = jobCrashes + 1
        /\ UNCHANGED <<shards, data, tracker>>
    BY DEF Sync!Crash, Sync!disk
  <1>2. saved' \in [Sync!Part -> Seq(Sync!Version)]
    BY <1>1
  <1>3. SyncTypes'
    BY <1>1, <1>2, SyncConstants DEF SyncInv, SyncTypes, Sync!Part
  <1>4. SyncPlace' /\ SyncDisk' /\ SyncNamed' /\ SyncProgress' /\ SyncRetention'
    BY <1>1
    DEF SyncInv, SyncPlace, SyncSaving, SyncDisk, SyncNamed, SyncWhole, SyncProgress,
        SyncRetention, SyncRegistered, SyncOlder
  <1>. QED
    BY <1>3, <1>4 DEF SyncInv

LEMMA SyncStutter ==
  ASSUME SyncInv, UNCHANGED Sync!vars
  PROVE  SyncInv'
  BY DEF SyncInv, Sync!vars, Sync!memory, Sync!disk, SyncTypes, SyncSaving, SyncPlace, SyncDisk,
     SyncNamed, SyncWhole, SyncProgress, SyncRetention, SyncRegistered, SyncOlder

LEMMA SyncStep ==
  ASSUME SyncInv, Sync!Next, Keep # 1
  PROVE  SyncInv'
  BY SyncStart, SyncTrainBatch, SyncNextEpoch, SyncCapacity, SyncWriteShard, SyncRegister,
     SyncSaveData, SyncOpenTracker, SyncWriteTracker, SyncCrash
  DEF Sync!Next, Sync!Work

LEMMA SyncTypeOK == SyncInv => Sync!TypeOK
  <1>. SUFFICES ASSUME SyncInv PROVE Sync!TypeOK
    OBVIOUS
  <1>1. syncPhase = "train" => jobStep = Len(weights) + 1
    <2>. SUFFICES ASSUME syncPhase = "train" PROVE jobStep = Len(weights) + 1
      OBVIOUS
    <2>. DEFINE b == SyncSteps * epoch
    <2>1. b \in Nat /\ jobPos \in Nat /\ jobStep = b + jobPos + 1
      BY SyncConstants DEF SyncInv, SyncTypes, SyncPlace
    <2>. HIDE DEF b
    <2>2. jobStep - 1 \in Nat
      BY <2>1
    <2>3. Len(weights) = jobStep - 1
      BY <2>2, UptoFacts DEF SyncInv, SyncPlace
    <2>. QED
      BY <2>1, <2>3
  <1>2. \A v \in Sync!Version : data[v] \in {Sync!NoData} \cup 1..SyncSteps
    BY SyncConstants, Positions DEF SyncInv, SyncDisk, Sync!Version
  <1>3. \A p \in Sync!Part : \A i \in DOMAIN saved[p] : saved[p][i] \in Sync!Version
    BY DEF SyncInv, SyncTypes
  <1>. QED
    BY <1>1, <1>2, <1>3 DEF SyncInv, SyncTypes, SyncSaving, Sync!TypeOK

LEMMA SyncResumable == SyncInv => Sync!Resumable
  <1>. SUFFICES ASSUME SyncInv, tracker \in Sync!Version
                PROVE  \E w \in {shards["actor"][tracker][r] : r \in SyncRank} :
                         /\ w # Sync!NoShard /\ Len(w) = tracker
                         /\ \A p \in Sync!Part, r \in SyncRank : shards[p][tracker][r] = w
                         /\ data[tracker] = ((tracker - 1) % SyncSteps) + 1
    BY DEF Sync!Resumable
  <1>1. /\ \A p \in Sync!Part, r \in SyncRank : shards[p][tracker][r] = Upto(tracker)
        /\ data[tracker] = PosOf(tracker, SyncSteps)
    BY DEF SyncInv, SyncNamed, SyncWhole
  <1>2. PICK r \in SyncRank : TRUE
    BY SyncConstants
  <1>3. Upto(tracker) \in {shards["actor"][tracker][q] : q \in SyncRank}
    BY <1>1, <1>2 DEF Sync!Part
  <1>4. Upto(tracker) # Sync!NoShard /\ Len(Upto(tracker)) = tracker
    <2>1. tracker \in Nat /\ tracker > 0
      BY SyncConstants DEF Sync!Version
    <2>. QED
      BY <2>1, UptoFacts, SyncWritten
  <1>. QED
    BY <1>1, <1>3, <1>4 DEF PosOf

LEMMA SyncEachOnce == SyncInv => Sync!EachBatchOnce
  <1>. SUFFICES ASSUME SyncInv, syncPhase # "down", NEW i \in DOMAIN weights
                PROVE  weights[i] = i - 1
    BY DEF Sync!EachBatchOnce
  <1>1. \E n : weights = Upto(n)
    BY DEF SyncInv, SyncTypes, SyncPlace
  <1>. QED
    BY <1>1 DEF Upto

-----------------------------------------------------------------------------
(* The supervised job, on R ranks: the two numbers that MCRestarts has.    *)

RankCounts == {1, NumRanks}

Passed == {"data", "track", "end"}
SftSaving(R) == \A r \in Sft(R)!Rank : rankPhase[r] \in {"shard", "barrier"} \cup Passed

\* What the ranks can be doing at a time.
SftPace(R) ==
  /\ SftSaving(R) \/ \E s \in {"down", "train", "done"} : Sft(R)!At(s)
  /\ \A r \in Sft(R)!Rank : rankPhase[r] = "track" => r = 0
  /\ \A r, q \in Sft(R)!Rank : rankPhase[r] \in Passed => rankPhase[q] # "shard"

\* Weights that have seen v batches of every rank.
SftWeights(R, v) == {w \in [Sft(R)!Rank -> Seq(Nat)] : \A r \in Sft(R)!Rank : Len(w[r]) = v}

SftTypes(R) ==
  /\ DOMAIN rankPhase = Sft(R)!Rank
  /\ jobStep \in 0..Sft(R)!Total /\ epoch \in 0..Epochs
  /\ jobPos \in [Sft(R)!Rank -> 0..StepsPerEpoch]
  /\ ~Sft(R)!At("down") => weights \in SftWeights(R, jobStep)
  /\ saved \in Seq(Sft(R)!Version)
  /\ DOMAIN shards = Sft(R)!Version /\ \A v \in Sft(R)!Version : DOMAIN shards[v] = Sft(R)!Rank
  /\ DOMAIN data = Sft(R)!Version /\ \A v \in Sft(R)!Version : DOMAIN data[v] = Sft(R)!Rank
  /\ tracker \in {Sft(R)!NoFile} \cup Sft(R)!Version
  /\ jobCrashes \in 0..SftCrashes

\* Whole epochs may have been left out, but no part of one.
SftPlace(R) ==
  /\ Sft(R)!At("train") \/ SftSaving(R) =>
       epoch < Epochs /\ \E e \in 0..epoch : jobStep = StepsPerEpoch * e + jobPos[0]
  /\ ~Sft(R)!At("down") => tracker <= jobStep
  /\ SftSaving(R) => jobPos[0] >= 1 /\ IF rankPhase[0] = "end" THEN tracker = jobStep
       ELSE tracker < jobStep

SftDisk(R) ==
  /\ \A v \in Sft(R)!Version, r \in Sft(R)!Rank : shards[v][r] # Sft(R)!NoShard
       => shards[v][r] \in SftWeights(R, v)
  /\ \A v \in Sft(R)!Version, r \in Sft(R)!Rank :
       data[v][r] \in {Sft(R)!NoData} \cup 0..StepsPerEpoch
  /\ \A v \in Sft(R)!Version : data[v][0] \in {Sft(R)!NoData, PosOf(v, StepsPerEpoch)}

SftWhole(R, v, w) == \A r \in Sft(R)!Rank : shards[v][r] = w

\* What the tracker names is whole, with the position of rank 0.
SftNamed(R) ==
  tracker \in Sft(R)!Version =>
    shards[tracker][0] # Sft(R)!NoShard /\ SftWhole(R, tracker, shards[tracker][0])
        /\ data[tracker][0] # Sft(R)!NoData

SftRegistered(R) == SftSaving(R) /\ rankPhase[0] \in Passed
SftOlder(R) == IF SftRegistered(R) THEN Len(saved) - 1 ELSE Len(saved)

SftProgress(R) ==
  /\ SftSaving(R) => \A r \in Sft(R)!Rank : rankPhase[r] # "shard" => shards[jobStep][r] = weights
  /\ SftRegistered(R) => Len(saved) >= 1 /\ saved[Len(saved)] = jobStep
  /\ SftSaving(R) /\ rankPhase[0] \in {"track", "end"} => data[jobStep][0] = jobPos[0]

SftRetention(R) ==
  /\ \A i \in 1..SftOlder(R) :
       /\ Sft(R)!At("train") => saved[i] <= jobStep
       /\ SftSaving(R) => saved[i] < jobStep
       /\ i < SftOlder(R) => saved[i] # tracker
  /\ SftSaving(R) /\ ~SftRegistered(R) /\ Keep > 1 => Len(saved) <= Keep - 1

SftInv(R) == SftPace(R) /\ SftTypes(R) /\ SftPlace(R) /\ SftDisk(R) /\ SftNamed(R)
    /\ SftProgress(R) /\ SftRetention(R)

LEMMA SftConstants ==
  /\ StepsPerEpoch \in Nat \ {0} /\ Epochs \in Nat \ {0} /\ Keep \in Nat
  /\ SftFreq \in Nat \ {0} /\ SftCrashes \in Nat
  /\ \A e \in Nat : /\ StepsPerEpoch * e \in Nat /\ StepsPerEpoch * e = e * StepsPerEpoch
                    /\ StepsPerEpoch * (e + 1) = StepsPerEpoch * e + StepsPerEpoch
  /\ \A R \in RankCounts :
       /\ 0 \in Sft(R)!Rank /\ Sft(R)!Total \in Nat /\ Sft(R)!Total = StepsPerEpoch * Epochs
       /\ \A e \in Nat : e < Epochs => StepsPerEpoch * e + StepsPerEpoch <= Sft(R)!Total
  <1>1. ASSUME NEW R \in RankCounts PROVE Sft(R)!TrainingAssumption
    BY MCRestartsAssumption DEF RankCounts
  <1>2. 1 \in RankCounts
    BY DEF RankCounts
  <1>3. /\ StepsPerEpoch \in Nat \ {0} /\ Epochs \in Nat \ {0} /\ Keep \in Nat
        /\ SftFreq \in Nat \ {0} /\ SftCrashes \in Nat
    BY <1>1, <1>2 DEF Sft!TrainingAssumption, Sft!KeepAssumption
  <1>4. ASSUME NEW R \in RankCounts PROVE 0 \in Sft(R)!Rank
    BY <1>1 DEF Sft!TrainingAssumption, Sft!Rank
  <1>. QED
    BY <1>3, <1>4, Product DEF Sft!Total

\* The ranks are in one place, or saving.
LEMMA SftPlaces ==
  ASSUME NEW R \in RankCounts
  PROVE
  /\ \A s : Sft(R)!At(s) => rankPhase[0] = s
  /\ SftSaving(R) => ~Sft(R)!At("down") /\ ~Sft(R)!At("train") /\ ~Sft(R)!At("done")
  BY SftConstants DEF Sft!At, SftSaving, Passed

LEMMA SftSavingStep ==
  ASSUME NEW R \in RankCounts, SftTypes(R), SftPlace(R), SftSaving(R)
  PROVE  jobStep \in Sft(R)!Version /\ PosOf(jobStep, StepsPerEpoch) = jobPos[0]
      /\ weights \in SftWeights(R, jobStep)
  <1>1. PICK e \in 0..epoch : jobStep = StepsPerEpoch * e + jobPos[0]
    BY DEF SftPlace
  <1>. DEFINE b == StepsPerEpoch * e
              p == jobPos[0]
  <1>2. e \in Nat /\ b \in Nat /\ p \in 1..StepsPerEpoch
    BY SftConstants DEF SftTypes, SftPlace
  <1>3. PosOf(b + p, StepsPerEpoch) = p
    BY <1>2, SftConstants, Positions
  <1>4. ~Sft(R)!At("down")
    BY SftPlaces
  <1>5. jobStep = b + p
    BY <1>1
  <1>6. jobStep \in 0..Sft(R)!Total
    BY DEF SftTypes
  <1>7. weights \in SftWeights(R, jobStep)
    BY <1>4 DEF SftTypes
  <1>. HIDE DEF b, p
  <1>8. jobStep \in Sft(R)!Version
    BY <1>2, <1>5, <1>6, SftConstants DEF Sft!Version
  <1>9. PosOf(jobStep, StepsPerEpoch) = p
    BY <1>3, <1>5, Zenon
  <1>. QED
    BY <1>7, <1>8, <1>9 DEF p

LEMMA SftNoShard ==
  ASSUME NEW R \in RankCounts
  PROVE  \A v : Sft(R)!NoShard \notin SftWeights(R, v)
  BY SftConstants DEF Sft!NoShard, SftWeights

LEMMA SftInitially ==
  ASSUME NEW R \in RankCounts
  PROVE  Sft(R)!Init => SftInv(R)
  <1>. SUFFICES ASSUME Sft(R)!Init PROVE SftInv(R)
    OBVIOUS
  <1>. USE DEF Sft!Init
  <1>1. Sft(R)!At("down") /\ ~Sft(R)!At("train") /\ ~SftSaving(R) /\ rankPhase[0] = "down"
       /\ \A r \in Sft(R)!Rank : rankPhase[r] = "down"
    BY SftConstants DEF Sft!At, Sft!All, SftSaving, Passed
  <1>2. tracker \notin Sft(R)!Version
    BY SftConstants DEF Sft!NoFile, Sft!Version
  <1>3. SftPace(R)
    BY <1>1 DEF SftPace, Passed
  <1>4. SftTypes(R)
    BY <1>1, SftConstants DEF SftTypes, Sft!All, Sft!NoFile
  <1>5. SftDisk(R)
    BY SftConstants DEF SftDisk, Sft!All
  <1>6. SftPlace(R) /\ SftProgress(R) /\ SftRetention(R)
    BY <1>1 DEF SftPlace, SftProgress, SftRetention, SftRegistered, SftOlder
  <1>. QED
    BY <1>2, <1>3, <1>4, <1>5, <1>6 DEF SftInv, SftNamed

\* What a start finds: what the tracker names, whole, or nothing.
LEMMA SftLatest ==
  ASSUME NEW R \in RankCounts, SftInv(R)
  PROVE  /\ Sft(R)!Latest \in 0..Sft(R)!Total
         /\ Sft(R)!Latest = 0 => tracker = Sft(R)!NoFile
         /\ Sft(R)!Latest # 0 => /\ Sft(R)!Latest = tracker /\ Sft(R)!Latest \in Sft(R)!Version
                                 /\ shards[Sft(R)!Latest][0] \in SftWeights(R, Sft(R)!Latest)
                                 /\ data[Sft(R)!Latest][0] = PosOf(Sft(R)!Latest, StepsPerEpoch)
  <1>1. CASE tracker = Sft(R)!NoFile
    BY <1>1, SftConstants DEF Sft!Latest
  <1>2. CASE tracker # Sft(R)!NoFile
    <2>1. tracker \in Sft(R)!Version
      BY <1>2 DEF SftInv, SftTypes
    <2>2. /\ shards[tracker][0] # Sft(R)!NoShard /\ shards[tracker][0] \in SftWeights(R, tracker)
          /\ data[tracker][0] = PosOf(tracker, StepsPerEpoch)
      BY <2>1, SftConstants DEF SftInv, SftNamed, SftDisk
    <2>3. Sft(R)!Exists(tracker)
      BY <2>2, SftConstants DEF Sft!Exists
    <2>4. Sft(R)!Latest = tracker
      BY <1>2, <2>3 DEF Sft!Latest
    <2>5. tracker \in 0..Sft(R)!Total /\ tracker # 0
      BY <2>1, SftConstants DEF Sft!Version
    <2>. QED
      BY <2>1, <2>2, <2>4, <2>5
  <1>. QED
    BY <1>1, <1>2

\* The ranks are all sent to the same place.
LEMMA SftSent ==
  ASSUME NEW R \in RankCounts, NEW s, rankPhase' = Sft(R)!All(s)
  PROVE  /\ DOMAIN rankPhase' = Sft(R)!Rank /\ \A r \in Sft(R)!Rank : rankPhase'[r] = s
         /\ rankPhase'[0] = s
         /\ Sft(R)!At("train")' <=> s = "train"
         /\ Sft(R)!At("down")' <=> s = "down"
         /\ Sft(R)!At("done")' <=> s = "done"
         /\ SftSaving(R)' <=> s \in {"shard", "barrier"} \cup Passed
         /\ s \in {"down", "train", "done", "shard"} => SftPace(R)'
  <1>1. DOMAIN rankPhase' = Sft(R)!Rank /\ (\A r \in Sft(R)!Rank : rankPhase'[r] = s)
       /\ rankPhase'[0] = s
    BY SftConstants DEF Sft!All
  <1>2. /\ Sft(R)!At("train")' <=> s = "train"
        /\ Sft(R)!At("down")' <=> s = "down"
        /\ Sft(R)!At("done")' <=> s = "done"
        /\ SftSaving(R)' <=> s \in {"shard", "barrier"} \cup Passed
    BY <1>1, SftConstants DEF Sft!At, SftSaving
  <1>3. ASSUME s \in {"down", "train", "done", "shard"} PROVE SftPace(R)'
    BY <1>1, <1>2, <1>3 DEF SftPace, Passed
  <1>. QED
    BY <1>1, <1>2, <1>3

LEMMA SftStart ==
  ASSUME NEW R \in RankCounts, SftInv(R), Sft(R)!Start
  PROVE  SftInv(R)'
  <1>. DEFINE v == Sft(R)!Latest
              q == v \div StepsPerEpoch
              to == IF q < Epochs THEN "train" ELSE "done"
  <1>1. /\ weights' = IF v = 0 THEN Sft(R)!All(<<>>) ELSE shards[v][0]
        /\ jobStep' = v /\ epoch' = q /\ jobPos' = [r \in Sft(R)!Rank |-> Sft(R)!Position(v, r)]
        /\ rankPhase' = Sft(R)!All(to) /\ saved' = <<>>
        /\ UNCHANGED <<shards, data, tracker, jobCrashes>>
    BY DEF Sft!Start, Sft!FirstStep, Sft!disk
  <1>2. /\ v \in 0..Sft(R)!Total /\ v \in Nat
        /\ v = 0 => tracker = Sft(R)!NoFile
        /\ v # 0 => /\ v = tracker /\ v \in Sft(R)!Version /\ shards[v][0] \in SftWeights(R, v)
                    /\ data[v][0] = PosOf(v, StepsPerEpoch)
    BY SftLatest, SftConstants
  <1>3. /\ DOMAIN rankPhase' = Sft(R)!Rank /\ SftPace(R)' /\ ~Sft(R)!At("down")' /\ ~SftSaving(R)'
        /\ rankPhase'[0] # "end"
        /\ Sft(R)!At("train")' => q < Epochs
    <2>1. to \in {"train", "done"} /\ (to = "train" => q < Epochs)
      OBVIOUS
    <2>. HIDE DEF to
    <2>. QED
      BY <1>1, <2>1, SftSent DEF Passed
  <1>4. weights' \in SftWeights(R, v)
    <2>1. CASE v = 0
      BY <1>1, <2>1 DEF Sft!All, SftWeights
    <2>2. CASE v # 0
      BY <1>1, <1>2, <2>2
    <2>. QED
      BY <2>1, <2>2
  <1>5. jobPos' \in [Sft(R)!Rank -> 0..StepsPerEpoch]
    <2>1. ASSUME NEW r \in Sft(R)!Rank PROVE Sft(R)!Position(v, r) \in 0..StepsPerEpoch
      <3>1. CASE v = 0 \/ data[v][r] = Sft(R)!NoData
        BY <3>1, SftConstants DEF Sft!Position
      <3>2. CASE v # 0 /\ data[v][r] # Sft(R)!NoData
        <4>1. data[v][r] \in {Sft(R)!NoData} \cup 0..StepsPerEpoch
          BY <1>2, <2>1, <3>2 DEF SftInv, SftDisk
        <4>. QED
          BY <3>2, <4>1 DEF Sft!Position
      <3>. QED
        BY <3>1, <3>2
    <2>. QED
      BY <1>1, <2>1
  <1>6. q \in 0..Epochs /\ \E e \in 0..q : v = StepsPerEpoch * e + jobPos'[0]
    <2>1. CASE v = 0
      <3>1. \A S \in Nat \ {0} : 0 \div S = 0 /\ S * 0 = 0
        OBVIOUS
      <3>2. q = 0 /\ StepsPerEpoch * 0 = 0
        BY <2>1, <3>1, SftConstants
      <3>3. jobPos'[0] = 0
        BY <1>1, <2>1, SftConstants DEF Sft!Position
      <3>. QED
        BY <2>1, <3>2, <3>3, SftConstants
    <2>2. CASE v # 0
      <3>1. v \in 1..(StepsPerEpoch * Epochs)
        BY <1>2, <2>2, SftConstants
      <3>2. q \in 0..Epochs
        BY <3>1, SftConstants, Positions
      <3>3. PosOf(v, StepsPerEpoch) \in 1..StepsPerEpoch
            /\ \E e \in 0..q : v = StepsPerEpoch * e + PosOf(v, StepsPerEpoch)
        BY <1>2, <2>2, SftConstants, EpochOf
      <3>4. jobPos'[0] = PosOf(v, StepsPerEpoch)
        <4>1. jobPos'[0] = Sft(R)!Position(v, 0)
          BY <1>1, SftConstants
        <4>2. data[v][0] = PosOf(v, StepsPerEpoch)
          BY <1>2, <2>2
        <4>3. PosOf(v, StepsPerEpoch) # Sft(R)!NoData
          BY <3>3 DEF Sft!NoData
        <4>. QED
          BY <2>2, <4>1, <4>2, <4>3, Zenon DEF Sft!Position
      <3>. QED
        BY <3>2, <3>3, <3>4
    <2>. QED
      BY <2>1, <2>2
  <1>. HIDE DEF v, q, to
  <1>7. SftTypes(R)'
    BY <1>1, <1>2, <1>3, <1>4, <1>5, <1>6 DEF SftInv, SftTypes, SftWeights
  <1>8. SftPlace(R)'
    <2>1. tracker <= v
      <3>1. CASE v = 0
        BY <1>2, <3>1 DEF Sft!NoFile
      <3>2. CASE v # 0
        BY <1>2, <3>2
      <3>. QED
        BY <3>1, <3>2
    <2>. QED
      BY <1>1, <1>3, <1>6, <2>1 DEF SftPlace
  <1>9. SftDisk(R)' /\ SftNamed(R)'
    BY <1>1 DEF SftInv, SftDisk, SftNamed, SftWhole, SftWeights
  <1>10. SftProgress(R)' /\ SftRetention(R)'
    BY <1>1, <1>3 DEF SftProgress, SftRetention, SftRegistered, SftOlder
  <1>. QED
    BY <1>3, <1>7, <1>8, <1>9, <1>10 DEF SftInv

\* What a removal leaves alone, and that it removes whole directories.
LEMMA SftRemoved ==
  ASSUME NEW R \in RankCounts, SftInv(R), NEW gone,
         shards' = [v \in Sft(R)!Version |-> IF v \in gone THEN Sft(R)!All(Sft(R)!NoShard)
             ELSE shards[v]],
         data' = [v \in Sft(R)!Version |-> IF v \in gone THEN Sft(R)!All(Sft(R)!NoData)
             ELSE data[v]]
  PROVE  /\ DOMAIN shards' = Sft(R)!Version
         /\ \A v \in Sft(R)!Version : DOMAIN shards'[v] = Sft(R)!Rank
         /\ DOMAIN data' = Sft(R)!Version /\ \A v \in Sft(R)!Version : DOMAIN data'[v] = Sft(R)!Rank
         /\ \A v \in Sft(R)!Version : v \notin gone => shards'[v] = shards[v] /\ data'[v] = data[v]
         /\ \A v \in Sft(R)!Version, r \in Sft(R)!Rank :
           /\ shards'[v][r] \in {Sft(R)!NoShard, shards[v][r]}
           /\ data'[v][r] \in {Sft(R)!NoData, data[v][r]}
         /\ SftDisk(R)'
  <1>1. /\ DOMAIN shards' = Sft(R)!Version
        /\ \A v \in Sft(R)!Version : DOMAIN shards'[v] = Sft(R)!Rank
        /\ DOMAIN data' = Sft(R)!Version /\ \A v \in Sft(R)!Version : DOMAIN data'[v] = Sft(R)!Rank
        /\ \A v \in Sft(R)!Version : v \notin gone => shards'[v] = shards[v] /\ data'[v] = data[v]
        /\ \A v \in Sft(R)!Version, r \in Sft(R)!Rank :
           /\ shards'[v][r] \in {Sft(R)!NoShard, shards[v][r]}
           /\ data'[v][r] \in {Sft(R)!NoData, data[v][r]}
    BY DEF SftInv, SftTypes, Sft!All
  <1>2. SftDisk(R)'
    BY <1>1, SftConstants DEF SftInv, SftDisk, SftWeights
  <1>. QED
    BY <1>1, <1>2

\* What the room for a save leaves of the checkpoints that rank 0 remembers.
LEMMA SftRoom ==
  ASSUME NEW R \in RankCounts, NEW s \in Seq(Sft(R)!Version), NEW n, n = Sft(R)!OverCapacity(s)
  PROVE  /\ n \in 0..Len(s) /\ (n > 0 => n < Len(s))
         /\ Keep > 1 => Len(s) - n <= Keep - 1
         /\ Sft(R)!Without(s, n) \in Seq(Sft(R)!Version) /\ Len(Sft(R)!Without(s, n)) = Len(s) - n
         /\ \A i \in 1..(Len(s) - n) : Sft(R)!Without(s, n)[i] = s[i + n]
  <1>. DEFINE L == Len(s)
  <1>1. L \in Nat
    OBVIOUS
  <1>2. n \in 0..L /\ (n > 0 => n < L) /\ (Keep > 1 => L - n <= Keep - 1)
    <2>1. n = IF Keep > 1 /\ L >= Keep THEN L - Keep + 1 ELSE 0
      BY DEF Sft!OverCapacity
    <2>. HIDE DEF L
    <2>. QED
      BY <1>1, <2>1, SftConstants
  <1>3. /\ Sft(R)!Without(s, n) \in Seq(Sft(R)!Version) /\ Len(Sft(R)!Without(s, n)) = L - n
        /\ \A i \in 1..(L - n) : Sft(R)!Without(s, n)[i] = s[i + n]
    BY <1>2, Remaining DEF Sft!Without
  <1>. QED
    BY <1>2, <1>3

\* The step that a batch begins.
LEMMA SftBatch ==
  ASSUME NEW R \in RankCounts, SftInv(R), Sft(R)!TrainBatch
  PROVE  /\ jobStep' = jobStep + 1 /\ jobStep' \in Sft(R)!Version
         /\ jobPos' \in [Sft(R)!Rank -> 1..StepsPerEpoch]
         /\ jobPos'[0] = jobPos[0] + 1 /\ jobPos[0] \in Nat /\ jobPos[0] < StepsPerEpoch
         /\ epoch < Epochs /\ tracker < jobStep'
         /\ \E e \in 0..epoch : jobStep' = StepsPerEpoch * e + jobPos'[0]
         /\ weights' \in SftWeights(R, jobStep')
  <1>1. /\ Sft(R)!At("train") /\ \A r \in Sft(R)!Rank : jobPos[r] < StepsPerEpoch
        /\ weights' = [r \in Sft(R)!Rank |-> Append(weights[r], epoch * StepsPerEpoch + jobPos[r])]
        /\ jobPos' = [r \in Sft(R)!Rank |-> jobPos[r] + 1] /\ jobStep' = jobStep + 1
    BY DEF Sft!TrainBatch
  <1>2. ~Sft(R)!At("down")
    BY <1>1, SftPlaces
  <1>3. /\ epoch < Epochs /\ tracker <= jobStep /\ weights \in SftWeights(R, jobStep)
        /\ jobStep \in Nat
        /\ epoch \in Nat /\ epoch * StepsPerEpoch \in Nat /\ tracker \in Int
    <2>1. /\ epoch < Epochs /\ tracker <= jobStep /\ weights \in SftWeights(R, jobStep)
          /\ jobStep \in Nat /\ epoch \in Nat
      BY <1>1, <1>2 DEF SftInv, SftTypes, SftPlace
    <2>2. tracker \in Int
      BY DEF SftInv, SftTypes, Sft!NoFile, Sft!Version
    <2>3. StepsPerEpoch * epoch \in Nat /\ StepsPerEpoch * epoch = epoch * StepsPerEpoch
      BY <2>1, SftConstants
    <2>. QED
      BY <2>1, <2>2, <2>3
  <1>4. PICK e \in 0..epoch : jobStep = StepsPerEpoch * e + jobPos[0]
    BY <1>1 DEF SftInv, SftPlace
  <1>5. \A r \in Sft(R)!Rank : jobPos[r] \in 0..StepsPerEpoch /\ jobPos[r] + 1 \in 1..StepsPerEpoch
    <2>1. \A r \in Sft(R)!Rank : jobPos[r] \in 0..StepsPerEpoch /\ jobPos[r] < StepsPerEpoch
      BY <1>1 DEF SftInv, SftTypes
    <2>2. StepsPerEpoch \in Nat
      BY SftConstants
    <2>. QED
      BY <2>1, <2>2
  <1>6. jobPos' \in [Sft(R)!Rank -> 1..StepsPerEpoch] /\ jobPos'[0] = jobPos[0] + 1
    BY <1>1, <1>5, SftConstants
  <1>7. jobStep' = StepsPerEpoch * e + jobPos'[0] /\ jobStep' \in Sft(R)!Version
    <2>. DEFINE b == StepsPerEpoch * e
                p == jobPos[0]
    <2>1. /\ b \in Nat /\ b + StepsPerEpoch <= Sft(R)!Total /\ p \in Nat /\ p < StepsPerEpoch
          /\ Sft(R)!Total \in Nat /\ StepsPerEpoch \in Nat
      <3>1. 0 \in Sft(R)!Rank /\ e \in Nat /\ e < Epochs
        BY <1>3, SftConstants
      <3>2. jobPos[0] \in Nat /\ jobPos[0] < StepsPerEpoch
        BY <1>1, <1>5, <3>1
      <3>. QED
        BY <3>1, <3>2, SftConstants
    <2>2. jobStep = b + p /\ jobPos'[0] = p + 1
      BY <1>4, <1>6
    <2>. HIDE DEF b, p
    <2>3. jobStep' = b + p + 1
      BY <1>1, <2>2
    <2>4. jobStep' = b + jobPos'[0] /\ jobStep' \in 1..Sft(R)!Total
      BY <2>1, <2>2, <2>3
    <2>. QED
      BY <2>4 DEF b, Sft!Version
  <1>8. weights' \in SftWeights(R, jobStep')
    <2>1. ASSUME NEW r \in Sft(R)!Rank
          PROVE  /\ Append(weights[r], epoch * StepsPerEpoch + jobPos[r]) \in Seq(Nat)
                 /\ Len(Append(weights[r], epoch * StepsPerEpoch + jobPos[r])) = jobStep + 1
      <3>1. weights[r] \in Seq(Nat) /\ Len(weights[r]) = jobStep
        BY <1>3 DEF SftWeights
      <3>2. epoch * StepsPerEpoch + jobPos[r] \in Nat
        BY <1>3, <1>5
      <3>. QED
        BY <3>1, <3>2, AppendProperties
    <2>. QED
      BY <1>1, <2>1 DEF SftWeights
  <1>9. jobPos[0] \in Nat /\ jobPos[0] < StepsPerEpoch
    BY <1>1, <1>5, SftConstants
  <1>10. tracker < jobStep'
    BY <1>1, <1>3
  <1>. QED
    BY <1>1, <1>3, <1>6, <1>7, <1>8, <1>9, <1>10

LEMMA SftTrainOn ==
  ASSUME NEW R \in RankCounts, SftInv(R), Sft(R)!TrainBatch, ~Sft(R)!ToSave(jobStep')
  PROVE  SftInv(R)'
  <1>1. /\ Sft(R)!At("train") /\ rankPhase' = Sft(R)!All(Sft(R)!AfterStep(jobStep'))
        /\ UNCHANGED <<epoch, saved, shards, data, tracker, jobCrashes>>
    BY DEF Sft!TrainBatch
  <1>2. /\ jobStep' = jobStep + 1 /\ jobStep' \in Sft(R)!Version
        /\ jobPos' \in [Sft(R)!Rank -> 1..StepsPerEpoch]
        /\ epoch < Epochs /\ tracker < jobStep'
        /\ \E e \in 0..epoch : jobStep' = StepsPerEpoch * e + jobPos'[0]
        /\ weights' \in SftWeights(R, jobStep')
    BY SftBatch
  <1>3. Sft(R)!AfterStep(jobStep') \in {"train", "done"}
    BY DEF Sft!AfterStep
  <1>4. DOMAIN rankPhase' = Sft(R)!Rank /\ SftPace(R)' /\ ~Sft(R)!At("down")' /\ ~SftSaving(R)'
    BY <1>1, <1>3, SftSent DEF Passed
  <1>5. ~SftSaving(R) /\ ~SftRegistered(R) /\ ~SftRegistered(R)' /\ SftOlder(R) = Len(saved)
       /\ SftOlder(R)' = Len(saved)
    BY <1>1, <1>4, SftPlaces DEF SftRegistered, SftOlder
  <1>6. tracker' <= jobStep'
    <2>1. tracker \in Int /\ jobStep' \in Int
      BY <1>2 DEF SftInv, SftTypes, Sft!NoFile, Sft!Version
    <2>. QED
      BY <1>1, <1>2, <2>1
  <1>7. SftTypes(R)'
    <2>1. jobStep' \in 0..Sft(R)!Total
      BY <1>2, SftConstants DEF Sft!Version
    <2>2. jobPos' \in [Sft(R)!Rank -> 0..StepsPerEpoch]
      BY <1>2, SftConstants
    <2>. QED
      BY <1>1, <1>2, <1>4, <2>1, <2>2 DEF SftInv, SftTypes, SftWeights
  <1>8. SftPlace(R)'
    BY <1>1, <1>2, <1>4, <1>6 DEF SftPlace
  <1>9. SftDisk(R)' /\ SftNamed(R)'
    BY <1>1 DEF SftInv, SftDisk, SftNamed, SftWhole, SftWeights
  <1>10. SftProgress(R)'
    BY <1>4, <1>5 DEF SftProgress
  <1>11. SftRetention(R)'
    <2>1. ASSUME NEW i \in 1..Len(saved)
          PROVE  saved[i] <= jobStep' /\ (i < Len(saved) => saved[i] # tracker)
      <3>1. saved[i] <= jobStep /\ (i < Len(saved) => saved[i] # tracker)
        BY <1>1, <1>5 DEF SftInv, SftRetention
      <3>2. saved[i] \in Int /\ jobStep \in Int
        <4>1. saved \in Seq(Sft(R)!Version) /\ jobStep \in 0..Sft(R)!Total
          BY DEF SftInv, SftTypes
        <4>2. saved[i] \in Sft(R)!Version
          BY <2>1, <4>1
        <4>. QED
          BY <4>1, <4>2 DEF Sft!Version
      <3>. QED
        BY <1>2, <3>1, <3>2
    <2>. QED
      BY <1>1, <1>4, <1>5, <2>1 DEF SftRetention
  <1>. QED
    BY <1>4, <1>7, <1>8, <1>9, <1>10, <1>11 DEF SftInv

LEMMA SftTrainSave ==
  ASSUME NEW R \in RankCounts, SftInv(R), Sft(R)!TrainBatch, Sft(R)!ToSave(jobStep')
  PROVE  SftInv(R)'
  <1>. DEFINE n == Sft(R)!OverCapacity(saved)
              L == Len(saved)
              gone == Sft(R)!Oldest(saved, n)
  <1>1. /\ Sft(R)!At("train") /\ rankPhase' = Sft(R)!All("shard")
        /\ saved' = Sft(R)!Without(saved, n)
        /\ shards'
             = [v \in Sft(R)!Version |-> IF v \in gone THEN Sft(R)!All(Sft(R)!NoShard)
                 ELSE shards[v]]
        /\ data' = [v \in Sft(R)!Version |-> IF v \in gone THEN Sft(R)!All(Sft(R)!NoData)
             ELSE data[v]]
        /\ UNCHANGED <<epoch, tracker, jobCrashes>>
    BY DEF Sft!TrainBatch
  <1>2. /\ jobStep' = jobStep + 1 /\ jobStep' \in Sft(R)!Version
        /\ jobPos' \in [Sft(R)!Rank -> 1..StepsPerEpoch]
        /\ epoch < Epochs /\ tracker < jobStep'
        /\ \E e \in 0..epoch : jobStep' = StepsPerEpoch * e + jobPos'[0]
        /\ weights' \in SftWeights(R, jobStep')
    BY SftBatch
  <1>3. /\ DOMAIN rankPhase' = Sft(R)!Rank /\ SftPace(R)' /\ ~Sft(R)!At("down")'
        /\ ~Sft(R)!At("train")' /\ SftSaving(R)' /\ rankPhase'[0] = "shard"
        /\ \A r \in Sft(R)!Rank : rankPhase'[r] = "shard"
    BY <1>1, SftSent
  <1>4. ~SftSaving(R) /\ ~SftRegistered(R) /\ ~SftRegistered(R)' /\ SftOlder(R) = L
       /\ SftOlder(R)' = Len(saved')
    BY <1>1, <1>3, SftPlaces DEF SftRegistered, SftOlder, Passed
  <1>5. saved \in Seq(Sft(R)!Version) /\ L \in Nat
    BY DEF SftInv, SftTypes
  <1>6. /\ n \in 0..L /\ (n > 0 => n < L) /\ (Keep > 1 => L - n <= Keep - 1)
        /\ saved' \in Seq(Sft(R)!Version) /\ Len(saved') = L - n
        /\ \A i \in 1..(L - n) : saved'[i] = saved[i + n]
    BY <1>1, <1>5, SftRoom
  <1>7. tracker \notin gone
    <2>1. ASSUME NEW i \in 1..n PROVE saved[i] # tracker
      <3>1. i \in 1..L /\ i < L
        BY <1>5, <1>6
      <3>. QED
        BY <1>4, <3>1 DEF SftInv, SftRetention
    <2>. QED
      BY <2>1 DEF Sft!Oldest
  <1>. HIDE DEF n, L, gone
  <1>8. /\ DOMAIN shards' = Sft(R)!Version
        /\ \A v \in Sft(R)!Version : DOMAIN shards'[v] = Sft(R)!Rank
        /\ DOMAIN data' = Sft(R)!Version /\ \A v \in Sft(R)!Version : DOMAIN data'[v] = Sft(R)!Rank
        /\ \A v \in Sft(R)!Version : v \notin gone => shards'[v] = shards[v] /\ data'[v] = data[v]
        /\ SftDisk(R)'
    BY <1>1, SftRemoved
  <1>9. SftTypes(R)'
    <2>1. jobStep' \in 0..Sft(R)!Total
      BY <1>2, SftConstants DEF Sft!Version
    <2>2. jobPos' \in [Sft(R)!Rank -> 0..StepsPerEpoch]
      BY <1>2, SftConstants
    <2>. QED
      BY <1>1, <1>2, <1>3, <1>6, <1>8, <2>1, <2>2 DEF SftInv, SftTypes, SftWeights
  <1>10. SftPlace(R)'
    <2>1. tracker' <= jobStep' /\ jobPos'[0] >= 1
      <3>1. tracker \in Int /\ jobStep' \in Int
        BY <1>2 DEF SftInv, SftTypes, Sft!NoFile, Sft!Version
      <3>2. jobPos'[0] \in 1..StepsPerEpoch
        BY <1>2, SftConstants
      <3>. QED
        BY <1>1, <1>2, <3>1, <3>2
    <2>. QED
      BY <1>1, <1>2, <1>3, <2>1 DEF SftPlace
  <1>11. SftNamed(R)'
    BY <1>1, <1>7, <1>8 DEF SftInv, SftNamed, SftWhole
  <1>12. SftProgress(R)'
    BY <1>3, <1>4 DEF SftProgress
  <1>13. SftRetention(R)'
    <2>1. ASSUME NEW i \in 1..Len(saved')
          PROVE  saved'[i] < jobStep' /\ (i < Len(saved') => saved'[i] # tracker)
      <3>1. i \in 1..(L - n) /\ i + n \in 1..L /\ (i < L - n => i + n < L)
        BY <1>5, <1>6, <2>1
      <3>2. saved'[i] = saved[i + n]
        BY <1>6, <3>1
      <3>3. saved[i + n] <= jobStep /\ (i + n < L => saved[i + n] # tracker)
        BY <1>1, <1>4, <3>1 DEF SftInv, SftRetention
      <3>4. saved[i + n] \in Int /\ jobStep \in Int
        <4>1. saved \in Seq(Sft(R)!Version) /\ jobStep \in 0..Sft(R)!Total
          BY DEF SftInv, SftTypes
        <4>2. saved[i + n] \in Sft(R)!Version
          BY <3>1, <4>1 DEF L
        <4>. QED
          BY <4>1, <4>2 DEF Sft!Version
      <3>. QED
        BY <1>2, <1>6, <3>1, <3>2, <3>3, <3>4
    <2>2. Keep > 1 => Len(saved') <= Keep - 1
      BY <1>6
    <2>. QED
      BY <1>1, <1>3, <1>4, <2>1, <2>2 DEF SftRetention
  <1>. QED
    BY <1>3, <1>8, <1>9, <1>10, <1>11, <1>12, <1>13 DEF SftInv

LEMMA SftNextEpoch ==
  ASSUME NEW R \in RankCounts, SftInv(R), Sft(R)!NextEpoch
  PROVE  SftInv(R)'
  <1>. DEFINE to == IF epoch + 1 < Epochs THEN "train" ELSE "done"
  <1>1. /\ Sft(R)!At("train") /\ (\A r \in Sft(R)!Rank : jobPos[r] = StepsPerEpoch)
             /\ epoch' = epoch + 1
        /\ jobPos' = Sft(R)!All(0) /\ rankPhase' = Sft(R)!All(to)
        /\ UNCHANGED <<jobStep, weights, saved, shards, data, tracker, jobCrashes>>
    BY DEF Sft!NextEpoch, Sft!disk
  <1>2. /\ DOMAIN rankPhase' = Sft(R)!Rank /\ SftPace(R)' /\ ~Sft(R)!At("down")' /\ ~SftSaving(R)'
        /\ Sft(R)!At("train")' => epoch' < Epochs
    <2>1. to \in {"train", "done"} /\ (to = "train" => epoch + 1 < Epochs)
      OBVIOUS
    <2>. HIDE DEF to
    <2>. QED
      BY <1>1, <2>1, SftSent DEF Passed
  <1>3. ~Sft(R)!At("down") /\ ~SftSaving(R)
    BY <1>1, SftPlaces
  <1>4. epoch < Epochs /\ epoch \in Nat /\ tracker <= jobStep
    BY <1>1, <1>3, SftConstants DEF SftInv, SftTypes, SftPlace
  <1>5. PICK e \in 0..epoch : jobStep = StepsPerEpoch * e + jobPos[0]
    BY <1>1 DEF SftInv, SftPlace
  <1>6. jobPos' \in [Sft(R)!Rank -> 0..StepsPerEpoch] /\ jobPos'[0] = 0
    BY <1>1, SftConstants DEF Sft!All
  <1>7. \E d \in 0..epoch' : jobStep = StepsPerEpoch * d + jobPos'[0]
    <2>. DEFINE b == StepsPerEpoch * e
                b1 == StepsPerEpoch * (e + 1)
    <2>1. e + 1 \in 0..epoch' /\ b1 = b + StepsPerEpoch /\ b \in Nat
      BY <1>1, <1>4, SftConstants
    <2>2. jobStep = b + StepsPerEpoch
      BY <1>1, <1>5, SftConstants
    <2>3. jobStep = b1 + jobPos'[0]
      BY <1>6, <2>1, <2>2, SftConstants
    <2>. QED
      BY <2>1, <2>3
  <1>8. SftTypes(R)'
    <2>1. epoch' \in 0..Epochs
      BY <1>1, <1>4, SftConstants
    <2>. QED
      BY <1>1, <1>2, <1>3, <1>6, <2>1 DEF SftInv, SftTypes, SftWeights
  <1>9. SftPlace(R)'
    BY <1>1, <1>2, <1>4, <1>7 DEF SftPlace
  <1>10. SftDisk(R)' /\ SftNamed(R)'
    BY <1>1 DEF SftInv, SftDisk, SftNamed, SftWhole, SftWeights
  <1>11. SftProgress(R)' /\ SftRetention(R)'
    BY <1>1, <1>2, <1>3 DEF SftInv, SftProgress, SftRetention, SftRegistered, SftOlder
  <1>. QED
    BY <1>2, <1>8, <1>9, <1>10, <1>11 DEF SftInv

\* One rank goes on with a save.
LEMMA SftMoved ==
  ASSUME NEW R \in RankCounts, SftInv(R), NEW r \in Sft(R)!Rank,
      rankPhase[r] \in {"shard", "barrier"} \cup Passed,
         NEW s \in {"barrier"} \cup Passed, rankPhase' = [rankPhase EXCEPT ![r] = s],
         s = "track" => r = 0,
         s \in Passed => \A q \in Sft(R)!Rank : rankPhase[q] # "shard"
  PROVE  /\ DOMAIN rankPhase' = Sft(R)!Rank
         /\ \A q \in Sft(R)!Rank : rankPhase'[q] = IF q = r THEN s ELSE rankPhase[q]
         /\ SftSaving(R) /\ SftSaving(R)' /\ SftPace(R)'
         /\ ~Sft(R)!At("down") /\ ~Sft(R)!At("train") /\ ~Sft(R)!At("down")' /\ ~Sft(R)!At("train")'
  <1>1. /\ DOMAIN rankPhase' = Sft(R)!Rank
        /\ \A q \in Sft(R)!Rank : rankPhase'[q] = IF q = r THEN s ELSE rankPhase[q]
    BY DEF SftInv, SftTypes
  <1>2. SftSaving(R)
    BY DEF SftInv, SftPace, Sft!At, Passed
  <1>3. SftSaving(R)'
    BY <1>1, <1>2 DEF SftSaving, Passed
  <1>4. SftPace(R)'
    BY <1>1, <1>3 DEF SftInv, SftPace, Passed
  <1>5. ~Sft(R)!At("down") /\ ~Sft(R)!At("train")
    BY <1>2, SftPlaces
  <1>6. ~Sft(R)!At("down")' /\ ~Sft(R)!At("train")'
    BY <1>3, SftConstants DEF Sft!At, SftSaving, Passed
  <1>. QED
    BY <1>1, <1>2, <1>3, <1>4, <1>5, <1>6

LEMMA SftWriteShard ==
  ASSUME NEW R \in RankCounts, SftInv(R), NEW r \in Sft(R)!Rank, Sft(R)!WriteShard(r)
  PROVE  SftInv(R)'
  <1>1. /\ rankPhase[r] = "shard" /\ shards' = [shards EXCEPT ![jobStep][r] = weights]
        /\ rankPhase' = [rankPhase EXCEPT ![r] = "barrier"]
        /\ UNCHANGED <<jobStep, epoch, jobPos, weights, saved, data, tracker, jobCrashes>>
    BY DEF Sft!WriteShard
  <1>2. /\ DOMAIN rankPhase' = Sft(R)!Rank
        /\ \A q \in Sft(R)!Rank : rankPhase'[q] = IF q = r THEN "barrier" ELSE rankPhase[q]
        /\ SftSaving(R) /\ SftSaving(R)' /\ SftPace(R)'
        /\ ~Sft(R)!At("down") /\ ~Sft(R)!At("train") /\ ~Sft(R)!At("down")' /\ ~Sft(R)!At("train")'
    BY <1>1, SftMoved DEF Passed
  <1>3. jobStep \in Sft(R)!Version /\ weights \in SftWeights(R, jobStep)
    BY <1>2, SftSavingStep DEF SftInv
  <1>4. rankPhase[0] \notin Passed
    BY <1>1, SftConstants DEF SftInv, SftPace
  <1>5. tracker < jobStep
    BY <1>2, <1>4 DEF SftInv, SftPlace, Passed
  <1>6. /\ DOMAIN shards' = Sft(R)!Version
        /\ \A v \in Sft(R)!Version : DOMAIN shards'[v] = Sft(R)!Rank
        /\ \A v \in Sft(R)!Version, q \in Sft(R)!Rank :
             shards'[v][q] = IF v = jobStep /\ q = r THEN weights ELSE shards[v][q]
    BY <1>1, <1>3 DEF SftInv, SftTypes
  <1>7. ~SftRegistered(R) /\ ~SftRegistered(R)' /\ SftOlder(R)' = SftOlder(R)
       /\ rankPhase'[0] # "end" /\ rankPhase[0] # "end"
        /\ rankPhase'[0] # "track"
    BY <1>1, <1>2, <1>4, SftConstants DEF SftRegistered, SftOlder, Passed
  <1>8. SftTypes(R)'
    BY <1>1, <1>2, <1>6 DEF SftInv, SftTypes, SftWeights
  <1>9. SftPlace(R)'
    BY <1>1, <1>2, <1>7 DEF SftInv, SftPlace
  <1>10. SftDisk(R)'
    BY <1>1, <1>3, <1>6 DEF SftInv, SftDisk, SftWeights
  <1>11. SftNamed(R)'
    <2>1. tracker # jobStep
      BY <1>3, <1>5, SftConstants DEF Sft!Version
    <2>. QED
      BY <1>1, <1>6, <2>1, SftConstants DEF SftInv, SftNamed, SftWhole
  <1>12. SftProgress(R)'
    BY <1>1, <1>2, <1>3, <1>6, <1>7 DEF SftInv, SftProgress
  <1>13. SftRetention(R)'
    BY <1>1, <1>2, <1>7 DEF SftInv, SftRetention
  <1>. QED
    BY <1>2, <1>8, <1>9, <1>10, <1>11, <1>12, <1>13 DEF SftInv

\* With more than one checkpoint to keep, or all, rank 0 removes nothing behind the barrier: it made
\* room before the save.
LEMMA SftRegister ==
  ASSUME NEW R \in RankCounts, SftInv(R), Sft(R)!PassBarrier(0), Keep # 1
  PROVE  SftInv(R)'
  <1>. DEFINE L == Len(saved)
              all == Append(saved, jobStep)
              n == Sft(R)!OverLimit(all)
  <1>1. /\ rankPhase[0] = "barrier" /\ Sft(R)!Written /\ saved' = Sft(R)!Without(all, n)
        /\ shards'
             = [v \in Sft(R)!Version |-> IF v \in Sft(R)!Oldest(all, n)
                 THEN Sft(R)!All(Sft(R)!NoShard) ELSE shards[v]]
        /\ data' = [v \in Sft(R)!Version |-> IF v \in Sft(R)!Oldest(all, n)
             THEN Sft(R)!All(Sft(R)!NoData) ELSE data[v]]
        /\ rankPhase' = [rankPhase EXCEPT ![0] = "data"]
        /\ UNCHANGED <<jobStep, epoch, jobPos, weights, tracker, jobCrashes>>
    BY DEF Sft!PassBarrier
  <1>2. /\ DOMAIN rankPhase' = Sft(R)!Rank
        /\ \A q \in Sft(R)!Rank : rankPhase'[q] = IF q = 0 THEN "data" ELSE rankPhase[q]
        /\ SftSaving(R) /\ SftSaving(R)' /\ SftPace(R)'
        /\ ~Sft(R)!At("down") /\ ~Sft(R)!At("train") /\ ~Sft(R)!At("down")' /\ ~Sft(R)!At("train")'
    BY <1>1, SftMoved, SftConstants DEF Passed, Sft!Written
  <1>3. jobStep \in Sft(R)!Version /\ weights \in SftWeights(R, jobStep)
       /\ saved \in Seq(Sft(R)!Version) /\ L \in Nat
    BY <1>2, SftSavingStep DEF SftInv, SftTypes
  <1>4. /\ all \in Seq(Sft(R)!Version) /\ Len(all) = L + 1 /\ all[L + 1] = jobStep
        /\ \A i \in 1..L : all[i] = saved[i]
    BY <1>3
  <1>5. ~SftRegistered(R) /\ SftRegistered(R)' /\ rankPhase'[0] = "data"
    BY <1>1, <1>2, SftConstants DEF SftRegistered, Passed
  <1>6. n = 0
    <2>1. n = IF Keep > 0 /\ Len(all) > Keep THEN Len(all) - Keep ELSE 0
      BY DEF Sft!OverLimit
    <2>2. Keep > 1 => L <= Keep - 1
      BY <1>2, <1>5 DEF SftInv, SftRetention
    <2>3. Len(all) = L + 1 /\ L \in Nat /\ Keep \in Nat
      BY <1>3, <1>4, SftConstants
    <2>. DEFINE m == Len(all)
    <2>4. n = (IF Keep > 0 /\ m > Keep THEN m - Keep ELSE 0) /\ m = L + 1
      BY <2>1, <2>3
    <2>. HIDE DEF L, n, all, m
    <2>5. Keep # 1 => ~(Keep > 0 /\ m > Keep)
      BY <2>2, <2>3, <2>4
    <2>. QED
      BY <2>4, <2>5
  <1>7. saved' = all
    <2>. HIDE DEF all, n, L
    <2>1. /\ saved' \in Seq(Sft(R)!Version) /\ Len(saved') = Len(all)
          /\ \A i \in 1..Len(all) : saved'[i] = all[i]
      BY <1>1, <1>4, <1>6, Remaining DEF Sft!Without
    <2>. QED
      BY <1>4, <2>1, SeqEqual
  <1>8. /\ DOMAIN shards' = Sft(R)!Version
        /\ \A v \in Sft(R)!Version : DOMAIN shards'[v] = Sft(R)!Rank
        /\ DOMAIN data' = Sft(R)!Version /\ \A v \in Sft(R)!Version : DOMAIN data'[v] = Sft(R)!Rank
        /\ \A v \in Sft(R)!Version : shards'[v] = shards[v] /\ data'[v] = data[v]
        /\ SftDisk(R)'
    <2>1. Sft(R)!Oldest(all, n) = {}
      BY <1>6 DEF Sft!Oldest
    <2>. HIDE DEF all, n
    <2>. QED
      BY <1>1, <2>1, SftRemoved
  <1>9. SftOlder(R) = L /\ SftOlder(R)' = L
    <2>1. SftOlder(R)' = Len(all) - 1
      BY <1>5, <1>7 DEF SftOlder
    <2>. QED
      BY <1>3, <1>4, <1>5, <2>1 DEF SftOlder
  <1>. HIDE DEF all, n, L
  <1>10. SftTypes(R)'
    BY <1>1, <1>2, <1>4, <1>7, <1>8 DEF SftInv, SftTypes, SftWeights
  <1>11. SftPlace(R)'
    BY <1>1, <1>2, <1>5 DEF SftInv, SftPlace
  <1>12. SftNamed(R)'
    BY <1>1, <1>8 DEF SftInv, SftNamed, SftWhole
  <1>13. SftProgress(R)'
    <2>1. Len(saved') >= 1 /\ saved'[Len(saved')] = jobStep'
      BY <1>1, <1>3, <1>4, <1>7
    <2>2. \A r \in Sft(R)!Rank : rankPhase[r] # "shard"
      BY <1>1 DEF Sft!Written
    <2>. QED
      BY <1>1, <1>2, <1>3, <1>5, <1>8, <2>1, <2>2 DEF SftInv, SftProgress
  <1>14. SftRetention(R)'
    <2>1. ASSUME NEW i \in 1..L
          PROVE  saved'[i] < jobStep' /\ (i < L => saved'[i] # tracker')
      BY <1>1, <1>2, <1>4, <1>7, <1>9, <2>1 DEF SftInv, SftRetention
    <2>. QED
      BY <1>2, <1>5, <1>9, <2>1 DEF SftRetention
  <1>. QED
    BY <1>2, <1>8, <1>10, <1>11, <1>12, <1>13, <1>14 DEF SftInv

LEMMA SftPassBarrier ==
  ASSUME NEW R \in RankCounts, SftInv(R), NEW r \in Sft(R)!Rank, r # 0, Sft(R)!PassBarrier(r)
  PROVE  SftInv(R)'
  <1>1. /\ rankPhase[r] = "barrier" /\ Sft(R)!Written
        /\ rankPhase' = [rankPhase EXCEPT ![r] = "data"]
        /\ UNCHANGED <<jobStep, epoch, jobPos, weights, saved, shards, data, tracker, jobCrashes>>
    BY DEF Sft!PassBarrier
  <1>2. /\ DOMAIN rankPhase' = Sft(R)!Rank
        /\ \A q \in Sft(R)!Rank : rankPhase'[q] = IF q = r THEN "data" ELSE rankPhase[q]
        /\ SftSaving(R) /\ SftSaving(R)' /\ SftPace(R)'
        /\ ~Sft(R)!At("down") /\ ~Sft(R)!At("train") /\ ~Sft(R)!At("down")' /\ ~Sft(R)!At("train")'
    BY <1>1, SftMoved DEF Passed, Sft!Written
  <1>3. rankPhase'[0] = rankPhase[0] /\ (SftRegistered(R)' <=> SftRegistered(R))
       /\ SftOlder(R)' = SftOlder(R)
    BY <1>1, <1>2, SftConstants DEF SftRegistered, SftOlder
  <1>4. SftTypes(R)'
    BY <1>1, <1>2 DEF SftInv, SftTypes, SftWeights
  <1>5. SftPlace(R)'
    BY <1>1, <1>2, <1>3 DEF SftInv, SftPlace
  <1>6. SftDisk(R)' /\ SftNamed(R)'
    BY <1>1 DEF SftInv, SftDisk, SftNamed, SftWhole, SftWeights
  <1>7. SftProgress(R)' /\ SftRetention(R)'
    BY <1>1, <1>2, <1>3 DEF SftInv, SftProgress, SftRetention
  <1>. QED
    BY <1>2, <1>4, <1>5, <1>6, <1>7 DEF SftInv

LEMMA SftSaveData ==
  ASSUME NEW R \in RankCounts, SftInv(R), NEW r \in Sft(R)!Rank, Sft(R)!SaveData(r)
  PROVE  SftInv(R)'
  <1>. DEFINE to == IF r = 0 THEN "track" ELSE "end"
  <1>1. /\ rankPhase[r] = "data" /\ data' = [data EXCEPT ![jobStep][r] = jobPos[r]]
        /\ rankPhase' = [rankPhase EXCEPT ![r] = to]
        /\ UNCHANGED <<jobStep, epoch, jobPos, weights, saved, shards, tracker, jobCrashes>>
    BY DEF Sft!SaveData
  <1>2. \A q \in Sft(R)!Rank : rankPhase[q] # "shard"
    BY <1>1 DEF SftInv, SftPace, Passed
  <1>3. /\ DOMAIN rankPhase' = Sft(R)!Rank
        /\ \A q \in Sft(R)!Rank : rankPhase'[q] = IF q = r THEN to ELSE rankPhase[q]
        /\ SftSaving(R) /\ SftSaving(R)' /\ SftPace(R)'
        /\ ~Sft(R)!At("down") /\ ~Sft(R)!At("train") /\ ~Sft(R)!At("down")' /\ ~Sft(R)!At("train")'
    <2>1. to \in Passed /\ (to = "track" => r = 0)
      BY DEF Passed
    <2>. HIDE DEF to
    <2>. QED
      BY <1>1, <1>2, <2>1, SftMoved DEF Passed
  <1>4. jobStep \in Sft(R)!Version /\ PosOf(jobStep, StepsPerEpoch) = jobPos[0]
    BY <1>3, SftSavingStep DEF SftInv
  <1>5. /\ DOMAIN data' = Sft(R)!Version /\ \A v \in Sft(R)!Version : DOMAIN data'[v] = Sft(R)!Rank
        /\ \A v \in Sft(R)!Version, q \in Sft(R)!Rank :
             data'[v][q] = IF v = jobStep /\ q = r THEN jobPos[r] ELSE data[v][q]
    BY <1>1, <1>4 DEF SftInv, SftTypes
  <1>6. jobPos[0] # Sft(R)!NoData /\ jobPos[r] \in 0..StepsPerEpoch
    BY SftConstants DEF SftInv, SftTypes, Sft!NoData
  <1>7. /\ SftRegistered(R)' <=> SftRegistered(R)
        /\ SftOlder(R)' = SftOlder(R)
        /\ rankPhase'[0] = "end" <=> rankPhase[0] = "end"
        /\ rankPhase'[0] \in {"track", "end"} => r = 0 \/ rankPhase[0] \in {"track", "end"}
    <2>1. rankPhase'[0] \in {"track", "end"} => r = 0 \/ rankPhase[0] \in {"track", "end"}
      BY <1>3, SftConstants
    <2>2. rankPhase'[0] = "end" <=> rankPhase[0] = "end"
      BY <1>1, <1>3, SftConstants
    <2>3. SftRegistered(R)' <=> SftRegistered(R)
      BY <1>1, <1>3, SftConstants DEF SftRegistered, Passed
    <2>. QED
      BY <1>1, <2>1, <2>2, <2>3 DEF SftOlder
  <1>. HIDE DEF to
  <1>8. SftTypes(R)'
    BY <1>1, <1>3, <1>5 DEF SftInv, SftTypes, SftWeights
  <1>9. SftPlace(R)'
    BY <1>1, <1>3, <1>7 DEF SftInv, SftPlace
  <1>10. SftDisk(R)'
    <2>1. \A v \in Sft(R)!Version, q \in Sft(R)!Rank :
            shards'[v][q] # Sft(R)!NoShard => shards'[v][q] \in SftWeights(R, v)
      BY <1>1 DEF SftInv, SftDisk
    <2>2. \A v \in Sft(R)!Version, q \in Sft(R)!Rank :
            data'[v][q] \in {Sft(R)!NoData} \cup 0..StepsPerEpoch
      BY <1>4, <1>5, <1>6 DEF SftInv, SftDisk
    <2>3. \A v \in Sft(R)!Version : data'[v][0] \in {Sft(R)!NoData, PosOf(v, StepsPerEpoch)}
      BY <1>4, <1>5, <1>6, SftConstants DEF SftInv, SftDisk
    <2>. QED
      BY <2>1, <2>2, <2>3 DEF SftDisk, SftWeights
  <1>11. SftNamed(R)'
    BY <1>1, <1>5, <1>6, SftConstants DEF SftInv, SftNamed, SftWhole
  <1>12. SftProgress(R)'
    <2>1. \A q \in Sft(R)!Rank : shards[jobStep][q] = weights
      BY <1>2, <1>3 DEF SftInv, SftProgress
    <2>2. rankPhase'[0] \in {"track", "end"} => data'[jobStep][0] = jobPos[0]
      BY <1>3, <1>4, <1>5, <1>7, SftConstants DEF SftInv, SftProgress
    <2>. QED
      BY <1>1, <1>3, <1>7, <2>1, <2>2 DEF SftInv, SftProgress
  <1>13. SftRetention(R)'
    BY <1>1, <1>3, <1>7 DEF SftInv, SftRetention
  <1>. QED
    BY <1>3, <1>8, <1>9, <1>10, <1>11, <1>12, <1>13 DEF SftInv

LEMMA SftTrack ==
  ASSUME NEW R \in RankCounts, SftInv(R), Sft(R)!Track
  PROVE  SftInv(R)'
  <1>1. /\ rankPhase[0] = "track" /\ tracker' = jobStep
        /\ rankPhase' = [rankPhase EXCEPT ![0] = "end"]
        /\ UNCHANGED <<jobStep, epoch, jobPos, weights, saved, shards, data, jobCrashes>>
    BY DEF Sft!Track
  <1>2. \A q \in Sft(R)!Rank : rankPhase[q] # "shard"
    BY <1>1, SftConstants DEF SftInv, SftPace, Passed
  <1>3. /\ DOMAIN rankPhase' = Sft(R)!Rank
        /\ \A q \in Sft(R)!Rank : rankPhase'[q] = IF q = 0 THEN "end" ELSE rankPhase[q]
        /\ SftSaving(R) /\ SftSaving(R)' /\ SftPace(R)'
        /\ ~Sft(R)!At("down") /\ ~Sft(R)!At("train") /\ ~Sft(R)!At("down")' /\ ~Sft(R)!At("train")'
    BY <1>1, <1>2, SftMoved, SftConstants DEF Passed
  <1>4. jobStep \in Sft(R)!Version /\ weights \in SftWeights(R, jobStep)
    BY <1>3, SftSavingStep DEF SftInv
  <1>5. SftRegistered(R) /\ SftRegistered(R)' /\ SftOlder(R)' = SftOlder(R) /\ rankPhase'[0] = "end"
    BY <1>1, <1>3, SftConstants DEF SftRegistered, SftOlder, Passed
  <1>6. SftTypes(R)'
    BY <1>1, <1>3, <1>4 DEF SftInv, SftTypes, SftWeights
  <1>7. SftPlace(R)'
    <2>1. jobStep <= jobStep
      BY <1>4, SftConstants DEF Sft!Version
    <2>. QED
      BY <1>1, <1>3, <1>5, <2>1 DEF SftInv, SftPlace
  <1>8. SftDisk(R)'
    BY <1>1 DEF SftInv, SftDisk, SftWeights
  <1>9. SftNamed(R)'
    <2>1. \A q \in Sft(R)!Rank : shards[jobStep][q] = weights
      BY <1>2, <1>3 DEF SftInv, SftProgress
    <2>2. data[jobStep][0] = jobPos[0] /\ jobPos[0] # Sft(R)!NoData
      BY <1>1, <1>3, SftConstants DEF SftInv, SftProgress, SftTypes, Sft!NoData
    <2>3. weights # Sft(R)!NoShard
      BY <1>4, SftNoShard
    <2>. QED
      BY <1>1, <2>1, <2>2, <2>3, SftConstants DEF SftNamed, SftWhole
  <1>10. SftProgress(R)'
    BY <1>1, <1>2, <1>3, <1>5 DEF SftInv, SftProgress
  <1>11. SftRetention(R)'
    <2>1. ASSUME NEW i \in 1..SftOlder(R)
          PROVE  saved[i] < jobStep /\ saved[i] # jobStep
      <3>1. saved[i] < jobStep
        BY <1>3 DEF SftInv, SftRetention
      <3>2. i \in DOMAIN saved /\ saved[i] \in Sft(R)!Version
        BY <1>5 DEF SftInv, SftTypes, SftOlder
      <3>. QED
        BY <1>4, <3>1, <3>2, SftConstants DEF Sft!Version
    <2>. QED
      BY <1>1, <1>3, <1>5, <2>1 DEF SftRetention
  <1>. QED
    BY <1>3, <1>6, <1>7, <1>8, <1>9, <1>10, <1>11 DEF SftInv

LEMMA SftLastBarrier ==
  ASSUME NEW R \in RankCounts, SftInv(R), Sft(R)!LastBarrier
  PROVE  SftInv(R)'
  <1>1. /\ Sft(R)!At("end") /\ rankPhase' = Sft(R)!All(Sft(R)!AfterStep(jobStep))
        /\ UNCHANGED <<jobStep, epoch, jobPos, weights, saved, shards, data, tracker, jobCrashes>>
    BY DEF Sft!LastBarrier, Sft!disk
  <1>2. SftSaving(R) /\ rankPhase[0] = "end" /\ ~Sft(R)!At("down") /\ SftRegistered(R)
    BY <1>1, SftPlaces DEF Sft!At, SftSaving, Passed, SftRegistered
  <1>3. Sft(R)!AfterStep(jobStep) \in {"train", "done"}
    BY DEF Sft!AfterStep
  <1>4. /\ DOMAIN rankPhase' = Sft(R)!Rank /\ SftPace(R)' /\ ~Sft(R)!At("down")' /\ ~SftSaving(R)'
        /\ ~SftRegistered(R)' /\ SftOlder(R)' = Len(saved)
    BY <1>1, <1>3, SftSent DEF Passed, SftRegistered, SftOlder
  <1>5. jobStep \in Sft(R)!Version /\ tracker = jobStep
    BY <1>2, SftSavingStep DEF SftInv, SftPlace
  <1>6. SftTypes(R)'
    BY <1>1, <1>2, <1>4 DEF SftInv, SftTypes, SftWeights
  <1>7. SftPlace(R)'
    BY <1>1, <1>2, <1>4 DEF SftInv, SftPlace
  <1>8. SftDisk(R)' /\ SftNamed(R)'
    BY <1>1 DEF SftInv, SftDisk, SftNamed, SftWhole, SftWeights
  <1>9. SftProgress(R)'
    BY <1>4 DEF SftProgress, SftRegistered
  <1>10. SftRetention(R)'
    <2>. DEFINE m == Len(saved)
    <2>1. saved \in Seq(Sft(R)!Version) /\ m \in Nat /\ SftOlder(R) = m - 1 /\ m >= 1
         /\ saved[m] = jobStep
      BY <1>2 DEF SftInv, SftTypes, SftOlder, SftProgress
    <2>2. ASSUME NEW i \in 1..m
          PROVE  saved[i] <= jobStep /\ (i < m => saved[i] # tracker)
      <3>1. saved[i] \in Nat /\ jobStep \in Nat
        BY <1>5, <2>1, SftConstants DEF Sft!Version
      <3>2. CASE i = m
        BY <2>1, <3>1, <3>2
      <3>3. CASE i # m
        <4>. HIDE DEF m
        <4>1. i \in 1..SftOlder(R)
          BY <2>1, <2>2, <3>3
        <4>2. saved[i] < jobStep
          BY <1>2, <4>1 DEF SftInv, SftRetention
        <4>. QED
          BY <1>5, <3>1, <4>2
      <3>. QED
        BY <3>2, <3>3
    <2>. QED
      BY <1>1, <1>4, <2>2 DEF SftRetention
  <1>. QED
    BY <1>4, <1>6, <1>7, <1>8, <1>9, <1>10 DEF SftInv

LEMMA SftCrash ==
  ASSUME NEW R \in RankCounts, SftInv(R), Sft(R)!Crash
  PROVE  SftInv(R)'
  <1>1. /\ rankPhase' = Sft(R)!All("down") /\ jobStep' = 0 /\ epoch' = 0 /\ jobPos' = Sft(R)!All(0)
        /\ saved' = <<>>
        /\ jobCrashes < SftCrashes /\ jobCrashes' = jobCrashes + 1
        /\ UNCHANGED <<shards, data, tracker>>
    BY DEF Sft!Crash, Sft!disk
  <1>2. /\ DOMAIN rankPhase' = Sft(R)!Rank /\ SftPace(R)' /\ Sft(R)!At("down")'
        /\ ~Sft(R)!At("train")' /\ ~SftSaving(R)'
    BY <1>1, SftSent DEF Passed
  <1>3. jobPos' \in [Sft(R)!Rank -> 0..StepsPerEpoch]
    BY <1>1, SftConstants DEF Sft!All
  <1>4. SftTypes(R)'
    BY <1>1, <1>2, <1>3, SftConstants DEF SftInv, SftTypes
  <1>5. SftPlace(R)' /\ SftDisk(R)' /\ SftNamed(R)' /\ SftProgress(R)' /\ SftRetention(R)'
    BY <1>1, <1>2
    DEF SftInv, SftPlace, SftDisk, SftNamed, SftWhole, SftWeights, SftProgress, SftRetention,
        SftRegistered, SftOlder
  <1>. QED
    BY <1>2, <1>4, <1>5 DEF SftInv

LEMMA SftStutter ==
  ASSUME NEW R \in RankCounts, SftInv(R), UNCHANGED Sft(R)!vars
  PROVE  SftInv(R)'
  <1>1. UNCHANGED <<rankPhase, jobStep, epoch, jobPos, weights, saved, shards, data, tracker,
                    jobCrashes>>
    BY DEF Sft!vars, Sft!disk
  <1>. QED
    BY <1>1
    DEF SftInv, SftPace, SftSaving, Sft!At, SftTypes, SftPlace, SftDisk, SftNamed, SftWhole,
        SftWeights, SftProgress, SftRetention, SftRegistered, SftOlder

LEMMA SftStep ==
  ASSUME NEW R \in RankCounts, SftInv(R), Sft(R)!Next, Keep # 1
  PROVE  SftInv(R)'
  BY SftStart, SftTrainOn, SftTrainSave, SftNextEpoch, SftWriteShard, SftRegister, SftPassBarrier,
     SftSaveData, SftTrack, SftLastBarrier, SftCrash
  DEF Sft!Next, Sft!Work

LEMMA SftTypeOK ==
  ASSUME NEW R \in RankCounts
  PROVE  SftInv(R) => Sft(R)!TypeOK
  <1>. SUFFICES ASSUME SftInv(R) PROVE Sft(R)!TypeOK
    OBVIOUS
  <1>1. ASSUME NEW r \in Sft(R)!Rank
        PROVE  /\ rankPhase[r]
                    \in {"down", "train", "shard", "barrier", "data", "track", "end", "done"}
               /\ jobPos[r] \in 0..StepsPerEpoch
               /\ ~Sft(R)!At("down") => jobStep = Len(weights[r])
    BY DEF SftInv, SftPace, SftSaving, Passed, Sft!At, SftTypes, SftWeights
  <1>. QED
    BY <1>1 DEF SftInv, SftTypes, Sft!TypeOK

LEMMA SftResumable ==
  ASSUME NEW R \in RankCounts
  PROVE  SftInv(R) => Sft(R)!Resumable
  <1>. SUFFICES ASSUME SftInv(R), tracker \in Sft(R)!Version
                PROVE  /\ \A r \in Sft(R)!Rank : shards[tracker][r] = shards[tracker][0]
                       /\ shards[tracker][0] # Sft(R)!NoShard
                       /\ \A r \in Sft(R)!Rank : Len(shards[tracker][0][r]) = tracker
                       /\ data[tracker][0] # Sft(R)!NoData
    BY DEF Sft!Resumable
  <1>1. shards[tracker][0] # Sft(R)!NoShard /\ SftWhole(R, tracker, shards[tracker][0])
       /\ data[tracker][0] # Sft(R)!NoData
    BY DEF SftInv, SftNamed
  <1>2. shards[tracker][0] \in SftWeights(R, tracker)
    BY <1>1, SftConstants DEF SftInv, SftDisk
  <1>. QED
    BY <1>1, <1>2 DEF SftWhole, SftWeights

\* No save at the end of an epoch but the last: a start from such a checkpoint finds the iterator
\* exhausted and counts another epoch.
NoneAtEnd == \A e \in 1..(Epochs - 1) : (StepsPerEpoch * e) % SftFreq # 0

\* Rank 0 has then contributed each batch once and in order.
SftOnce(R) ==
  /\ ~Sft(R)!At("down") => weights[0] = Upto(jobStep)
  /\ Sft(R)!At("train") \/ SftSaving(R) => jobStep = StepsPerEpoch * epoch + jobPos[0]
  /\ SftSaving(R) => Sft(R)!ToSave(jobStep)
  /\ \A v \in Sft(R)!Version, r \in Sft(R)!Rank : shards[v][r] # Sft(R)!NoShard => Sft(R)!ToSave(v)
       /\ shards[v][r][0] = Upto(v)

LEMMA SftOnceInitially ==
  ASSUME NEW R \in RankCounts
  PROVE  Sft(R)!Init => SftOnce(R)
  <1>. SUFFICES ASSUME Sft(R)!Init PROVE SftOnce(R)
    OBVIOUS
  <1>1. Sft(R)!At("down") /\ ~Sft(R)!At("train") /\ ~SftSaving(R)
    BY SftConstants DEF Sft!Init, Sft!At, Sft!All, SftSaving, Passed
  <1>2. \A v \in Sft(R)!Version, r \in Sft(R)!Rank : shards[v][r] = Sft(R)!NoShard
    BY DEF Sft!Init, Sft!All
  <1>. QED
    BY <1>1, <1>2 DEF SftOnce

LEMMA SftOnceStart ==
  ASSUME NEW R \in RankCounts, SftInv(R), SftOnce(R), Sft(R)!Start, NoneAtEnd
  PROVE  SftOnce(R)'
  <1>. DEFINE v == Sft(R)!Latest
              q == v \div StepsPerEpoch
              to == IF q < Epochs THEN "train" ELSE "done"
  <1>1. /\ weights' = IF v = 0 THEN Sft(R)!All(<<>>) ELSE shards[v][0]
        /\ jobStep' = v /\ epoch' = q /\ jobPos' = [r \in Sft(R)!Rank |-> Sft(R)!Position(v, r)]
        /\ rankPhase' = Sft(R)!All(to) /\ UNCHANGED shards
    BY DEF Sft!Start, Sft!FirstStep, Sft!disk
  <1>2. /\ v \in 0..Sft(R)!Total /\ v \in Nat
        /\ v = 0 => tracker = Sft(R)!NoFile
        /\ v # 0 => /\ v = tracker /\ v \in Sft(R)!Version /\ shards[v][0] \in SftWeights(R, v)
                    /\ data[v][0] = PosOf(v, StepsPerEpoch)
    BY SftLatest, SftConstants
  <1>3. ~SftSaving(R)' /\ (Sft(R)!At("train")' => q < Epochs)
    <2>1. to \in {"train", "done"} /\ (to = "train" => q < Epochs)
      OBVIOUS
    <2>. HIDE DEF to
    <2>. QED
      BY <1>1, <2>1, SftSent DEF Passed
  <1>4. v # 0 => shards[v][0] # Sft(R)!NoShard
    BY <1>2, SftNoShard
  <1>5. v # 0 => Sft(R)!ToSave(v) /\ shards[v][0][0] = Upto(v)
    BY <1>2, <1>4, SftConstants DEF SftOnce
  <1>6. weights'[0] = Upto(jobStep')
    <2>1. CASE v = 0
      BY <1>1, <2>1, SftConstants, UptoFacts DEF Sft!All
    <2>2. CASE v # 0
      BY <1>1, <1>5, <2>2
    <2>. QED
      BY <2>1, <2>2
  <1>7. ASSUME q < Epochs PROVE v = StepsPerEpoch * q + jobPos'[0]
    <2>1. CASE v = 0
      <3>1. \A S \in Nat \ {0} : 0 \div S = 0 /\ S * 0 = 0
        OBVIOUS
      <3>2. q = 0 /\ StepsPerEpoch * 0 = 0
        BY <2>1, <3>1, SftConstants
      <3>3. jobPos'[0] = 0
        BY <1>1, <2>1, SftConstants DEF Sft!Position
      <3>4. StepsPerEpoch * q + jobPos'[0] = StepsPerEpoch * 0 + 0
        BY <3>2, <3>3, Zenon
      <3>. QED
        BY <2>1, <3>2, <3>4
    <2>2. CASE v # 0
      <3>. DEFINE b == StepsPerEpoch * q
                  m == v % StepsPerEpoch
      <3>1. m \in Nat /\ m < StepsPerEpoch /\ q \in Nat /\ v = b + m
        BY <1>2, SftConstants, Division
      <3>2. b \in Nat /\ b + StepsPerEpoch <= Sft(R)!Total
        BY <1>7, <3>1, SftConstants
      <3>3. v < Sft(R)!Total
        <4>. HIDE DEF b, m, q
        <4>. QED
          BY <1>2, <3>1, <3>2, SftConstants
      <3>4. v % SftFreq = 0
        BY <1>2, <1>5, <2>2, <3>3, SftConstants DEF Sft!ToSave
      <3>5. m # 0
        <4>. SUFFICES ASSUME m = 0 PROVE FALSE
          OBVIOUS
        <4>1. v = b
          <5>. HIDE DEF b, m
          <5>. QED
            BY <3>1, <3>2
        <4>2. q # 0
          <5>1. \A S \in Nat \ {0} : S * 0 = 0
            OBVIOUS
          <5>. QED
            BY <2>2, <4>1, <5>1, SftConstants
        <4>3. q \in 1..(Epochs - 1)
          <5>. HIDE DEF q
          <5>. QED
            BY <1>7, <3>1, <4>2, SftConstants
        <4>4. b % SftFreq # 0
          BY <4>3 DEF NoneAtEnd
        <4>. QED
          BY <3>4, <4>1, <4>4, Zenon
      <3>6. v \in 1..(StepsPerEpoch * Epochs)
        BY <1>2, <2>2, SftConstants
      <3>7. PosOf(v, StepsPerEpoch) = m /\ PosOf(v, StepsPerEpoch) \in 1..StepsPerEpoch
        BY <3>5, <3>6, SftConstants, Positions
      <3>8. jobPos'[0] = m
        BY <1>1, <1>2, <2>2, <3>7, SftConstants DEF Sft!Position, Sft!NoData
      <3>. QED
        BY <3>1, <3>8, Zenon
    <2>. QED
      BY <2>1, <2>2
  <1>. HIDE DEF v, q, to
  <1>8. Sft(R)!At("train")' => jobStep' = StepsPerEpoch * epoch' + jobPos'[0]
    BY <1>1, <1>3, <1>7, Zenon
  <1>. QED
    BY <1>1, <1>3, <1>6, <1>8 DEF SftOnce

LEMMA SftOnceTrainBatch ==
  ASSUME NEW R \in RankCounts, SftInv(R), SftOnce(R), Sft(R)!TrainBatch
  PROVE  SftOnce(R)'
  <1>. DEFINE b == StepsPerEpoch * epoch
  <1>1. /\ Sft(R)!At("train") /\ jobStep' = jobStep + 1 /\ epoch' = epoch
        /\ weights' = [r \in Sft(R)!Rank |-> Append(weights[r], epoch * StepsPerEpoch + jobPos[r])]
        /\ rankPhase'
             = Sft(R)!All(IF Sft(R)!ToSave(jobStep') THEN "shard" ELSE Sft(R)!AfterStep(jobStep'))
    BY DEF Sft!TrainBatch
  <1>2. /\ jobStep' \in Sft(R)!Version /\ jobPos'[0] = jobPos[0] + 1 /\ jobPos[0] \in Nat
        /\ epoch < Epochs
    BY SftBatch
  <1>3. b \in Nat /\ b = epoch * StepsPerEpoch /\ jobStep = b + jobPos[0] /\ jobStep \in Nat
    BY <1>1, SftConstants DEF SftInv, SftTypes, SftOnce
  <1>4. weights[0] = Upto(jobStep)
    BY <1>1, SftPlaces DEF SftOnce
  <1>5. weights'[0] = Upto(jobStep')
    <2>1. weights'[0] = Append(Upto(jobStep), jobStep)
      BY <1>1, <1>3, <1>4, SftConstants, Zenon
    <2>. QED
      BY <1>1, <1>3, <2>1, UptoFacts, Zenon
  <1>6. jobStep' = b + jobPos'[0]
    BY <1>1, <1>2, <1>3
  <1>7. SftSaving(R)' => Sft(R)!ToSave(jobStep')
    <2>1. CASE Sft(R)!ToSave(jobStep')
      BY <2>1
    <2>2. CASE ~Sft(R)!ToSave(jobStep')
      <3>1. rankPhase' = Sft(R)!All(Sft(R)!AfterStep(jobStep'))
           /\ Sft(R)!AfterStep(jobStep') \in {"train", "done"}
        BY <1>1, <2>2 DEF Sft!AfterStep
      <3>. QED
        BY <3>1, SftSent DEF Passed
    <2>. QED
      BY <2>1, <2>2
  <1>8. \A v \in Sft(R)!Version, r \in Sft(R)!Rank :
          shards'[v][r] \in {Sft(R)!NoShard, shards[v][r]}
    <2>1. CASE Sft(R)!ToSave(jobStep')
      <3>. DEFINE gone == Sft(R)!Oldest(saved, Sft(R)!OverCapacity(saved))
      <3>1. /\ shards' = [v \in Sft(R)!Version |-> IF v \in gone THEN Sft(R)!All(Sft(R)!NoShard)
                                                 ELSE shards[v]]
            /\ data' = [v \in Sft(R)!Version |-> IF v \in gone THEN Sft(R)!All(Sft(R)!NoData)
                                               ELSE data[v]]
        BY <2>1 DEF Sft!TrainBatch
      <3>. HIDE DEF gone
      <3>. QED
        BY <3>1, SftRemoved
    <2>2. CASE ~Sft(R)!ToSave(jobStep')
      BY <2>2 DEF Sft!TrainBatch
    <2>. QED
      BY <2>1, <2>2
  <1>9. \A v \in Sft(R)!Version, r \in Sft(R)!Rank :
          shards'[v][r] # Sft(R)!NoShard => Sft(R)!ToSave(v) /\ shards'[v][r][0] = Upto(v)
    BY <1>8 DEF SftOnce
  <1>. QED
    BY <1>1, <1>5, <1>6, <1>7, <1>9 DEF SftOnce, Sft!ToSave

LEMMA SftOnceNextEpoch ==
  ASSUME NEW R \in RankCounts, SftInv(R), SftOnce(R), Sft(R)!NextEpoch
  PROVE  SftOnce(R)'
  <1>. DEFINE b == StepsPerEpoch * epoch
              b1 == StepsPerEpoch * (epoch + 1)
              to == IF epoch + 1 < Epochs THEN "train" ELSE "done"
  <1>1. /\ Sft(R)!At("train") /\ jobPos[0] = StepsPerEpoch /\ epoch' = epoch + 1
        /\ jobPos'[0] = 0 /\ rankPhase' = Sft(R)!All(to)
        /\ UNCHANGED <<jobStep, weights, shards>>
    BY SftConstants DEF Sft!NextEpoch, Sft!disk, Sft!All
  <1>2. b \in Nat /\ b1 = b + StepsPerEpoch /\ jobStep = b + jobPos[0]
    BY <1>1, SftConstants DEF SftInv, SftTypes, SftOnce
  <1>3. jobStep' = b1 + jobPos'[0]
    <2>. HIDE DEF b, b1
    <2>. QED
      BY <1>1, <1>2, SftConstants
  <1>4. ~SftSaving(R)' /\ ~Sft(R)!At("down")
    <2>1. to \in {"train", "done"}
      OBVIOUS
    <2>. HIDE DEF to
    <2>. QED
      BY <1>1, <2>1, SftSent, SftPlaces DEF Passed
  <1>5. jobStep' = StepsPerEpoch * epoch' + jobPos'[0]
    BY <1>1, <1>3, Zenon
  <1>. QED
    BY <1>1, <1>4, <1>5 DEF SftOnce

\* The steps of a save, and its end.
LEMMA SftOnceSaving ==
  ASSUME NEW R \in RankCounts, SftInv(R), SftOnce(R), SftSaving(R),
         UNCHANGED <<jobStep, epoch, jobPos, weights>>,
         \A v \in Sft(R)!Version, r \in Sft(R)!Rank :
           shards'[v][r] \in {Sft(R)!NoShard, shards[v][r]}
               \/ (v = jobStep /\ shards'[v][r] = weights)
  PROVE  SftOnce(R)'
  <1>1. ~Sft(R)!At("down") /\ ~Sft(R)!At("train") /\ ~Sft(R)!At("done")
    BY SftPlaces
  <1>2. weights[0] = Upto(jobStep) /\ Sft(R)!ToSave(jobStep)
       /\ jobStep = StepsPerEpoch * epoch + jobPos[0]
    BY <1>1 DEF SftOnce
  <1>3. ASSUME NEW v \in Sft(R)!Version, NEW r \in Sft(R)!Rank, shards'[v][r] # Sft(R)!NoShard
        PROVE  Sft(R)!ToSave(v) /\ shards'[v][r][0] = Upto(v)
    <2>1. CASE shards'[v][r] = shards[v][r]
      BY <1>3, <2>1 DEF SftOnce
    <2>2. CASE v = jobStep /\ shards'[v][r] = weights
      BY <1>2, <2>2
    <2>. QED
      BY <1>3, <2>1, <2>2
  <1>4. Sft(R)!ToSave(jobStep)'
    BY <1>2 DEF Sft!ToSave
  <1>. QED
    BY <1>2, <1>3, <1>4 DEF SftOnce, Sft!ToSave

LEMMA SftSavingAt ==
  ASSUME NEW R \in RankCounts, SftInv(R), NEW r \in Sft(R)!Rank,
      rankPhase[r] \in {"shard", "barrier"} \cup Passed
  PROVE  SftSaving(R)
  BY DEF SftInv, SftPace, Sft!At, Passed

LEMMA SftOnceStep ==
  ASSUME NEW R \in RankCounts, SftInv(R), SftOnce(R), Sft(R)!Next, NoneAtEnd
  PROVE  SftOnce(R)'
  <1>1. CASE Sft(R)!Start
    BY <1>1, SftOnceStart
  <1>2. CASE Sft(R)!TrainBatch
    BY <1>2, SftOnceTrainBatch
  <1>3. CASE Sft(R)!NextEpoch
    BY <1>3, SftOnceNextEpoch
  <1>4. ASSUME NEW r \in Sft(R)!Rank, Sft(R)!WriteShard(r) PROVE SftOnce(R)'
    <2>1. /\ rankPhase[r] = "shard" /\ shards' = [shards EXCEPT ![jobStep][r] = weights]
          /\ UNCHANGED <<jobStep, epoch, jobPos, weights>>
      BY <1>4 DEF Sft!WriteShard
    <2>2. SftSaving(R)
      BY <2>1, SftSavingAt
    <2>3. \A v \in Sft(R)!Version, q \in Sft(R)!Rank :
            shards'[v][q] = shards[v][q] \/ (v = jobStep /\ shards'[v][q] = weights)
      BY <2>1 DEF SftInv, SftTypes
    <2>. QED
      BY <2>1, <2>2, <2>3, SftOnceSaving
  <1>5. ASSUME NEW r \in Sft(R)!Rank, Sft(R)!PassBarrier(r) PROVE SftOnce(R)'
    <2>1. rankPhase[r] = "barrier" /\ UNCHANGED <<jobStep, epoch, jobPos, weights>>
      BY <1>5 DEF Sft!PassBarrier
    <2>2. SftSaving(R)
      BY <2>1, SftSavingAt
    <2>3. \A v \in Sft(R)!Version, q \in Sft(R)!Rank :
         shards'[v][q] \in {Sft(R)!NoShard, shards[v][q]}
      <3>1. CASE r = 0
        BY <1>5, <3>1, SftRemoved DEF Sft!PassBarrier
      <3>2. CASE r # 0
        BY <1>5, <3>2 DEF Sft!PassBarrier
      <3>. QED
        BY <3>1, <3>2
    <2>. QED
      BY <2>1, <2>2, <2>3, SftOnceSaving
  <1>6. ASSUME NEW r \in Sft(R)!Rank, Sft(R)!SaveData(r) PROVE SftOnce(R)'
    <2>1. rankPhase[r] = "data" /\ UNCHANGED <<jobStep, epoch, jobPos, weights, shards>>
      BY <1>6 DEF Sft!SaveData
    <2>2. SftSaving(R)
      BY <2>1, SftSavingAt DEF Passed
    <2>. QED
      BY <2>1, <2>2, SftOnceSaving
  <1>7. CASE Sft(R)!Track
    <2>1. rankPhase[0] = "track" /\ UNCHANGED <<jobStep, epoch, jobPos, weights, shards>>
      BY <1>7 DEF Sft!Track
    <2>2. SftSaving(R)
      BY <2>1, SftSavingAt, SftConstants DEF Passed
    <2>. QED
      BY <2>1, <2>2, SftOnceSaving
  <1>8. CASE Sft(R)!LastBarrier
    <2>1. Sft(R)!At("end") /\ UNCHANGED <<jobStep, epoch, jobPos, weights, shards>>
      BY <1>8 DEF Sft!LastBarrier, Sft!disk
    <2>2. SftSaving(R)
      BY <2>1 DEF Sft!At, SftSaving, Passed
    <2>. QED
      BY <2>1, <2>2, SftOnceSaving
  <1>9. CASE Sft(R)!Crash
    <2>1. rankPhase' = Sft(R)!All("down") /\ UNCHANGED shards
      BY <1>9 DEF Sft!Crash, Sft!disk
    <2>2. Sft(R)!At("down")' /\ ~Sft(R)!At("train")' /\ ~SftSaving(R)'
      BY <2>1, SftSent DEF Passed
    <2>. QED
      BY <2>1, <2>2 DEF SftOnce
  <1>. QED
    BY <1>1, <1>2, <1>3, <1>4, <1>5, <1>6, <1>7, <1>8, <1>9 DEF Sft!Next, Sft!Work

LEMMA SftOnceStutter ==
  ASSUME NEW R \in RankCounts, SftOnce(R), UNCHANGED Sft(R)!vars
  PROVE  SftOnce(R)'
  <1>1. UNCHANGED <<rankPhase, jobStep, epoch, jobPos, weights, shards>>
    BY DEF Sft!vars, Sft!disk
  <1>. QED
    BY <1>1 DEF SftOnce, SftSaving, Sft!At, Sft!ToSave

LEMMA SftEachOnce ==
  ASSUME NEW R \in RankCounts
  PROVE  SftInv(R) /\ SftOnce(R) /\ R = 1 => Sft(R)!EachBatchOnce
  <1>. SUFFICES ASSUME SftInv(R), SftOnce(R), R = 1, ~Sft(R)!At("down"), NEW r \in Sft(R)!Rank,
       NEW i \in DOMAIN weights[r]
                PROVE  weights[r][i] = i - 1
    BY DEF Sft!EachBatchOnce
  <1>1. r = 0
    BY DEF Sft!Rank
  <1>2. weights[0] = Upto(jobStep)
    BY DEF SftOnce
  <1>. QED
    BY <1>1, <1>2 DEF Upto

-----------------------------------------------------------------------------
(* The asynchronous job.                                                   *)

AsyncSaving == asyncPhase \in {"capacity", "save", "data", "open", "write"}

AsyncTypes ==
  /\ asyncPhase \in {"down", "train", "done"} \/ AsyncSaving
  /\ part \in Async!Dir /\ (part = "critic" => asyncPhase \in {"capacity", "save"})
  /\ epoch \in 1..Trigger /\ jobStep \in Nat /\ lastVersion \in 0..jobStep
  /\ ending \in BOOLEAN /\ feeding \in BOOLEAN
  /\ saved \in [Async!Dir -> Seq(Async!Version)]
  /\ jobPos \in Nat /\ end \in Nat /\ jobPos <= end
  /\ DOMAIN shards = Async!Dir /\ \A d \in Async!Dir : DOMAIN shards[d] = Async!Version
  /\ DOMAIN data = Async!Version
  /\ tracker \in {Async!NoFile, Async!Cut} \cup Async!Version
  /\ jobCrashes \in 0..AsyncCrashes

\* The samples below p that are not in w.
AsyncLost(p, w) == (0..(p - 1)) \ w

AsyncSamples ==
  /\ flight \subseteq 0..(jobPos - 1) /\ weights \subseteq 0..(jobPos - 1)
  /\ flight \cap weights = {}
  /\ Cardinality(flight) <= Async!MaxInFlight
  /\ Cardinality(AsyncLost(jobPos, weights \cup flight)) <= jobCrashes * Async!MaxInFlight

\* What is in flight is taken up, within the staleness control, or still pending.
AsyncRoom ==
  /\ got \in Nat /\ got <= jobPos /\ jobPos - got <= PendingMax + 1
  /\ Cardinality(Async!TakenUp) <= MaxFlight

\* A sample is fed for a step of its own.
AsyncSteps ==
  /\ fed \in 1..(Async!Total + jobCrashes)
  /\ feeding => fed = jobStep * Trigger + epoch + Cardinality(flight)
  /\ jobStep * Trigger + (epoch - 1) + Cardinality(flight) <= Async!Total + jobCrashes

\* A save is of a version that the tracker file has not named; a start adds a step at most to what
\* the steps of the job allow.
AsyncOrder ==
  /\ AsyncSaving => lastVersion < jobStep
  /\ tracker \in Async!Version =>
       IF asyncPhase = "down" THEN tracker * Trigger + 1 <= Async!Total + jobCrashes
           ELSE tracker = lastVersion

AsyncDeaths == IF asyncPhase = "down" THEN jobCrashes ELSE jobCrashes + 1

\* The position p of the data loader goes with the weights w: what the next start leaves out was in
\* flight at a save.
AsyncGoes(w, p) ==
  /\ p \in Nat /\ w \subseteq 0..(p - 1)
  /\ Cardinality(AsyncLost(p, w)) <= AsyncDeaths * Async!MaxInFlight

AsyncNamed ==
  tracker \in Async!Version =>
    /\ shards["actor"][tracker] = shards["critic"][tracker]
    /\ AsyncGoes(shards["actor"][tracker], data[tracker])

AsyncRegistered(d) == asyncPhase \in {"data", "open", "write"} \/ (part = "critic" /\ d = "actor")
AsyncOlder(d) == IF AsyncRegistered(d) THEN Len(saved[d]) - 1 ELSE Len(saved[d])

AsyncProgress ==
  /\ \A d \in Async!Dir : AsyncRegistered(d) => /\ Len(saved[d]) >= 1
                                                /\ saved[d][Len(saved[d])] = jobStep
                                                /\ shards[d][jobStep] = weights
  /\ asyncPhase \in {"open", "write"} => AsyncGoes(weights, data[jobStep])

AsyncRetention ==
  /\ \A d \in Async!Dir : \A i \in 1..AsyncOlder(d) :
       saved[d][i] <= lastVersion /\ (i < AsyncOlder(d) => saved[d][i] < lastVersion)
  /\ asyncPhase = "save" /\ Keep > 1 => Len(saved[part]) <= Keep - 1

AsyncInv == AsyncTypes /\ AsyncSamples /\ AsyncRoom /\ AsyncSteps /\ AsyncOrder /\ AsyncNamed
    /\ AsyncProgress /\ AsyncRetention

\* AsyncCheckpoint counts with the operator of its own instance of FiniteSets.
LEMMA SameCount == \A S : Async!Cardinality(S) = Cardinality(S)
  BY DEF Async!Cardinality, Cardinality

LEMMA AsyncConstants ==
  /\ DataSize \in Nat \ {0} /\ AsyncEpochs \in Nat \ {0} /\ Trigger \in Nat \ {0}
  /\ AsyncFreq \in Nat \ {0}
  /\ PendingMax \in Nat \ {0} /\ MaxFlight \in Nat \ {0} /\ Async!MaxInFlight \in Nat \ {0}
  /\ AsyncCrashes \in Nat /\ Keep \in Nat /\ Async!Total \in Nat \ {0}
  BY MCRestartsAssumption, SMTT(30)
  DEF Async!AsyncAssumption, Async!KeepAssumption, Async!Total, Async!MaxInFlight

LEMMA AsyncProducts ==
  /\ \A v \in Nat : v * Trigger \in Nat /\ (v + 1) * Trigger = v * Trigger + Trigger
  /\ 0 * Trigger = 0
  /\ \A v, u \in Nat : v <= u => v * Trigger <= u * Trigger
  /\ \A v \in Nat : v * Trigger <= Async!Total + AsyncCrashes => v <= Async!MaxVersion
  /\ \A k \in Nat : /\ k * Async!MaxInFlight \in Nat
                     /\ (k + 1) * Async!MaxInFlight = k * Async!MaxInFlight + Async!MaxInFlight
  <1>1. \A T \in Nat \ {0} : \A v \in Nat : v * T \in Nat /\ (v + 1) * T = v * T + T
       /\ v * T = T * v
    BY SMTT(30)
  <1>2. \A T \in Nat \ {0} : \A v, u \in Nat : v <= u => v * T <= u * T
    BY SMTT(30)
  <1>3. ASSUME NEW v \in Nat, v * Trigger <= Async!Total + AsyncCrashes PROVE v <= Async!MaxVersion
    <2>. DEFINE n == Async!Total + AsyncCrashes
                q == n \div Trigger
                m == n % Trigger
                t == Trigger * q
                b == Trigger * v
    <2>1. n \in Nat /\ b <= n
      BY <1>1, <1>3, AsyncConstants
    <2>2. q \in Nat /\ m \in Nat /\ m < Trigger /\ n = t + m
      BY <2>1, AsyncConstants, Division
    <2>3. /\ q + 1 \in Nat \ {0} /\ Trigger * (q + 1) = t + Trigger /\ t \in Nat /\ b \in Nat
          /\ v >= q + 1 => b >= Trigger * (q + 1)
      BY <2>2, AsyncConstants, Product
    <2>4. Async!MaxVersion = q
      BY DEF Async!MaxVersion
    <2>. HIDE DEF n, q, m, t, b
    <2>. QED
      BY <2>1, <2>2, <2>3, <2>4, AsyncConstants
  <1>. QED
    BY <1>1, <1>2, <1>3, AsyncConstants

\* What is in flight, or lost, is finite.
LEMMA FlightFinite ==
  ASSUME AsyncTypes, AsyncSamples
  PROVE  /\ IsFiniteSet(flight) /\ Cardinality(flight) \in Nat
         /\ \A p \in Nat : \A w : IsFiniteSet(AsyncLost(p, w))
              /\ Cardinality(AsyncLost(p, w)) \in Nat
  <1>1. ASSUME NEW p \in Nat, NEW w \in SUBSET (0..(p - 1))
        PROVE  IsFiniteSet(w) /\ Cardinality(w) \in Nat
    <2>1. IsFiniteSet(0..(p - 1))
      BY FS_Interval
    <2>. QED
      BY <2>1, FS_Subset, FS_CardinalityType
  <1>2. ASSUME NEW p \in Nat, NEW w
        PROVE  IsFiniteSet(AsyncLost(p, w)) /\ Cardinality(AsyncLost(p, w)) \in Nat
    BY <1>1 DEF AsyncLost
  <1>. QED
    BY <1>1, <1>2 DEF AsyncTypes, AsyncSamples

\* The version being saved is one.
LEMMA AsyncVersion ==
  ASSUME AsyncInv, AsyncSaving
  PROVE  jobStep \in Async!Version /\ lastVersion < jobStep /\ asyncPhase # "down"
      /\ tracker # jobStep
  <1>1. lastVersion \in Nat /\ jobStep \in Nat /\ lastVersion < jobStep /\ asyncPhase # "down"
    BY DEF AsyncInv, AsyncTypes, AsyncOrder, AsyncSaving
  <1>2. jobStep * Trigger <= Async!Total + AsyncCrashes
    <2>. DEFINE b == jobStep * Trigger
                k == Cardinality(flight)
    <2>1. /\ b \in Nat /\ b + (epoch - 1) + k <= Async!Total + jobCrashes
          /\ epoch \in Nat /\ epoch >= 1 /\ jobCrashes \in Nat /\ jobCrashes <= AsyncCrashes
          /\ Async!Total \in Nat /\ AsyncCrashes \in Nat
      BY <1>1, AsyncConstants, AsyncProducts DEF AsyncInv, AsyncTypes, AsyncSteps
    <2>2. k \in Nat
      BY FlightFinite DEF AsyncInv
    <2>. HIDE DEF b, k
    <2>3. b <= Async!Total + AsyncCrashes
      BY <2>1, <2>2
    <2>. QED
      BY <2>3 DEF b
  <1>3. jobStep <= Async!MaxVersion
    BY <1>1, <1>2, AsyncProducts
  <1>4. jobStep \in Async!Version
    <2>1. Async!MaxVersion \in Int
      BY AsyncConstants DEF Async!MaxVersion
    <2>. QED
      BY <1>1, <1>3, <2>1 DEF Async!Version
  <1>5. tracker # jobStep
    BY <1>1, <1>4 DEF AsyncInv, AsyncOrder
  <1>. QED
    BY <1>1, <1>4, <1>5

LEMMA AsyncInitially == Async!Init => AsyncInv
  <1>. SUFFICES ASSUME Async!Init PROVE AsyncInv
    OBVIOUS
  <1>. USE DEF Async!Init
  <1>1. AsyncTypes
    <2>1. saved \in [Async!Dir -> Seq(Async!Version)] /\ part \in Async!Dir /\ part # "critic"
      BY DEF Async!Dir
    <2>2. /\ epoch \in 1..Trigger /\ jobStep \in Nat /\ lastVersion \in 0..jobStep /\ jobPos \in Nat
          /\ end \in Nat /\ jobPos <= end /\ jobCrashes \in 0..AsyncCrashes
      BY AsyncConstants
    <2>. QED
      BY <2>1, <2>2 DEF AsyncTypes
  <1>2. tracker \notin Async!Version
    BY AsyncConstants DEF Async!NoFile, Async!Version
  <1>3. 0..(0 - 1) = {} /\ Cardinality({}) = 0
    BY FS_EmptySet
  <1>4. AsyncSamples
    <2>1. Cardinality(AsyncLost(jobPos, weights \cup flight)) = 0
      BY <1>3 DEF AsyncLost
    <2>2. jobCrashes * Async!MaxInFlight = 0
      BY AsyncConstants
    <2>. QED
      BY <1>3, <2>1, <2>2, AsyncConstants DEF AsyncSamples
  <1>5. AsyncSteps
    BY <1>3, AsyncConstants, AsyncProducts DEF AsyncSteps
  <1>6. AsyncOrder /\ AsyncNamed /\ AsyncProgress /\ AsyncRetention
    BY <1>2
    DEF AsyncOrder, AsyncNamed, AsyncProgress, AsyncRetention, AsyncRegistered, AsyncOlder,
        AsyncSaving
  <1>7. AsyncRoom
    <2>1. Async!TakenUp = {}
      BY DEF Async!TakenUp
    <2>. QED
      BY <1>3, <2>1, AsyncConstants DEF AsyncRoom
  <1>. QED
    BY <1>1, <1>4, <1>5, <1>6, <1>7 DEF AsyncInv

\* What a start finds: what the tracker names, whole, or nothing.
LEMMA AsyncLatest ==
  ASSUME AsyncInv, tracker # Async!Cut
  PROVE  /\ Async!Latest \in {0} \cup Async!Version /\ Async!Latest \in Nat
         /\ Async!Latest = 0 => tracker = Async!NoFile
         /\ Async!Latest # 0 => /\ Async!Latest = tracker /\ Async!Latest \in Async!Version
                                /\ shards["actor"][Async!Latest] = shards["critic"][Async!Latest]
                                /\ AsyncGoes(shards["actor"][Async!Latest], data[Async!Latest])
  <1>1. CASE tracker = Async!NoFile
    BY <1>1 DEF Async!Latest
  <1>2. CASE tracker # Async!NoFile
    <2>1. tracker \in Async!Version
      BY <1>2 DEF AsyncInv, AsyncTypes
    <2>2. /\ shards["actor"][tracker] = shards["critic"][tracker]
          /\ AsyncGoes(shards["actor"][tracker], data[tracker])
      BY <2>1 DEF AsyncInv, AsyncNamed
    <2>3. Async!Exists(tracker)
      BY <2>2 DEF Async!Exists, AsyncGoes
    <2>4. Async!Latest = tracker /\ tracker \in Nat /\ tracker # 0
      BY <1>2, <2>1, <2>3, AsyncConstants DEF Async!Latest, Async!Version, Async!MaxVersion
    <2>. QED
      BY <2>1, <2>2, <2>4
  <1>. QED
    BY <1>1, <1>2

LEMMA AsyncIteratorEnd ==
  ASSUME NEW p \in Nat
  PROVE  Async!IteratorEnd(p) \in Nat /\ p <= Async!IteratorEnd(p)
  <1>. DEFINE n == IF p = 0 THEN 0 ELSE ((p - 1) % DataSize) + 1
              t == AsyncEpochs * DataSize
  <1>1. n \in Nat /\ n <= DataSize
    <2>1. CASE p = 0
      BY <2>1, AsyncConstants
    <2>2. CASE p # 0
      <3>1. p - 1 \in Nat
        BY <2>2
      <3>2. (p - 1) % DataSize \in Nat /\ (p - 1) % DataSize < DataSize
        BY <3>1, AsyncConstants, Division
      <3>. QED
        BY <2>2, <3>2, AsyncConstants
    <2>. QED
      BY <2>1, <2>2
  <1>2. t \in Nat /\ DataSize <= t
    <2>1. \A D, E \in Nat \ {0} : E * D \in Nat /\ D <= E * D
      BY SMTT(30)
    <2>. QED
      BY <2>1, AsyncConstants
  <1>3. Async!IteratorEnd(p) = p + t - n
    BY DEF Async!IteratorEnd
  <1>. HIDE DEF n, t
  <1>. QED
    BY <1>1, <1>2, <1>3, AsyncConstants

LEMMA AsyncStart ==
  ASSUME AsyncInv, Async!Start
  PROVE  AsyncInv'
  <1>. DEFINE v == Async!Latest
              p == Async!DataPosition(v)
  <1>1. /\ asyncPhase = "down" /\ asyncPhase' = "train" /\ part' = "actor"
        /\ IF v = 0 THEN weights' = {} ELSE \E d \in Async!Dir : weights' = shards[d][v]
        /\ jobStep' = v /\ lastVersion' = v /\ fed' = v * Trigger + 1
        /\ jobPos' = p /\ end' = Async!IteratorEnd(p) /\ epoch' = 1 /\ ending' = FALSE
        /\ saved' = [d \in Async!Dir |-> <<>>] /\ feeding' = TRUE /\ flight' = {} /\ got' = p
        /\ UNCHANGED <<shards, data, tracker, jobCrashes>>
    BY DEF Async!Start, Async!disk
  <1>2. /\ v \in {0} \cup Async!Version /\ v \in Nat
        /\ v = 0 => tracker = Async!NoFile
        /\ v # 0 => /\ v = tracker /\ v \in Async!Version
                    /\ shards["actor"][v] = shards["critic"][v]
                    /\ AsyncGoes(shards["actor"][v], data[v])
    BY AsyncLatest DEF Async!Start
  <1>3. AsyncDeaths = jobCrashes /\ AsyncDeaths' = jobCrashes + 1 /\ jobCrashes \in Nat
    BY <1>1, AsyncConstants DEF AsyncDeaths, AsyncInv, AsyncTypes
  <1>4. /\ p \in Nat /\ weights' \subseteq 0..(p - 1)
        /\ Cardinality(AsyncLost(p, weights')) <= jobCrashes * Async!MaxInFlight
    <2>1. CASE v = 0
      <3>1. p = 0 /\ weights' = {} /\ 0..(0 - 1) = {}
        BY <1>1, <2>1 DEF Async!DataPosition
      <3>2. Cardinality(AsyncLost(p, weights')) = 0
        BY <3>1, FS_EmptySet DEF AsyncLost
      <3>3. jobCrashes * Async!MaxInFlight \in Nat
        BY <1>3, AsyncProducts
      <3>. QED
        BY <3>1, <3>2, <3>3
    <2>2. CASE v # 0
      <3>1. data[v] \in Nat
        BY <1>2, <2>2 DEF AsyncGoes
      <3>2. p = data[v]
        BY <2>2, <3>1 DEF Async!DataPosition
      <3>3. weights' = shards["actor"][v]
        BY <1>1, <1>2, <2>2 DEF Async!Dir
      <3>. QED
        BY <1>2, <1>3, <2>2, <3>1, <3>2, <3>3 DEF AsyncGoes
    <2>. QED
      BY <2>1, <2>2
  <1>5. Async!IteratorEnd(p) \in Nat /\ p <= Async!IteratorEnd(p)
    BY <1>4, AsyncIteratorEnd
  <1>6. v * Trigger \in Nat /\ v * Trigger + 1 <= Async!Total + jobCrashes
    <2>1. v * Trigger \in Nat
      BY <1>2, AsyncProducts
    <2>2. CASE v = 0
      BY <1>3, <2>1, <2>2, AsyncConstants, AsyncProducts
    <2>3. CASE v # 0
      BY <1>1, <1>2, <2>1, <2>3 DEF AsyncInv, AsyncOrder
    <2>. QED
      BY <2>1, <2>2, <2>3
  <1>. HIDE DEF v, p
  <1>7. AsyncTypes'
    <2>1. saved' \in [Async!Dir -> Seq(Async!Version)] /\ part' \in Async!Dir /\ part' # "critic"
      BY <1>1 DEF Async!Dir
    <2>2. /\ epoch' \in 1..Trigger /\ jobStep' \in Nat /\ lastVersion' \in 0..jobStep'
          /\ jobPos' \in Nat /\ end' \in Nat /\ jobPos' <= end'
      BY <1>1, <1>2, <1>4, <1>5, AsyncConstants
    <2>. QED
      BY <1>1, <2>1, <2>2 DEF AsyncInv, AsyncTypes
  <1>8. AsyncSamples'
    <2>1. Cardinality(flight') = 0 /\ weights' \cup flight' = weights'
      BY <1>1, FS_EmptySet
    <2>2. Cardinality(AsyncLost(p, weights' \cup flight')) <= jobCrashes * Async!MaxInFlight
      BY <1>4, <2>1, Zenon
    <2>3. Cardinality(flight') <= Async!MaxInFlight
      BY <2>1, AsyncConstants
    <2>. QED
      BY <1>1, <1>4, <2>2, <2>3 DEF AsyncSamples, AsyncLost
  <1>9. AsyncSteps'
    <2>. DEFINE b == v * Trigger
    <2>1. Cardinality(flight') = 0
      BY <1>1, FS_EmptySet
    <2>2. b \in Nat /\ b + 1 <= Async!Total + jobCrashes /\ jobCrashes \in Nat
         /\ Async!Total \in Nat
      BY <1>3, <1>6, AsyncConstants
    <2>3. jobStep' * Trigger = b /\ fed' = b + 1
      BY <1>1
    <2>. HIDE DEF b
    <2>4. /\ fed' \in 1..(Async!Total + jobCrashes')
          /\ fed' = jobStep' * Trigger + epoch' + Cardinality(flight')
          /\ jobStep' * Trigger + (epoch' - 1) + Cardinality(flight') <= Async!Total + jobCrashes'
      BY <1>1, <2>1, <2>2, <2>3
    <2>. QED
      BY <2>4 DEF AsyncSteps
  <1>10. AsyncOrder'
    <2>1. tracker \in Async!Version => tracker = v
      BY <1>2, AsyncConstants DEF Async!NoFile, Async!Version, Async!MaxVersion
    <2>. QED
      BY <1>1, <2>1 DEF AsyncOrder, AsyncSaving
  <1>11. AsyncNamed'
    <2>1. ASSUME tracker \in Async!Version
          PROVE  /\ shards["actor"][tracker] = shards["critic"][tracker]
                 /\ AsyncGoes(shards["actor"][tracker], data[tracker])
      BY <2>1 DEF AsyncInv, AsyncNamed
    <2>2. /\ jobCrashes * Async!MaxInFlight \in Nat
          /\ (jobCrashes + 1) * Async!MaxInFlight
               = jobCrashes * Async!MaxInFlight + Async!MaxInFlight
      BY <1>3, AsyncProducts
    <2>3. ASSUME tracker \in Async!Version
          PROVE  Cardinality(AsyncLost(data[tracker], shards["actor"][tracker]))
                    <= (jobCrashes + 1) * Async!MaxInFlight
      <3>1. Cardinality(AsyncLost(data[tracker], shards["actor"][tracker]))
              <= jobCrashes * Async!MaxInFlight
        BY <1>3, <2>1, <2>3 DEF AsyncGoes
      <3>2. Cardinality(AsyncLost(data[tracker], shards["actor"][tracker])) \in Nat
        BY <2>1, <2>3, FlightFinite DEF AsyncInv, AsyncGoes
      <3>. QED
        BY <2>2, <3>1, <3>2, AsyncConstants
    <2>. QED
      BY <1>1, <1>3, <2>1, <2>3 DEF AsyncNamed, AsyncGoes, AsyncLost
  <1>12. AsyncProgress' /\ AsyncRetention'
    BY <1>1 DEF AsyncProgress, AsyncRetention, AsyncRegistered, AsyncOlder
  <1>13. AsyncRoom'
    <2>1. Async!TakenUp' = {}
      BY <1>1 DEF Async!TakenUp
    <2>2. Cardinality(Async!TakenUp') = 0
      BY <2>1, FS_EmptySet
    <2>. QED
      BY <1>1, <1>4, <2>2, AsyncConstants DEF AsyncRoom
  <1>. QED
    BY <1>7, <1>8, <1>9, <1>10, <1>11, <1>12, <1>13 DEF AsyncInv

\* A step that leaves the disk and the save alone.
LEMMA AsyncDiskKept ==
  ASSUME AsyncInv, asyncPhase # "down", asyncPhase' # "down",
         UNCHANGED <<shards, data, tracker, jobCrashes, lastVersion>>, AsyncSaving'
             => lastVersion' < jobStep'
  PROVE  AsyncOrder' /\ AsyncNamed'
  <1>1. AsyncDeaths' = AsyncDeaths
    BY DEF AsyncDeaths
  <1>. QED
    BY <1>1 DEF AsyncInv, AsyncOrder, AsyncNamed, AsyncGoes, AsyncLost

\* A step that leaves what is pending and taken up alone.
LEMMA AsyncRoomKept ==
  ASSUME AsyncInv, UNCHANGED <<jobPos, flight, got>>
  PROVE  AsyncRoom'
  BY DEF AsyncInv, AsyncRoom, Async!TakenUp

\* What the rollouter has taken up is finite, and the rest of the flight is pending.
LEMMA AsyncPending ==
  ASSUME AsyncInv
  PROVE  /\ IsFiniteSet(Async!TakenUp) /\ Cardinality(Async!TakenUp) \in Nat
         /\ Cardinality(flight) <= Cardinality(Async!TakenUp) + (jobPos - got)
  <1>. DEFINE T == Async!TakenUp
              P == got..(jobPos - 1)
              x == Cardinality(T \cap P)
              y == Cardinality(T \cup P)
              t == Cardinality(T)
              k == Cardinality(flight)
              q == Cardinality(P)
  <1>1. /\ IsFiniteSet(flight) /\ k \in Nat /\ flight \subseteq 0..(jobPos - 1)
        /\ jobPos \in Nat /\ got \in Nat /\ got <= jobPos
    BY FlightFinite DEF AsyncInv, AsyncTypes, AsyncSamples, AsyncRoom
  <1>2. T \subseteq flight /\ flight \subseteq T \cup P
    BY <1>1 DEF Async!TakenUp
  <1>3. IsFiniteSet(T) /\ t \in Nat
    BY <1>1, <1>2, FS_Subset, FS_CardinalityType
  <1>4. IsFiniteSet(P) /\ q = jobPos - got
    <2>1. got \in Int /\ jobPos - 1 \in Int
      BY <1>1
    <2>2. IsFiniteSet(P) /\ q = IF got > jobPos - 1 THEN 0 ELSE (jobPos - 1) - got + 1
      BY <2>1, FS_Interval
    <2>. HIDE DEF q
    <2>. QED
      BY <1>1, <2>2
  <1>5. IsFiniteSet(T \cup P) /\ y = t + q - x
    BY <1>3, <1>4, FS_Union
  <1>6. k <= y
    BY <1>2, <1>5, FS_Subset
  <1>7. x \in Nat
    <2>1. IsFiniteSet(T \cap P)
      BY <1>3, FS_Intersection
    <2>. QED
      BY <2>1, FS_CardinalityType
  <1>. HIDE DEF T, x, y, t, k, q
  <1>8. k <= t + (jobPos - got)
    BY <1>1, <1>3, <1>4, <1>5, <1>6, <1>7
  <1>. QED
    BY <1>3, <1>8 DEF T, t, k

LEMMA AsyncFeed ==
  ASSUME AsyncInv, Async!Feed
  PROVE  AsyncInv'
  <1>. DEFINE k == Cardinality(flight)
              b == jobStep * Trigger
  <1>1. /\ feeding /\ jobPos < end /\ flight' = flight \cup {jobPos}
        /\ jobPos' = jobPos + 1 /\ jobPos - got <= PendingMax
        /\ \/ fed >= Async!Total /\ feeding' = FALSE /\ fed' = fed
           \/ fed < Async!Total /\ feeding' = feeding /\ fed' = fed + 1
        /\ UNCHANGED <<asyncPhase, part, epoch, jobStep, lastVersion, ending, weights, saved, end,
                       got, shards, data, tracker, jobCrashes>>
    <2>1. fed \in Nat /\ Async!Total \in Nat
      BY AsyncConstants DEF AsyncInv, AsyncSteps
    <2>2. IF fed >= Async!Total THEN feeding' = FALSE /\ fed' = fed
                                ELSE fed' = fed + 1 /\ feeding' = feeding
      BY DEF Async!Feed
    <2>3. \/ fed >= Async!Total /\ feeding' = FALSE /\ fed' = fed
          \/ fed < Async!Total /\ feeding' = feeding /\ fed' = fed + 1
      BY <2>1, <2>2
    <2>4. /\ feeding /\ jobPos < end /\ flight' = flight \cup {jobPos}
          /\ jobPos' = jobPos + 1 /\ jobPos - got <= PendingMax
          /\ UNCHANGED <<asyncPhase, part, epoch, jobStep, lastVersion, ending, weights, saved,
                         end, got, shards, data, tracker, jobCrashes>>
      BY DEF Async!Feed, Async!trainer, Async!disk
    <2>. QED
      BY <2>3, <2>4, Zenon
  <1>2. /\ jobPos \in Nat /\ end \in Nat /\ jobPos + 1 \in Nat /\ k \in Nat /\ IsFiniteSet(flight)
        /\ flight \subseteq 0..(jobPos - 1) /\ weights \subseteq 0..(jobPos - 1)
        /\ flight \cap weights = {}
    BY FlightFinite DEF AsyncInv, AsyncTypes, AsyncSamples
  <1>3. Cardinality(flight') = k + 1
    <2>1. jobPos \notin flight
      BY <1>2
    <2>. QED
      BY <1>1, <1>2, <2>1, FS_AddElement
  <1>4. AsyncTypes'
    <2>2. feeding' \in BOOLEAN
      BY <1>1, Zenon DEF AsyncInv, AsyncTypes
    <2>1. jobPos' \in Nat /\ jobPos' <= end /\ feeding' \in BOOLEAN
      BY <1>1, <1>2, <2>2
    <2>. QED
      BY <1>1, <1>2, <2>1 DEF AsyncInv, AsyncTypes, AsyncSaving
  <1>5. AsyncSamples'
    <2>1. AsyncLost(jobPos + 1, weights \cup flight') = AsyncLost(jobPos, weights \cup flight)
      BY <1>1, <1>2 DEF AsyncLost
    <2>2. /\ flight' \subseteq 0..jobPos /\ weights \subseteq 0..jobPos /\ flight' \cap weights = {}
          /\ (jobPos + 1) - 1 = jobPos
      BY <1>1, <1>2
    <2>3. Cardinality(flight') <= Async!MaxInFlight
      <3>. DEFINE t == Cardinality(Async!TakenUp)
      <3>1. t \in Nat /\ k <= t + (jobPos - got) /\ t <= MaxFlight /\ got \in Nat
        BY AsyncPending DEF AsyncInv, AsyncRoom
      <3>. HIDE DEF t, k
      <3>2. k + 1 <= MaxFlight + PendingMax + 1
        BY <1>1, <1>2, <3>1, AsyncConstants
      <3>. QED
        BY <1>3, <3>2 DEF Async!MaxInFlight
    <2>4. AsyncLost(jobPos', weights' \cup flight') = AsyncLost(jobPos, weights \cup flight)
      BY <1>1, <2>1
    <2>6. Cardinality(AsyncLost(jobPos', weights' \cup flight')) <= jobCrashes' * Async!MaxInFlight
      BY <1>1, <2>4 DEF AsyncInv, AsyncSamples
    <2>. QED
      BY <1>1, <2>2, <2>3, <2>6 DEF AsyncSamples, AsyncLost
  <1>6. AsyncSteps'
    <2>1. /\ fed \in 1..(Async!Total + jobCrashes) /\ fed = b + epoch + k /\ b \in Nat
          /\ epoch \in Nat
          /\ jobCrashes \in Nat /\ Async!Total \in Nat
      BY <1>1, AsyncConstants, AsyncProducts DEF AsyncInv, AsyncTypes, AsyncSteps
    <2>2. jobStep' * Trigger = b /\ epoch' = epoch /\ jobCrashes' = jobCrashes
      BY <1>1
    <2>. HIDE DEF b, k
    <2>3. b + (epoch - 1) + (k + 1) <= Async!Total + jobCrashes
      BY <1>2, <2>1
    <2>4. fed' \in 1..(Async!Total + jobCrashes)
      <3>1. CASE fed' = fed
        BY <2>1, <3>1
      <3>2. CASE fed < Async!Total /\ fed' = fed + 1
        BY <2>1, <3>2
      <3>. QED
        BY <1>1, <3>1, <3>2
    <2>5. feeding' => fed' = b + epoch + (k + 1)
      BY <1>1, <1>2, <2>1
    <2>. QED
      BY <1>3, <2>2, <2>3, <2>4, <2>5 DEF AsyncSteps
  <1>7. AsyncOrder' /\ AsyncNamed'
    <2>1. AsyncDeaths' = AsyncDeaths
      BY <1>1 DEF AsyncDeaths
    <2>. QED
      BY <1>1, <2>1 DEF AsyncInv, AsyncOrder, AsyncNamed, AsyncGoes, AsyncLost, AsyncSaving
  <1>8. AsyncProgress' /\ AsyncRetention'
    <2>1. AsyncDeaths' = AsyncDeaths
      BY <1>1 DEF AsyncDeaths
    <2>. QED
      BY <1>1, <2>1
      DEF AsyncInv, AsyncProgress, AsyncRetention, AsyncRegistered, AsyncOlder, AsyncGoes,
          AsyncLost
  <1>9. AsyncRoom'
    <2>1. got \in Nat /\ got <= jobPos /\ Cardinality(Async!TakenUp) <= MaxFlight
      BY DEF AsyncInv, AsyncRoom
    <2>2. Async!TakenUp' = Async!TakenUp
      BY <1>1, <1>2, <2>1 DEF Async!TakenUp
    <2>3. Cardinality(Async!TakenUp') = Cardinality(Async!TakenUp)
      BY <2>2
    <2>4. got' <= jobPos' /\ jobPos' - got' <= PendingMax + 1
      BY <1>1, <1>2, <2>1, AsyncConstants
    <2>. QED
      BY <1>1, <2>1, <2>3, <2>4 DEF AsyncRoom
  <1>. QED
    BY <1>4, <1>5, <1>6, <1>7, <1>8, <1>9 DEF AsyncInv

\* The processor takes a sample up: nothing is fed or trained on.
LEMMA AsyncTake ==
  ASSUME AsyncInv, Async!Take
  PROVE  AsyncInv'
  <1>. DEFINE t == Cardinality(Async!TakenUp)
  <1>1. /\ got < jobPos /\ t < MaxFlight /\ got' = got + 1
        /\ UNCHANGED <<asyncPhase, part, epoch, jobStep, lastVersion, ending, weights, saved,
                       jobPos, end, fed, feeding, flight, shards, data, tracker, jobCrashes>>
    BY SameCount DEF Async!Take, Async!Room, Async!trainer, Async!disk
  <1>2. AsyncDeaths' = AsyncDeaths
    BY <1>1 DEF AsyncDeaths
  <1>3. AsyncTypes' /\ AsyncSamples' /\ AsyncSteps'
    BY <1>1 DEF AsyncInv, AsyncTypes, AsyncSaving, AsyncSamples, AsyncLost, AsyncSteps
  <1>4. AsyncOrder' /\ AsyncNamed' /\ AsyncProgress' /\ AsyncRetention'
    BY <1>1, <1>2
    DEF AsyncInv, AsyncOrder, AsyncSaving, AsyncNamed, AsyncGoes, AsyncLost, AsyncProgress,
        AsyncRetention, AsyncRegistered, AsyncOlder
  <1>5. AsyncRoom'
    <2>1. got \in Nat /\ jobPos \in Nat /\ got <= jobPos /\ jobPos - got <= PendingMax + 1
      BY DEF AsyncInv, AsyncTypes, AsyncRoom
    <2>2. Async!TakenUp' \subseteq Async!TakenUp \cup {got}
      <3>1. flight \subseteq 0..(jobPos - 1)
        BY DEF AsyncInv, AsyncSamples
      <3>2. \A s \in flight : s < got + 1 => s < got \/ s = got
        BY <2>1, <3>1
      <3>. QED
        BY <1>1, <3>2 DEF Async!TakenUp
    <2>3. IsFiniteSet(Async!TakenUp) /\ t \in Nat
      BY AsyncPending
    <2>4. /\ IsFiniteSet(Async!TakenUp \cup {got})
          /\ Cardinality(Async!TakenUp \cup {got})
                = IF got \in Async!TakenUp THEN t ELSE t + 1
      BY <2>3, FS_AddElement
    <2>5. Cardinality(Async!TakenUp') <= Cardinality(Async!TakenUp \cup {got})
      BY <2>2, <2>4, FS_Subset
    <2>6. Cardinality(Async!TakenUp') \in Nat
      BY <2>2, <2>4, FS_Subset, FS_CardinalityType
    <2>. DEFINE u == Cardinality(Async!TakenUp')
                z == Cardinality(Async!TakenUp \cup {got})
    <2>7. u \in Nat /\ u <= z /\ (z = t \/ z = t + 1)
      BY <2>4, <2>5, <2>6
    <2>. HIDE DEF u, z, t
    <2>8. u <= MaxFlight
      BY <1>1, <2>3, <2>7, AsyncConstants
    <2>9. got' \in Nat /\ got' <= jobPos' /\ jobPos' - got' <= PendingMax + 1
      BY <1>1, <2>1, AsyncConstants
    <2>. QED
      BY <2>8, <2>9 DEF AsyncRoom, u
  <1>. QED
    BY <1>3, <1>4, <1>5 DEF AsyncInv

LEMMA AsyncFeedExhausted ==
  ASSUME AsyncInv, Async!FeedExhausted
  PROVE  AsyncInv'
  <1>1. /\ feeding' = FALSE
        /\ UNCHANGED <<asyncPhase, part, epoch, jobStep, lastVersion, ending, weights, saved,
                       jobPos, end, fed, flight, got, shards, data, tracker, jobCrashes>>
    BY DEF Async!FeedExhausted, Async!trainer, Async!disk
  <1>2. AsyncDeaths' = AsyncDeaths
    BY <1>1 DEF AsyncDeaths
  <1>3. AsyncTypes' /\ AsyncSamples' /\ AsyncSteps'
    BY <1>1 DEF AsyncInv, AsyncTypes, AsyncSaving, AsyncSamples, AsyncLost, AsyncSteps
  <1>4. AsyncOrder' /\ AsyncNamed' /\ AsyncProgress' /\ AsyncRetention'
    BY <1>1, <1>2
    DEF AsyncInv, AsyncOrder, AsyncSaving, AsyncNamed, AsyncGoes, AsyncLost, AsyncProgress,
        AsyncRetention, AsyncRegistered, AsyncOlder
  <1>5. AsyncRoom'
    BY <1>1, AsyncRoomKept
  <1>. QED
    BY <1>3, <1>4, <1>5 DEF AsyncInv

LEMMA AsyncTrain ==
  ASSUME AsyncInv, NEW expiring \in BOOLEAN, Async!Step(expiring)
  PROVE  AsyncInv'
  <1>. DEFINE k == Cardinality(flight)
              b == jobStep * Trigger
  <1>1. /\ asyncPhase = "train"
        /\ epoch' = IF epoch < Trigger THEN epoch + 1 ELSE 1
        /\ jobStep' = Async!VersionAfter
        /\ asyncPhase' = IF Async!ToSave(jobStep', expiring) THEN "capacity" ELSE "train"
        /\ UNCHANGED <<part, lastVersion, ending, saved, jobPos, end, fed, feeding, got, shards,
                       data, tracker, jobCrashes>>
    BY DEF Async!Step, Async!disk
  <1>2. PICK s \in flight : weights' = weights \cup {s} /\ flight' = flight \ {s}
    BY DEF Async!Step, Async!TakenUp
  <1>3. /\ k \in Nat /\ IsFiniteSet(flight) /\ epoch \in 1..Trigger /\ jobStep \in Nat
        /\ lastVersion \in Nat /\ lastVersion <= jobStep /\ part = "actor"
    BY <1>1, FlightFinite DEF AsyncInv, AsyncTypes, Async!Dir
  <1>4. Cardinality(flight') = k - 1 /\ k - 1 \in Nat
    <2>1. Cardinality(flight') = k - 1
      BY <1>2, <1>3, FS_RemoveElement
    <2>2. IsFiniteSet(flight')
      BY <1>2, <1>3, FS_RemoveElement
    <2>. QED
      BY <2>1, <2>2, FS_CardinalityType
  <1>5. \/ epoch < Trigger /\ epoch' = epoch + 1 /\ jobStep' = jobStep
        \/ epoch = Trigger /\ epoch' = 1 /\ jobStep' = jobStep + 1
    BY <1>1, <1>3, AsyncConstants DEF Async!VersionAfter
  <1>6. asyncPhase' \in {"train", "capacity"}
       /\ (asyncPhase' = "capacity" => jobStep' # lastVersion)
    BY <1>1 DEF Async!ToSave
  <1>7. jobStep' \in Nat /\ epoch' \in 1..Trigger /\ lastVersion <= jobStep'
    BY <1>3, <1>5, AsyncConstants
  <1>8. AsyncTypes'
    BY <1>1, <1>3, <1>6, <1>7 DEF AsyncInv, AsyncTypes, AsyncSaving
  <1>9. AsyncSamples'
    <2>1. weights' \cup flight' = weights \cup flight /\ flight' \cap weights' = {}
      BY <1>2 DEF AsyncInv, AsyncSamples
    <2>2. Cardinality(flight') <= Async!MaxInFlight
      BY <1>3, <1>4, AsyncConstants DEF AsyncInv, AsyncSamples
    <2>3. flight' \subseteq 0..(jobPos - 1) /\ weights' \subseteq 0..(jobPos - 1)
      BY <1>2 DEF AsyncInv, AsyncSamples
    <2>4. Cardinality(AsyncLost(jobPos, weights' \cup flight')) <= jobCrashes * Async!MaxInFlight
      BY <2>1 DEF AsyncInv, AsyncSamples
    <2>. QED
      BY <1>1, <2>1, <2>2, <2>3, <2>4 DEF AsyncSamples, AsyncLost
  <1>10. AsyncSteps'
    <2>. DEFINE b1 == jobStep' * Trigger
    <2>1. /\ fed \in 1..(Async!Total + jobCrashes) /\ (feeding => fed = b + epoch + k) /\ b \in Nat
          /\ jobCrashes \in Nat /\ Async!Total \in Nat
          /\ b + (epoch - 1) + k <= Async!Total + jobCrashes
      BY <1>3, AsyncConstants, AsyncProducts DEF AsyncInv, AsyncTypes, AsyncSteps
    <2>2. \/ b1 = b /\ epoch' = epoch + 1
          \/ b1 = b + Trigger /\ epoch = Trigger /\ epoch' = 1
      BY <1>3, <1>5, AsyncProducts
    <2>3. b1 \in Nat /\ epoch \in Nat /\ Trigger \in Nat
      <3>1. b1 \in Nat
        BY <1>7, AsyncProducts
      <3>. QED
        BY <1>3, <3>1, AsyncConstants
    <2>. HIDE DEF b, b1, k
    <2>4. b1 + epoch' = b + epoch + 1
      BY <2>1, <2>2, <2>3
    <2>5. epoch' \in Nat
      BY <1>7, AsyncConstants
    <2>. DEFINE N == Async!Total + jobCrashes
    <2>8. N \in Nat /\ b + (epoch - 1) + k <= N /\ k \in Nat /\ b \in Nat
      BY <1>3, <2>1
    <2>. HIDE DEF N
    <2>10. b1 + (epoch' - 1) + (k - 1) <= N /\ b + epoch + k = b1 + epoch' + (k - 1)
      <3>. DEFINE l1 == epoch'
      <3>1. b1 \in Nat /\ b \in Nat /\ epoch \in Nat /\ l1 \in Nat /\ k \in Nat /\ N \in Nat
        BY <2>3, <2>5, <2>8
      <3>2. b1 + l1 = b + epoch + 1 /\ b + (epoch - 1) + k <= N
        BY <2>4, <2>8
      <3>. HIDE DEF l1
      <3>3. b1 + (l1 - 1) + (k - 1) <= N
        BY <3>1, <3>2
      <3>4. b + epoch + k = b1 + l1 + (k - 1)
        BY <3>1, <3>2
      <3>. QED
        BY <3>3, <3>4 DEF l1
    <2>6. b1 + (epoch' - 1) + (k - 1) <= N
      BY <2>10
    <2>7. feeding => fed = b1 + epoch' + (k - 1)
      <3>1. b + epoch + k = b1 + epoch' + (k - 1)
        BY <2>10
      <3>. QED
        BY <2>1, <3>1
    <2>. QED
      BY <1>1, <1>4, <2>1, <2>6, <2>7 DEF AsyncSteps, b1, N
  <1>11. AsyncOrder' /\ AsyncNamed'
    <2>1. AsyncSaving' => lastVersion' < jobStep'
      BY <1>1, <1>3, <1>6, <1>7 DEF AsyncSaving
    <2>. QED
      BY <1>1, <1>6, <2>1, AsyncDiskKept
  <1>12. AsyncProgress' /\ AsyncRetention'
    BY <1>1, <1>3, <1>6 DEF AsyncInv, AsyncProgress, AsyncRetention, AsyncRegistered, AsyncOlder
  <1>13. AsyncRoom'
    <2>1. Async!TakenUp' \subseteq Async!TakenUp
      BY <1>1, <1>2 DEF Async!TakenUp
    <2>2. IsFiniteSet(Async!TakenUp) /\ Cardinality(Async!TakenUp) \in Nat
      BY AsyncPending
    <2>3. /\ Cardinality(Async!TakenUp') <= Cardinality(Async!TakenUp)
          /\ Cardinality(Async!TakenUp') \in Nat
      BY <2>1, <2>2, FS_Subset, FS_CardinalityType
    <2>4. Cardinality(Async!TakenUp) <= MaxFlight
      BY DEF AsyncInv, AsyncRoom
    <2>5. Cardinality(Async!TakenUp') <= MaxFlight
      BY <2>2, <2>3, <2>4, AsyncConstants
    <2>. QED
      BY <1>1, <2>5 DEF AsyncInv, AsyncRoom
  <1>. QED
    BY <1>8, <1>9, <1>10, <1>11, <1>12, <1>13 DEF AsyncInv

LEMMA AsyncStop ==
  ASSUME AsyncInv, Async!Stop
  PROVE  AsyncInv'
  <1>1. /\ asyncPhase = "train" /\ ending' = TRUE
        /\ asyncPhase' = IF Async!ToSave(jobStep, TRUE) THEN "capacity" ELSE "done"
        /\ UNCHANGED <<part, epoch, jobStep, lastVersion, weights, saved, jobPos, end, fed,
                       feeding, flight, got, shards, data, tracker, jobCrashes>>
    BY DEF Async!Stop, Async!disk, Async!rollouter
  <1>2. asyncPhase' \in {"done", "capacity"} /\ (asyncPhase' = "capacity" => jobStep # lastVersion)
    BY <1>1 DEF Async!ToSave
  <1>3. jobStep \in Nat /\ lastVersion \in 0..jobStep /\ part = "actor"
    BY <1>1 DEF AsyncInv, AsyncTypes, Async!Dir
  <1>4. AsyncTypes' /\ AsyncSamples' /\ AsyncSteps'
    BY <1>1, <1>2, <1>3 DEF AsyncInv, AsyncTypes, AsyncSaving, AsyncSamples, AsyncLost, AsyncSteps
  <1>5. AsyncOrder' /\ AsyncNamed'
    <2>1. asyncPhase' = "capacity" => lastVersion < jobStep
      BY <1>2, <1>3
    <2>2. AsyncSaving' => lastVersion' < jobStep'
      BY <1>1, <1>2, <2>1 DEF AsyncSaving
    <2>. QED
      BY <1>1, <1>2, <2>2, AsyncDiskKept
  <1>6. AsyncProgress' /\ AsyncRetention'
    BY <1>1, <1>2, <1>3 DEF AsyncInv, AsyncProgress, AsyncRetention, AsyncRegistered, AsyncOlder
  <1>7. AsyncRoom'
    BY <1>1, AsyncRoomKept
  <1>. QED
    BY <1>4, <1>5, <1>6, <1>7 DEF AsyncInv

LEMMA AsyncCapacity ==
  ASSUME AsyncInv, Async!Capacity
  PROVE  AsyncInv'
  <1>. DEFINE L == Len(saved[part])
              n == Async!OverCapacity(saved[part])
              gone == Async!Oldest(saved[part], n)
  <1>1. /\ asyncPhase = "capacity" /\ asyncPhase' = "save"
        /\ shards' = [Async!Remove(part, gone) EXCEPT ![part][jobStep] = Async!Partial]
        /\ saved' = [saved EXCEPT ![part] = Async!Without(@, n)]
        /\ UNCHANGED <<part, epoch, jobStep, lastVersion, ending, weights, jobPos, end, fed,
                       feeding, flight, got, data, tracker, jobCrashes>>
    BY DEF Async!Capacity, Async!rollouter
  <1>2. part \in Async!Dir /\ saved \in [Async!Dir -> Seq(Async!Version)]
       /\ saved[part] \in Seq(Async!Version) /\ L \in Nat
    BY DEF AsyncInv, AsyncTypes
  <1>3. jobStep \in Async!Version /\ lastVersion < jobStep /\ tracker # jobStep
    BY <1>1, AsyncVersion DEF AsyncSaving
  <1>4. /\ n \in 0..L /\ (n > 0 => n < L)
        /\ Keep > 1 => L - n <= Keep - 1
    <2>1. n = IF Keep > 1 /\ L >= Keep THEN L - Keep + 1 ELSE 0
      BY DEF Async!OverCapacity
    <2>. HIDE DEF L, n
    <2>. QED
      BY <1>2, <2>1, AsyncConstants
  <1>5. /\ saved'[part] \in Seq(Async!Version) /\ Len(saved'[part]) = L - n
        /\ \A i \in 1..(L - n) : saved'[part][i] = saved[part][i + n]
        /\ \A d \in Async!Dir : d # part => saved'[d] = saved[d]
    BY <1>1, <1>2, <1>4, Remaining DEF Async!Without
  <1>6. /\ \A d \in Async!Dir : AsyncRegistered(d)' = AsyncRegistered(d)
             /\ (AsyncRegistered(d) => d # part)
        /\ AsyncOlder(part) = L /\ AsyncOlder(part)' = L - n
        /\ \A d \in Async!Dir : d # part => AsyncOlder(d)' = AsyncOlder(d)
    BY <1>1, <1>2, <1>5 DEF AsyncRegistered, AsyncOlder, Async!Dir
  <1>7. tracker \in Async!Version => tracker \notin gone
    <2>1. ASSUME tracker \in Async!Version, NEW i \in 1..n PROVE saved[part][i] # tracker
      <3>1. i \in 1..L /\ i < L
        BY <1>2, <1>4
      <3>2. saved[part][i] < lastVersion
        BY <1>2, <1>6, <3>1 DEF AsyncInv, AsyncRetention
      <3>3. tracker = lastVersion /\ lastVersion \in Nat /\ saved[part][i] \in Async!Version
        BY <1>1, <1>2, <2>1, <3>1 DEF AsyncInv, AsyncTypes, AsyncOrder
      <3>. QED
        BY <3>2, <3>3, AsyncConstants DEF Async!Version
    <2>. QED
      BY <2>1 DEF Async!Oldest
  <1>. HIDE DEF L, n, gone
  <1>8. /\ DOMAIN shards' = Async!Dir /\ \A d \in Async!Dir : DOMAIN shards'[d] = Async!Version
        /\ \A d \in Async!Dir, v \in Async!Version :
             d # part \/ (v \notin gone /\ v # jobStep) => shards'[d][v] = shards[d][v]
    BY <1>1, <1>2, <1>3 DEF Async!Remove, AsyncInv, AsyncTypes
  <1>9. AsyncTypes'
    <2>1. saved' \in [Async!Dir -> Seq(Async!Version)]
      BY <1>1, <1>2, <1>5
    <2>. QED
      BY <1>1, <1>8, <2>1 DEF AsyncInv, AsyncTypes, AsyncSaving
  <1>10. AsyncSamples' /\ AsyncSteps' /\ AsyncOrder'
    BY <1>1 DEF AsyncInv, AsyncSamples, AsyncLost, AsyncSteps, AsyncOrder, AsyncSaving
  <1>11. AsyncDeaths' = AsyncDeaths
    BY <1>1 DEF AsyncDeaths
  <1>12. AsyncNamed'
    <2>1. tracker \in Async!Version => \A d \in Async!Dir : shards'[d][tracker] = shards[d][tracker]
      BY <1>3, <1>7, <1>8
    <2>. QED
      BY <1>1, <1>11, <2>1 DEF AsyncInv, AsyncNamed, AsyncGoes, AsyncLost, Async!Dir
  <1>13. AsyncProgress'
    BY <1>1, <1>3, <1>5, <1>6, <1>8 DEF AsyncInv, AsyncProgress
  <1>14. AsyncRetention'
    <2>1. ASSUME NEW d \in Async!Dir, NEW i \in 1..AsyncOlder(d)'
          PROVE  saved'[d][i] <= lastVersion' /\ (i < AsyncOlder(d)' => saved'[d][i] < lastVersion')
      <3>1. CASE d # part
        BY <1>1, <1>5, <1>6, <2>1, <3>1 DEF AsyncInv, AsyncRetention
      <3>2. CASE d = part
        <4>0. i \in 1..(L - n)
          BY <1>1, <1>6, <2>1, <3>2
        <4>1. i + n \in 1..L /\ (i < L - n => i + n < L)
          BY <1>2, <1>4, <4>0
        <4>2. saved'[d][i] = saved[d][i + n]
          BY <1>5, <3>2, <4>0
        <4>3. saved[d][i + n] <= lastVersion /\ (i + n < L => saved[d][i + n] < lastVersion)
          BY <1>2, <1>6, <3>2, <4>1 DEF AsyncInv, AsyncRetention
        <4>. QED
          BY <1>1, <1>6, <3>2, <4>0, <4>1, <4>2, <4>3
      <3>. QED
        BY <3>1, <3>2
    <2>2. Keep > 1 => Len(saved'[part]) <= Keep - 1
      BY <1>4, <1>5
    <2>. QED
      BY <1>1, <2>1, <2>2 DEF AsyncRetention
  <1>15. AsyncRoom'
    BY <1>1, AsyncRoomKept
  <1>. QED
    BY <1>9, <1>10, <1>12, <1>13, <1>14, <1>15 DEF AsyncInv

LEMMA AsyncSaveDir ==
  ASSUME AsyncInv, Async!SaveDir, Keep # 1
  PROVE  AsyncInv'
  <1>. DEFINE L == Len(saved[part])
              all == Append(saved[part], jobStep)
              n == Async!OverLimit(all)
              gone == Async!Oldest(all, n)
  <1>1. /\ asyncPhase = "save"
        /\ shards' = [[shards EXCEPT ![part][jobStep] = weights] EXCEPT ![part] =
                      [v \in Async!Version |-> IF v \in gone THEN Async!Missing ELSE @[v]]]
        /\ saved' = [saved EXCEPT ![part] = Async!Without(all, n)]
        /\ \/ part = "actor" /\ part' = "critic" /\ asyncPhase' = "capacity"
           \/ part # "actor" /\ part' = "actor" /\ asyncPhase' = "data"
        /\ UNCHANGED <<epoch, jobStep, lastVersion, ending, weights, jobPos, end, fed, feeding,
                       flight, got, data, tracker, jobCrashes>>
    BY DEF Async!SaveDir, Async!rollouter
  <1>2. /\ part \in Async!Dir /\ saved \in [Async!Dir -> Seq(Async!Version)]
        /\ saved[part] \in Seq(Async!Version) /\ L \in Nat
        /\ jobStep \in Async!Version /\ lastVersion < jobStep /\ tracker # jobStep
    BY <1>1, AsyncVersion DEF AsyncInv, AsyncTypes, AsyncSaving
  <1>3. /\ all \in Seq(Async!Version) /\ Len(all) = L + 1 /\ all[L + 1] = jobStep
        /\ \A i \in 1..L : all[i] = saved[part][i]
    BY <1>2
  <1>4. n = 0
    <2>1. n = IF Keep > 0 /\ Len(all) > Keep THEN Len(all) - Keep ELSE 0
      BY DEF Async!OverLimit
    <2>2. Keep > 1 => L <= Keep - 1
      BY <1>1 DEF AsyncInv, AsyncRetention
    <2>. HIDE DEF L, n, all
    <2>. QED
      BY <1>2, <1>3, <2>1, <2>2, AsyncConstants
  <1>5. gone = {}
    BY <1>4 DEF Async!Oldest
  <1>. HIDE DEF L, n, gone
  <1>6. /\ saved'[part] = all
        /\ \A d \in Async!Dir : d # part => saved'[d] = saved[d]
        /\ saved' \in [Async!Dir -> Seq(Async!Version)]
    <2>1. Async!Without(all, n) = all
      <3>. HIDE DEF all
      <3>1. /\ Async!Without(all, n) \in Seq(Async!Version) /\ Len(Async!Without(all, n)) = Len(all)
            /\ \A i \in 1..Len(all) : Async!Without(all, n)[i] = all[i]
        BY <1>3, <1>4, Remaining DEF Async!Without
      <3>. QED
        BY <1>3, <3>1, SeqEqual
    <2>. HIDE DEF all
    <2>. QED
      BY <1>1, <1>2, <1>3, <2>1
  <1>. HIDE DEF all
  <1>7. /\ DOMAIN shards' = Async!Dir /\ \A d \in Async!Dir : DOMAIN shards'[d] = Async!Version
        /\ \A d \in Async!Dir, v \in Async!Version :
             shards'[d][v] = IF d = part /\ v = jobStep THEN weights ELSE shards[d][v]
    BY <1>1, <1>2, <1>5 DEF AsyncInv, AsyncTypes
  <1>8. /\ \A d \in Async!Dir : AsyncRegistered(d)' <=> (AsyncRegistered(d) \/ d = part)
        /\ ~AsyncRegistered(part)
        /\ asyncPhase' \in {"capacity", "data"}
    BY <1>1, <1>2 DEF AsyncRegistered, Async!Dir
  <1>9. \A d \in Async!Dir : AsyncOlder(d)' = AsyncOlder(d) /\ (d = part => AsyncOlder(d) = L)
    <2>1. ASSUME NEW d \in Async!Dir, d = part PROVE AsyncOlder(d) = L /\ AsyncOlder(d)' = L
      <3>1. AsyncRegistered(d)' /\ ~AsyncRegistered(d) /\ saved'[d] = all
        BY <1>6, <1>8, <2>1
      <3>2. AsyncOlder(d) = L /\ AsyncOlder(d)' = Len(all) - 1
        BY <2>1, <3>1 DEF AsyncOlder, L
      <3>. QED
        BY <1>2, <1>3, <3>2
    <2>2. ASSUME NEW d \in Async!Dir, d # part PROVE AsyncOlder(d)' = AsyncOlder(d)
      BY <1>6, <1>8, <2>2 DEF AsyncOlder
    <2>. QED
      BY <2>1, <2>2
  <1>10. AsyncTypes'
    BY <1>1, <1>6, <1>7 DEF AsyncInv, AsyncTypes, AsyncSaving, Async!Dir
  <1>11. AsyncSamples' /\ AsyncSteps' /\ AsyncOrder'
    BY <1>1 DEF AsyncInv, AsyncSamples, AsyncLost, AsyncSteps, AsyncOrder, AsyncSaving
  <1>12. AsyncDeaths' = AsyncDeaths
    BY <1>1 DEF AsyncDeaths
  <1>13. AsyncNamed'
    <2>1. tracker \in Async!Version => \A d \in Async!Dir : shards'[d][tracker] = shards[d][tracker]
      BY <1>2, <1>7
    <2>. QED
      BY <1>1, <1>12, <2>1 DEF AsyncInv, AsyncNamed, AsyncGoes, AsyncLost, Async!Dir
  <1>14. AsyncProgress'
    <2>1. ASSUME NEW d \in Async!Dir, AsyncRegistered(d)'
          PROVE  /\ Len(saved'[d]) >= 1 /\ saved'[d][Len(saved'[d])] = jobStep
                 /\ shards'[d][jobStep] = weights
      <3>1. CASE d = part
        BY <1>2, <1>3, <1>6, <1>7, <3>1
      <3>2. CASE d # part
        BY <1>2, <1>6, <1>7, <1>8, <2>1, <3>2 DEF AsyncInv, AsyncProgress
      <3>. QED
        BY <3>1, <3>2
    <2>. QED
      BY <1>1, <1>8, <2>1 DEF AsyncProgress
  <1>15. AsyncRetention'
    <2>1. ASSUME NEW d \in Async!Dir, NEW i \in 1..AsyncOlder(d)'
          PROVE  saved'[d][i] <= lastVersion' /\ (i < AsyncOlder(d)' => saved'[d][i] < lastVersion')
      <3>1. CASE d = part
        <4>1. i \in 1..L /\ saved'[d][i] = saved[d][i]
          BY <1>3, <1>6, <1>9, <2>1, <3>1
        <4>. QED
          BY <1>1, <1>2, <1>9, <3>1, <4>1 DEF AsyncInv, AsyncRetention
      <3>2. CASE d # part
        BY <1>1, <1>6, <1>9, <2>1, <3>2 DEF AsyncInv, AsyncRetention
      <3>. QED
        BY <3>1, <3>2
    <2>2. asyncPhase' # "save"
      BY <1>8
    <2>. QED
      BY <2>1, <2>2 DEF AsyncRetention
  <1>16. AsyncRoom'
    BY <1>1, AsyncRoomKept
  <1>. QED
    BY <1>10, <1>11, <1>13, <1>14, <1>15, <1>16 DEF AsyncInv

\* The position that is saved while the rollouter goes on: what is in flight will be lost.
LEMMA AsyncHeld ==
  ASSUME AsyncInv, asyncPhase # "down"
  PROVE  AsyncGoes(weights, jobPos)
  <1>. DEFINE lost == AsyncLost(jobPos, weights \cup flight)
              a == Cardinality(lost)
              k == Cardinality(flight)
              m == Cardinality(AsyncLost(jobPos, weights))
              c == jobCrashes * Async!MaxInFlight
  <1>1. /\ jobPos \in Nat /\ IsFiniteSet(flight) /\ k \in Nat /\ a \in Nat /\ IsFiniteSet(lost)
        /\ m \in Nat
        /\ k <= Async!MaxInFlight /\ a <= c
    BY FlightFinite DEF AsyncInv, AsyncTypes, AsyncSamples
  <1>2. m <= a + k
    <2>1. AsyncLost(jobPos, weights) \subseteq lost \cup flight
      BY DEF AsyncLost
    <2>2. /\ IsFiniteSet(lost \cup flight)
          /\ Cardinality(lost \cup flight) = a + k - Cardinality(lost \cap flight)
      BY <1>1, FS_Union
    <2>3. m <= Cardinality(lost \cup flight)
      BY <2>1, <2>2, FS_Subset
    <2>4. Cardinality(lost \cap flight) \in Nat
      <3>1. IsFiniteSet(lost \cap flight)
        BY <1>1, FS_Subset
      <3>. QED
        BY <3>1, FS_CardinalityType
    <2>. DEFINE x == Cardinality(lost \cap flight)
                y == Cardinality(lost \cup flight)
    <2>5. y = a + k - x /\ m <= y /\ x \in Nat
      BY <2>2, <2>3, <2>4
    <2>. HIDE DEF x, y, a, k, m
    <2>. QED
      BY <1>1, <2>5
  <1>3. /\ jobCrashes \in Nat /\ c \in Nat
        /\ (jobCrashes + 1) * Async!MaxInFlight = c + Async!MaxInFlight
    <2>1. jobCrashes \in Nat
      BY AsyncConstants DEF AsyncInv, AsyncTypes
    <2>. QED
      BY <2>1, AsyncProducts
  <1>4. m <= (jobCrashes + 1) * Async!MaxInFlight
    <2>. DEFINE e == (jobCrashes + 1) * Async!MaxInFlight
    <2>1. e = c + Async!MaxInFlight /\ Async!MaxInFlight \in Nat
      BY <1>3, AsyncConstants
    <2>. HIDE DEF a, k, m, c, e
    <2>2. m <= e
      BY <1>1, <1>2, <1>3, <2>1
    <2>. QED
      BY <2>2 DEF e
  <1>5. AsyncDeaths = jobCrashes + 1 /\ weights \subseteq 0..(jobPos - 1)
    BY DEF AsyncDeaths, AsyncInv, AsyncSamples
  <1>. QED
    BY <1>1, <1>4, <1>5 DEF AsyncGoes

LEMMA AsyncSaveData ==
  ASSUME AsyncInv, Async!SaveData
  PROVE  AsyncInv'
  <1>1. /\ asyncPhase = "data" /\ asyncPhase' = "open" /\ data' = [data EXCEPT ![jobStep] = jobPos]
        /\ UNCHANGED <<part, epoch, jobStep, lastVersion, ending, weights, saved, jobPos, end,
                       fed, feeding, flight, got, shards, tracker, jobCrashes>>
    BY DEF Async!SaveData, Async!rollouter
  <1>2. jobStep \in Async!Version /\ tracker # jobStep /\ DOMAIN data = Async!Version
       /\ AsyncGoes(weights, jobPos)
    BY <1>1, AsyncVersion, AsyncHeld DEF AsyncSaving, AsyncInv, AsyncTypes
  <1>3. DOMAIN data' = Async!Version /\ data'[jobStep] = jobPos
        /\ \A v \in Async!Version : v # jobStep => data'[v] = data[v]
    BY <1>1, <1>2
  <1>4. AsyncDeaths' = AsyncDeaths
    BY <1>1 DEF AsyncDeaths
  <1>5. AsyncTypes'
    BY <1>1, <1>3 DEF AsyncInv, AsyncTypes, AsyncSaving
  <1>6. AsyncSamples' /\ AsyncSteps' /\ AsyncOrder'
    BY <1>1 DEF AsyncInv, AsyncSamples, AsyncLost, AsyncSteps, AsyncOrder, AsyncSaving
  <1>7. AsyncNamed'
    BY <1>1, <1>2, <1>3, <1>4 DEF AsyncInv, AsyncNamed, AsyncGoes, AsyncLost
  <1>9. AsyncProgress' /\ AsyncRetention'
    BY <1>1, <1>2, <1>3, <1>4
    DEF AsyncInv, AsyncProgress, AsyncRetention, AsyncRegistered, AsyncOlder, AsyncGoes, AsyncLost
  <1>10. AsyncRoom'
    BY <1>1, AsyncRoomKept
  <1>. QED
    BY <1>5, <1>6, <1>7, <1>9, <1>10 DEF AsyncInv

LEMMA AsyncOpenTracker ==
  ASSUME AsyncInv, Async!OpenTracker
  PROVE  AsyncInv'
  <1>1. /\ asyncPhase = "open" /\ asyncPhase' = "write" /\ tracker' = Async!Cut
        /\ UNCHANGED <<part, epoch, jobStep, lastVersion, ending, weights, saved, jobPos, end,
                       fed, feeding, flight, got, shards, data, jobCrashes>>
    BY DEF Async!OpenTracker, Async!rollouter
  <1>2. Async!Cut \notin Async!Version
    BY AsyncConstants DEF Async!Cut, Async!Version, Async!MaxVersion
  <1>3. AsyncDeaths' = AsyncDeaths
    BY <1>1 DEF AsyncDeaths
  <1>4. AsyncTypes'
    BY <1>1 DEF AsyncInv, AsyncTypes, AsyncSaving
  <1>5. AsyncSamples' /\ AsyncSteps' /\ AsyncOrder' /\ AsyncNamed'
    BY <1>1, <1>2
    DEF AsyncInv, AsyncSamples, AsyncLost, AsyncSteps, AsyncOrder, AsyncSaving, AsyncNamed
  <1>6. AsyncProgress' /\ AsyncRetention'
    BY <1>1, <1>3
    DEF AsyncInv, AsyncProgress, AsyncRetention, AsyncRegistered, AsyncOlder, AsyncGoes, AsyncLost
  <1>7. AsyncRoom'
    BY <1>1, AsyncRoomKept
  <1>. QED
    BY <1>4, <1>5, <1>6, <1>7 DEF AsyncInv

LEMMA AsyncWriteTracker ==
  ASSUME AsyncInv, Async!WriteTracker
  PROVE  AsyncInv'
  <1>1. /\ asyncPhase = "write" /\ tracker' = jobStep /\ lastVersion' = jobStep
        /\ asyncPhase' = IF ending THEN "done" ELSE "train"
        /\ UNCHANGED <<part, epoch, jobStep, ending, weights, saved, jobPos, end, fed, feeding,
                       flight, got, shards, data, jobCrashes>>
    BY DEF Async!WriteTracker, Async!rollouter
  <1>2. /\ jobStep \in Async!Version /\ jobStep \in Nat /\ lastVersion < jobStep
        /\ lastVersion \in Nat
        /\ asyncPhase' \in {"done", "train"} /\ part = "actor"
    BY <1>1, AsyncVersion DEF AsyncSaving, AsyncInv, AsyncTypes, Async!Dir
  <1>3. AsyncDeaths' = AsyncDeaths
    BY <1>1, <1>2 DEF AsyncDeaths
  <1>4. \A d \in Async!Dir : AsyncRegistered(d) /\ ~AsyncRegistered(d)'
    BY <1>1, <1>2 DEF AsyncRegistered
  <1>5. AsyncTypes'
    <2>1. lastVersion' \in 0..jobStep' /\ tracker' \in {Async!NoFile, Async!Cut} \cup Async!Version
      BY <1>1, <1>2
    <2>. QED
      BY <1>1, <1>2, <2>1 DEF AsyncInv, AsyncTypes, AsyncSaving
  <1>6. AsyncSamples' /\ AsyncSteps' /\ AsyncOrder'
    BY <1>1, <1>2 DEF AsyncInv, AsyncSamples, AsyncLost, AsyncSteps, AsyncOrder, AsyncSaving
  <1>7. AsyncNamed'
    BY <1>1, <1>3, <1>4 DEF AsyncInv, AsyncProgress, AsyncNamed, AsyncGoes, AsyncLost, Async!Dir
  <1>8. AsyncProgress'
    BY <1>2, <1>4 DEF AsyncProgress
  <1>9. AsyncRetention'
    <2>1. ASSUME NEW d \in Async!Dir, NEW i \in 1..AsyncOlder(d)'
          PROVE  saved'[d][i] <= lastVersion' /\ (i < AsyncOlder(d)' => saved'[d][i] < lastVersion')
      <3>. DEFINE m == Len(saved[d])
      <3>1. /\ saved[d] \in Seq(Async!Version) /\ m \in Nat /\ AsyncOlder(d)' = m
            /\ AsyncOlder(d) = m - 1
            /\ m >= 1 /\ saved[d][m] = jobStep
        BY <1>1, <1>4 DEF AsyncInv, AsyncTypes, AsyncOlder, AsyncProgress
      <3>2. saved[d][i] \in Async!Version
        BY <2>1, <3>1
      <3>. HIDE DEF m
      <3>3. i \in 1..m
        BY <2>1, <3>1
      <3>4. CASE i = m
        BY <1>1, <1>2, <2>1, <3>1, <3>4
      <3>5. CASE i # m
        <4>1. i \in 1..AsyncOlder(d)
          BY <3>1, <3>3, <3>5
        <4>2. saved[d][i] <= lastVersion
          BY <4>1 DEF AsyncInv, AsyncRetention
        <4>3. saved[d][i] \in Nat
          BY <3>2, AsyncConstants DEF Async!Version, Async!MaxVersion
        <4>. QED
          BY <1>1, <1>2, <4>2, <4>3
      <3>. QED
        BY <3>4, <3>5
    <2>2. asyncPhase' # "save"
      BY <1>2
    <2>. QED
      BY <2>1, <2>2 DEF AsyncRetention
  <1>10. AsyncRoom'
    BY <1>1, AsyncRoomKept
  <1>. QED
    BY <1>5, <1>6, <1>7, <1>8, <1>9, <1>10 DEF AsyncInv

LEMMA AsyncCrash ==
  ASSUME AsyncInv, Async!Crash
  PROVE  AsyncInv'
  <1>1. /\ asyncPhase # "down" /\ asyncPhase' = "down" /\ part' = "actor" /\ epoch' = 1
        /\ jobStep' = 0
        /\ lastVersion' = 0 /\ ending' = FALSE /\ weights' = {}
        /\ saved' = [d \in Async!Dir |-> <<>>]
        /\ jobPos' = 0 /\ end' = 0 /\ fed' = 1 /\ feeding' = FALSE /\ flight' = {}
        /\ got' = 0
        /\ jobCrashes < AsyncCrashes /\ jobCrashes' = jobCrashes + 1
        /\ UNCHANGED <<shards, data, tracker>>
    BY DEF Async!Crash, Async!disk
  <1>2. jobCrashes \in Nat /\ jobCrashes' \in 0..AsyncCrashes /\ jobCrashes' \in Nat
    BY <1>1, AsyncConstants DEF AsyncInv, AsyncTypes
  <1>3. AsyncDeaths = jobCrashes + 1 /\ AsyncDeaths' = AsyncDeaths
    BY <1>1 DEF AsyncDeaths
  <1>4. AsyncTypes'
    <2>1. saved' \in [Async!Dir -> Seq(Async!Version)] /\ part' \in Async!Dir /\ part' # "critic"
      BY <1>1 DEF Async!Dir
    <2>2. /\ epoch' \in 1..Trigger /\ jobStep' \in Nat /\ lastVersion' \in 0..jobStep'
          /\ jobPos' \in Nat /\ end' \in Nat /\ jobPos' <= end'
      BY <1>1, AsyncConstants
    <2>. QED
      BY <1>1, <1>2, <2>1, <2>2 DEF AsyncInv, AsyncTypes
  <1>5. AsyncSamples'
    <2>1. 0..(0 - 1) = {} /\ Cardinality({}) = 0
      BY FS_EmptySet
    <2>2. Cardinality(AsyncLost(0, {})) = 0
      BY <2>1 DEF AsyncLost
    <2>3. jobCrashes' * Async!MaxInFlight \in Nat
      BY <1>2, AsyncProducts
    <2>4. /\ Cardinality(AsyncLost(0, {})) <= jobCrashes' * Async!MaxInFlight
          /\ Cardinality({}) <= Async!MaxInFlight
      BY <2>1, <2>2, <2>3, AsyncConstants
    <2>. QED
      BY <1>1, <2>4 DEF AsyncSamples, AsyncLost
  <1>6. AsyncSteps'
    <2>1. Cardinality(flight') = 0 /\ jobStep' * Trigger = 0
      BY <1>1, FS_EmptySet, AsyncProducts
    <2>2. fed' \in 1..(Async!Total + jobCrashes')
      BY <1>1, <1>2, AsyncConstants
    <2>3. jobStep' * Trigger + (epoch' - 1) + Cardinality(flight') <= Async!Total + jobCrashes'
      BY <1>1, <1>2, <2>1, AsyncConstants
    <2>. QED
      BY <1>1, <2>2, <2>3 DEF AsyncSteps
  <1>7. AsyncOrder'
    <2>1. ASSUME tracker \in Async!Version PROVE tracker * Trigger + 1 <= Async!Total + jobCrashes'
      <3>. DEFINE t == tracker * Trigger
                  b == jobStep * Trigger
                  k == Cardinality(flight)
      <3>1. tracker = lastVersion /\ tracker \in Nat /\ jobStep \in Nat /\ tracker <= jobStep
        BY <1>1, <2>1 DEF AsyncInv, AsyncOrder, AsyncTypes
      <3>2. t \in Nat /\ b \in Nat /\ t <= b
        BY <3>1, AsyncProducts
      <3>3. b + (epoch - 1) + k <= Async!Total + jobCrashes /\ epoch \in Nat /\ epoch >= 1
           /\ k \in Nat
        BY FlightFinite, AsyncConstants DEF AsyncInv, AsyncTypes, AsyncSteps
      <3>4. Async!Total \in Nat
        BY AsyncConstants
      <3>. HIDE DEF t, b, k
      <3>5. t + 1 <= Async!Total + jobCrashes'
        BY <1>1, <1>2, <3>2, <3>3, <3>4
      <3>. QED
        BY <3>5 DEF t
    <2>. QED
      BY <1>1, <2>1 DEF AsyncOrder, AsyncSaving
  <1>8. AsyncNamed'
    BY <1>1, <1>3 DEF AsyncInv, AsyncNamed, AsyncGoes, AsyncLost
  <1>9. AsyncProgress' /\ AsyncRetention'
    BY <1>1 DEF AsyncProgress, AsyncRetention, AsyncRegistered, AsyncOlder
  <1>10. AsyncRoom'
    <2>1. Async!TakenUp' = {}
      BY <1>1 DEF Async!TakenUp
    <2>2. Cardinality(Async!TakenUp') = 0
      BY <2>1, FS_EmptySet
    <2>. QED
      BY <1>1, <2>2, AsyncConstants DEF AsyncRoom
  <1>. QED
    BY <1>4, <1>5, <1>6, <1>7, <1>8, <1>9, <1>10 DEF AsyncInv

LEMMA AsyncStutter ==
  ASSUME AsyncInv, UNCHANGED Async!vars
  PROVE  AsyncInv'
  <1>1. UNCHANGED <<asyncPhase, part, epoch, jobStep, lastVersion, ending, weights, saved, jobPos,
                    end, fed, feeding, flight, got, shards, data, tracker, jobCrashes>>
    BY DEF Async!vars, Async!trainer, Async!rollouter, Async!disk
  <1>. QED
    BY <1>1
    DEF AsyncInv, AsyncTypes, AsyncSaving, AsyncSamples, AsyncLost, AsyncSteps, AsyncOrder,
        AsyncNamed, AsyncGoes, AsyncDeaths, AsyncProgress, AsyncRetention, AsyncRegistered,
        AsyncOlder, AsyncRoom, Async!TakenUp

LEMMA AsyncTakesStep ==
  ASSUME AsyncInv, Async!Next, Keep # 1
  PROVE  AsyncInv'
  BY AsyncStart, AsyncTrain, AsyncStop, AsyncCapacity, AsyncSaveDir, AsyncSaveData,
     AsyncOpenTracker, AsyncWriteTracker, AsyncFeed, AsyncFeedExhausted, AsyncTake,
     AsyncCrash
  DEF Async!Next, Async!TrainerStep, Async!RollouterStep

LEMMA AsyncTypeOK == AsyncInv => Async!TypeOK
  <1>. SUFFICES ASSUME AsyncInv PROVE Async!TypeOK
    OBVIOUS
  <1>1. jobStep \in 0..Async!MaxVersion
    <2>. DEFINE b == jobStep * Trigger
                k == Cardinality(flight)
    <2>1. /\ b \in Nat /\ b + (epoch - 1) + k <= Async!Total + jobCrashes /\ jobStep \in Nat
          /\ epoch \in Nat /\ epoch >= 1 /\ jobCrashes \in Nat /\ jobCrashes <= AsyncCrashes
          /\ Async!Total \in Nat /\ AsyncCrashes \in Nat
      <3>1. /\ jobStep \in Nat /\ epoch \in 1..Trigger /\ jobCrashes \in 0..AsyncCrashes
            /\ b + (epoch - 1) + k <= Async!Total + jobCrashes
        BY DEF AsyncInv, AsyncTypes, AsyncSteps
      <3>2. b \in Nat
        BY <3>1, AsyncProducts
      <3>. HIDE DEF b, k
      <3>. QED
        BY <3>1, <3>2, AsyncConstants
    <2>2. k \in Nat
      BY FlightFinite DEF AsyncInv
    <2>. HIDE DEF b, k
    <2>3. b <= Async!Total + AsyncCrashes
      BY <2>1, <2>2
    <2>4. jobStep <= Async!MaxVersion
      BY <2>1, <2>3, AsyncProducts DEF b
    <2>5. Async!MaxVersion \in Int
      BY AsyncConstants DEF Async!MaxVersion
    <2>. QED
      BY <2>1, <2>4, <2>5
  <1>2. fed \in 1..(Async!Total + AsyncCrashes)
    BY AsyncConstants DEF AsyncInv, AsyncTypes, AsyncSteps
  <1>3. jobPos \in 0..end /\ flight \subseteq 0..jobPos /\ got \in 0..jobPos
    BY DEF AsyncInv, AsyncTypes, AsyncSamples, AsyncRoom
  <1>4. \A d \in Async!Dir : \A i \in DOMAIN saved[d] : saved[d][i] \in Async!Version
    BY DEF AsyncInv, AsyncTypes
  <1>. QED
    BY <1>1, <1>2, <1>3, <1>4 DEF AsyncInv, AsyncTypes, AsyncSaving, Async!TypeOK

LEMMA AsyncResumable == AsyncInv => Async!Resumable
  <1>. SUFFICES ASSUME AsyncInv, tracker \in Async!Version
                PROVE  /\ shards["actor"][tracker] = shards["critic"][tracker]
                       /\ shards["actor"][tracker] \notin {Async!Missing, Async!Partial}
                       /\ \A s \in shards["actor"][tracker] : s < data[tracker]
    BY DEF Async!Resumable
  <1>1. /\ shards["actor"][tracker] = shards["critic"][tracker]
        /\ data[tracker] \in Nat /\ shards["actor"][tracker] \subseteq 0..(data[tracker] - 1)
    BY DEF AsyncInv, AsyncNamed, AsyncGoes
  <1>2. \A w : w \subseteq 0..(data[tracker] - 1) => w # Async!Missing /\ w # Async!Partial
    <2>1. -1 \notin 0..(data[tracker] - 1) /\ -2 \notin 0..(data[tracker] - 1)
      BY <1>1
    <2>. QED
      BY <2>1 DEF Async!Missing, Async!Partial
  <1>. QED
    BY <1>1, <1>2

LEMMA AsyncNoSampleTwice == AsyncInv => Async!NoSampleTwice
  BY DEF AsyncInv, AsyncTypes, AsyncSamples, Async!NoSampleTwice

LEMMA AsyncLossBounded == AsyncInv => Async!LossBounded
  BY SameCount, Zenon DEF AsyncInv, AsyncSamples, AsyncLost, Async!LossBounded

-----------------------------------------------------------------------------
(* The five jobs.                                                          *)

RestartInv ==
  /\ job \in {"oneStep", "sync", "sft", "sftRanks", "async"}
  /\ job = "sync" => SyncInv
  /\ job = "sft" => SftInv(1)
  /\ job = "sftRanks" => SftInv(NumRanks)
  /\ job = "async" => AsyncInv

OnceInv == job = "sft" => SftOnce(1)

LEMMA RestartInitially == MCInit => RestartInv /\ OnceInv
  BY SyncInitially, SftInitially, SftOnceInitially, AsyncInitially
  DEF MCInit, RestartInv, OnceInv, RankCounts

\* A step of the behaviours of one job is a step of that job, and leaves the variables of the
\* others alone.
LEMMA RestartStep ==
  ASSUME RestartInv, [MCNext]_<<job, vars, jobVars>>, Keep # 1
  PROVE  RestartInv'
  <1>1. job' = job
    BY DEF MCNext
  <1>2. CASE UNCHANGED <<job, vars, jobVars>>
    <2>1. /\ UNCHANGED Sync!vars /\ UNCHANGED Async!vars
          /\ \A R \in RankCounts : UNCHANGED Sft(R)!vars
      BY <1>2
      DEF jobVars, asyncVars, onlyAsync, common, Sync!vars, Sync!memory, Sync!disk, Sft!vars,
          Sft!disk, Async!vars, Async!trainer, Async!rollouter, Async!disk
    <2>. QED
      BY <1>1, <2>1, SyncStutter, SftStutter, AsyncStutter DEF RestartInv, RankCounts
  <1>3. CASE job = "oneStep"
    BY <1>1, <1>3 DEF RestartInv
  <1>4. CASE job = "sync" /\ MCNext
    BY <1>1, <1>4, SyncStep DEF RestartInv, MCNext
  <1>5. CASE job = "sft" /\ MCNext
    BY <1>1, <1>5, SftStep DEF RestartInv, MCNext, RankCounts
  <1>6. CASE job = "sftRanks" /\ MCNext
    BY <1>1, <1>6, SftStep DEF RestartInv, MCNext, RankCounts
  <1>7. CASE job = "async" /\ MCNext
    BY <1>1, <1>7, AsyncTakesStep DEF RestartInv, MCNext
  <1>. QED
    BY <1>2, <1>3, <1>4, <1>5, <1>6, <1>7 DEF RestartInv

LEMMA OnceStep ==
  ASSUME RestartInv, OnceInv, [MCNext]_<<job, vars, jobVars>>, NoneAtEnd
  PROVE  OnceInv'
  <1>1. job' = job
    BY DEF MCNext
  <1>2. 1 \in RankCounts
    BY DEF RankCounts
  <1>3. CASE UNCHANGED <<job, vars, jobVars>>
    <2>1. UNCHANGED Sft(1)!vars
      BY <1>3 DEF jobVars, asyncVars, onlyAsync, common, Sft!vars, Sft!disk
    <2>. QED
      BY <1>1, <1>2, <2>1, SftOnceStutter DEF OnceInv
  <1>4. CASE job = "sft" /\ MCNext
    BY <1>1, <1>2, <1>4, SftOnceStep DEF RestartInv, OnceInv, MCNext
  <1>. QED
    BY <1>1, <1>3, <1>4 DEF OnceInv

LEMMA RestartInductive == ASSUME Keep # 1 PROVE MCSpec => []RestartInv
  BY RestartInitially, RestartStep, PTL DEF MCSpec

\* Whatever the job, OneStepOff's variables behave as it says.
LEMMA OneStepWithin == MCSpec => Init /\ [][Next]_vars
  <1>1. MCInit => Init
    BY DEF MCInit
  <1>2. [MCNext]_<<job, vars, jobVars>> => [Next]_vars
    BY DEF MCNext
  <1>. QED
    BY <1>1, <1>2, PTL DEF MCSpec

\* Whenever a job dies, the version that its tracker file names is whole on the disk, all of one
\* save, if the job keeps more than one checkpoint: with max_ckpt_to_keep = 1 the old one is
\* removed before the new one is named.
THEOREM AlwaysResumable == ASSUME Keep # 1 PROVE MCSpec => []Resumable
  <1>1. RestartInv => Resumable
    BY SyncTypeOK, SyncResumable, SftTypeOK, SftResumable, AsyncTypeOK, AsyncResumable
    DEF RestartInv, Resumable, RankCounts
  <1>. QED
    BY <1>1, RestartInductive, PTL

\* However often the job died, the synchronous and the supervised one have trained on every batch
\* of every epoch so far, once and in order, and the asynchronous one on no sample twice.  The
\* supervised one must not save at the end of an epoch but the last.
THEOREM TrainedOnce == ASSUME Keep # 1, NoneAtEnd PROVE MCSpec => []EachBatchOnce
  <1>1. RestartInv /\ OnceInv => EachBatchOnce
    BY SyncEachOnce, SftEachOnce, AsyncNoSampleTwice
    DEF RestartInv, OnceInv, EachBatchOnce, RankCounts
  <1>2. RestartInv /\ OnceInv /\ [MCNext]_<<job, vars, jobVars>> => (RestartInv /\ OnceInv)'
    BY RestartStep, OnceStep
  <1>. QED
    BY <1>1, <1>2, RestartInitially, PTL DEF MCSpec

\* Each death costs the asynchronous job at most what may be fed ahead of training: pending_queue, the
\* item the feeder holds, and what the staleness control lets the rollouter take up; the one step off
\* job loses at most one batch, if it dies once.
THEOREM BoundedLoss == ASSUME Keep # 1, MaxCrashes <= 1 PROVE MCSpec => []LossBounded
  <1>1. MCSpec => []FewInv
    <2>1. Init => FewInv
      BY FewInitially
    <2>2. FewInv /\ [Next]_vars => FewInv'
      BY FewStep
    <2>. QED
      BY <2>1, <2>2, OneStepWithin, PTL
  <1>2. RestartInv /\ FewInv => LossBounded
    <2>1. FewInv => crashes <= 1
      BY OneStepAssumption DEF FewInv, OneStepInv, Types
    <2>. QED
      BY <2>1, OnceAhead, AsyncLossBounded DEF RestartInv, LossBounded
  <1>. QED
    BY <1>1, <1>2, RestartInductive, PTL
=============================================================================
