-------------------------- MODULE FullyAsyncProofs --------------------------
(***************************************************************************)
(* Theorems about FullyAsync, for every value of its constants.            *)
(***************************************************************************)
EXTENDS FullyAsync, FiniteSetTheorems, SequenceTheorems, TLAPS

\* The budget of the rollouter is at least one sample.
LEMMA MaxRequiredPos == MaxRequired \in Nat /\ MaxRequired >= 1
  <1>. DEFINE sum == StaleNum + StaleDen
              prod == (Required * sum) * Trigger
  <1>1. \A x \in Nat, y \in Nat \ {0} : x * y \in Nat /\ x * y >= x /\ y * x \in Nat /\ y * x >= x
    BY Z3
  <1>2. sum \in Nat /\ sum >= StaleDen
    BY ConstantsAssumption
  <1>3. Required * sum \in Nat /\ Required * sum >= sum
    BY <1>1, <1>2, ConstantsAssumption
  <1>4. prod \in Nat /\ prod >= Required * sum
    BY <1>1, <1>3, ConstantsAssumption
  <1>5. prod \in Nat /\ prod >= StaleDen
    BY <1>2, <1>3, <1>4, ConstantsAssumption
  <1>6. \A x \in Nat, y \in Nat \ {0} : x >= y => x \div y \in Nat /\ x \div y >= 1
    BY Z3
  <1>7. MaxRequired = prod \div StaleDen
    BY DEF MaxRequired
  <1>. HIDE DEF prod
  <1>. QED
    BY <1>5, <1>6, <1>7, ConstantsAssumption

\* put_sample keeps the entries well formed and lengthens the queue by at most one.
LEMMA PutEntry ==
  ASSUME queue \in Seq(Entry), NEW x \in Entry, MQ!Put(x),
         produced \in Nat, dropped \in Nat
  PROVE  /\ queue' \in Seq(Entry)
         /\ Len(queue') = IF MQ!Full THEN Len(queue) ELSE Len(queue) + 1
         /\ produced' \in Nat /\ dropped' \in Nat
         /\ UNCHANGED <<consumed, cleared>>
  <1>1. CASE MQ!Full
    <2>1. Len(queue) >= 1
      BY <1>1, MaxRequiredPos DEF MQ!Full
    <2>2. Tail(queue) \in Seq(Entry) /\ Len(Tail(queue)) = Len(queue) - 1
      BY <2>1
    <2>. QED
      BY <1>1, <2>2 DEF MQ!Put
  <1>2. CASE ~MQ!Full
    BY <1>2 DEF MQ!Put
  <1>. QED
    BY <1>1, <1>2

\* get_sample takes the head and leaves a shorter queue of entries.
LEMMA GetEntry ==
  ASSUME queue \in Seq(Entry), queue # <<>>, NEW x, MQ!Get(x), consumed \in Nat
  PROVE  /\ x = Head(queue) /\ x \in Entry
         /\ queue' \in Seq(Entry)
         /\ Len(queue') = Len(queue) - 1
         /\ consumed' \in Nat
         /\ UNCHANGED <<produced, dropped, cleared>>
  BY DEF MQ!Get

LEMMA TypeInit == Init => TypeOK
  <1>. SUFFICES ASSUME Init PROVE TypeOK
    OBVIOUS
  <1>. USE DEF Init, MQ!QInit
  <1>1. /\ queue \in Seq(Entry) /\ batch \in Seq(SampleEntry)
        /\ produced \in Nat /\ consumed \in Nat /\ dropped \in Nat /\ cleared \in Nat
    OBVIOUS
  <1>2. fed \in 0..(Total + 1) /\ got \in 0..(Total + 1) /\ local \in 1..Trigger
    BY ConstantsAssumption
  <1>3. task \in [Sample -> TaskState]
    BY DEF TaskState
  <1>4. ppc \in ProcState
    BY DEF ProcState
  <1>. QED
    BY <1>1, <1>2, <1>3, <1>4 DEF TypeOK, ResetState

LEMMA ActiveFinite == IsFiniteSet(Active) /\ Cardinality(Active) \in Nat
  <1>1. IsFiniteSet(Sample)
    BY FS_Interval, ConstantsAssumption DEF Sample
  <1>2. IsFiniteSet(Active)
    BY <1>1, FS_Subset DEF Active
  <1>. QED
    BY <1>2, FS_CardinalityType

LEMMA BatchSamplesType == batch \in Seq(SampleEntry) => BatchSamples \subseteq Sample
  <1>. SUFFICES ASSUME batch \in Seq(SampleEntry), NEW i \in DOMAIN batch
                PROVE  batch[i].sample \in Sample
    BY DEF BatchSamples
  <1>1. batch[i] \in SampleEntry
    BY ElementOfSeq
  <1>. QED
    BY <1>1 DEF SampleEntry

\* Harvesting and submitting change task states only.
LEMMA ReapedType ==
  ASSUME task \in [Sample -> TaskState], NEW D
  PROVE  Reaped(D) \in [Sample -> TaskState]
  BY DEF Reaped, TaskState

LEMMA SubmittedType ==
  ASSUME NEW t \in [Sample -> TaskState], NEW s
  PROVE  Submitted(t, s) \in [Sample -> TaskState]
  BY DEF Submitted, TaskState

\* Every action keeps the types.
LEMMA TypeStep == TypeOK /\ [Next]_vars => TypeOK'
  <1>. SUFFICES ASSUME TypeOK, [Next]_vars PROVE TypeOK'
    OBVIOUS
  <1>. USE DEF TypeOK, ResetState, ResetHeld, queueVars, taskVars, flowVars, procVars, monVars,
        mainVars, resetVars, trainVars
  <1>1. CASE Feed
    BY <1>1, ConstantsAssumption DEF Feed
  <1>2. CASE ProcAsk
    BY <1>2 DEF ProcAsk, ProcState
  <1>3. CASE ProcPause
    <2>1. paused' \in BOOLEAN /\ resume' \in BOOLEAN
      BY <1>3, Zenon DEF ProcPause, PauseFlags
    <2>2. ppc' \in ProcState
      BY <1>3 DEF ProcPause, ProcState, LockWait
    <2>. QED
      BY <1>3, <2>1, <2>2 DEF ProcPause
  <1>4. CASE DrainHarvest
    <2>1. \/ UNCHANGED task /\ ppc' = "harvest"
          \/ \E D \in SUBSET Finished : ReapDrained(D)
      BY <1>4 DEF DrainHarvest
    <2>2. task' \in [Sample -> TaskState] /\ ppc' \in ProcState
      BY <2>1, ReapedType DEF ReapDrained, ProcState, LockWait
    <2>. QED
      BY <1>4, <2>2 DEF DrainHarvest
  <1>5. CASE DrainExit
    BY <1>5 DEF DrainExit, ProcState
  <1>6. CASE ProcWaitItem
    BY <1>6 DEF ProcWaitItem, ProcState, LockWait
  <1>7. CASE TakeSample
    BY <1>7, SubmittedType, ConstantsAssumption
       DEF TakeSample, AtLimit, HoldOrWait, ProcState, LockWait, LockHeld, ReadyToTake
  <1>8. CASE TakeEnd
    BY <1>8, ConstantsAssumption DEF TakeEnd, HoldOrWait, ProcState, LockWait, LockHeld, ReadyToTake
  <1>9. CASE ProcGranted
    BY <1>9, SubmittedType DEF ProcGranted, ProcState, LockHeld
  <1>10. CASE LimitHarvest
    BY <1>10, ReapedType, SubmittedType DEF LimitHarvest, ProcState, LockWait
  <1>11. CASE EndHarvest
    BY <1>11, ReapedType DEF EndHarvest, ProcState, LockWait, LockHeld
  <1>12. CASE MainSignal
    <2>1. None \in Entry /\ MQ!Put(None)
      BY <1>12 DEF MainSignal, ProcessorOver, Entry
    <2>2. /\ queue' \in Seq(Entry) /\ produced' \in Nat /\ dropped' \in Nat
          /\ UNCHANGED <<consumed, cleared>>
      BY <2>1, PutEntry
    <2>. QED
      BY <1>12, <2>2 DEF MainSignal, ProcessorOver
  <1>13. CASE MainStop
    BY <1>13 DEF MainStop
  <1>14. CASE MonAsk
    BY <1>14 DEF MonAsk
  <1>15. CASE MonDecide
    <2>1. paused' \in BOOLEAN /\ resume' \in BOOLEAN
      BY <1>15, Zenon DEF MonDecide, ResumeFlags
    <2>2. mon' \in {"sleep", "decide", "want"}
      BY <1>15 DEF MonDecide
    <2>. QED
      BY <1>15, <2>1, <2>2 DEF MonDecide
  <1>16. CASE MonResume
    BY <1>16 DEF MonResume, ResumeFlags
  <1>17. CASE ResetCall
    BY <1>17, ActiveFinite DEF ResetCall, ResetLocked, ResumeFlags, Active
  <1>18. CASE ResetGranted
    BY <1>18, ActiveFinite DEF ResetGranted, ResetLocked, ResumeFlags, Active
  <1>19. CASE ResetFinish
    BY <1>19 DEF ResetFinish, Recount
  <1>20. CASE Collect
    <2>1. MQ!Get(Head(queue)) /\ queue # <<>>
      BY <1>20 DEF Collect
    <2>2. /\ Head(queue) \in SampleEntry
          /\ queue' \in Seq(Entry) /\ consumed' \in Nat
          /\ UNCHANGED <<produced, dropped, cleared>>
      BY <2>1, <1>20, GetEntry DEF Collect, Entry
    <2>. QED
      BY <1>20, <2>2 DEF Collect
  <1>21. CASE CollectNone
    <2>1. MQ!Get(None) /\ queue # <<>>
      BY <1>21 DEF CollectNone
    <2>2. /\ queue' \in Seq(Entry) /\ consumed' \in Nat
          /\ UNCHANGED <<produced, dropped, cleared>>
      BY <2>1, GetEntry
    <2>. QED
      BY <1>21, <2>2, BatchSamplesType DEF CollectNone
  <1>22. CASE TrainStep
    BY <1>22, BatchSamplesType, ConstantsAssumption DEF TrainStep, VersionComplete
  <1>23. CASE Stop
    BY <1>23 DEF Stop
  <1>24. ASSUME NEW s \in Sample, Store(s) PROVE TypeOK'
    <2>1. [sample |-> s, at |-> version] \in Entry /\ MQ!Put([sample |-> s, at |-> version])
      BY <1>24 DEF Store, Entry, SampleEntry
    <2>2. /\ queue' \in Seq(Entry) /\ produced' \in Nat /\ dropped' \in Nat
          /\ UNCHANGED <<consumed, cleared>>
      BY <2>1, PutEntry
    <2>. QED
      BY <1>24, <2>2 DEF Store, TaskState
  <1>25. ASSUME NEW s \in Sample, Reply(s) PROVE TypeOK'
    BY <1>25 DEF Reply, TaskState
  <1>26. ASSUME NEW s \in Sample, Fail(s) PROVE TypeOK'
    BY <1>26 DEF Fail, TaskState
  <1>27. ASSUME NEW expiring \in BOOLEAN, Save(expiring) PROVE TypeOK'
    BY <1>27 DEF Save
  <1>28. CASE UNCHANGED vars
    BY <1>28 DEF vars
  <1>29. CASE ResetAsk
    BY <1>29 DEF ResetAsk
  <1>. QED
    BY <1>1, <1>2, <1>3, <1>4, <1>5, <1>6, <1>7, <1>8, <1>9, <1>10, <1>11, <1>12, <1>13,
       <1>14, <1>15, <1>16, <1>17, <1>18, <1>19, <1>20, <1>21, <1>22, <1>23, <1>24, <1>25,
       <1>26, <1>27, <1>28, <1>29
       DEF Next, Processor, Monitor, Reset, Trainer

\* Every variable keeps its type, with any constants.
THEOREM TypeCorrect == Spec => []TypeOK
  BY TypeInit, TypeStep, PTL DEF Spec

LEMMA LockStep == TypeOK /\ LockOK /\ [Next]_vars => LockOK'
  <1>. SUFFICES ASSUME TypeOK, LockOK, [Next]_vars PROVE LockOK'
    OBVIOUS
  <1>. USE DEF LockOK, LockHeld, ResetHeld, queueVars, taskVars, flowVars, procVars, monVars,
        mainVars, resetVars, trainVars
  <1>1. CASE Feed
    BY <1>1 DEF Feed
  <1>2. CASE ProcAsk
    BY <1>2 DEF ProcAsk
  <1>3. CASE ProcPause
    BY <1>3 DEF ProcPause, PauseFlags
  <1>4. CASE DrainHarvest
    BY <1>4 DEF DrainHarvest, ReapDrained
  <1>5. CASE DrainExit
    BY <1>5 DEF DrainExit
  <1>6. CASE ProcWaitItem
    BY <1>6 DEF ProcWaitItem
  <1>7. CASE TakeSample
    BY <1>7 DEF TakeSample, AtLimit, HoldOrWait, ReadyToTake, CanLock
  <1>8. CASE TakeEnd
    BY <1>8 DEF TakeEnd, HoldOrWait, ReadyToTake, CanLock
  <1>9. CASE ProcGranted
    BY <1>9 DEF ProcGranted
  <1>10. CASE LimitHarvest
    BY <1>10 DEF LimitHarvest
  <1>11. CASE EndHarvest
    BY <1>11 DEF EndHarvest
  <1>12. CASE MainSignal
    BY <1>12 DEF MainSignal, ProcessorOver
  <1>13. CASE MainStop
    BY <1>13 DEF MainStop
  <1>14. CASE MonAsk
    BY <1>14 DEF MonAsk
  <1>15. CASE MonDecide
    BY <1>15 DEF MonDecide, ResumeFlags
  <1>16. CASE MonResume
    BY <1>16 DEF MonResume, ResumeFlags
  <1>17. CASE ResetCall
    BY <1>17 DEF ResetCall, ResetLocked, ResumeFlags, CanLock
  <1>18. CASE ResetGranted
    BY <1>18 DEF ResetGranted, ResetLocked, ResumeFlags
  <1>19. CASE ResetFinish
    BY <1>19 DEF ResetFinish, Recount
  <1>20. CASE Collect
    BY <1>20 DEF Collect
  <1>21. CASE CollectNone
    BY <1>21 DEF CollectNone
  <1>22. CASE TrainStep
    BY <1>22 DEF TrainStep, VersionComplete
  <1>23. CASE Stop
    BY <1>23 DEF Stop
  <1>24. ASSUME NEW s \in Sample, Store(s) PROVE LockOK'
    BY <1>24 DEF Store
  <1>25. ASSUME NEW s \in Sample, Reply(s) PROVE LockOK'
    BY <1>25 DEF Reply
  <1>26. ASSUME NEW s \in Sample, Fail(s) PROVE LockOK'
    BY <1>26 DEF Fail
  <1>27. ASSUME NEW expiring \in BOOLEAN, Save(expiring) PROVE LockOK'
    BY <1>27 DEF Save
  <1>28. CASE UNCHANGED vars
    BY <1>28 DEF vars
  <1>29. CASE ResetAsk
    BY <1>29 DEF ResetAsk
  <1>. QED
    BY <1>1, <1>2, <1>3, <1>4, <1>5, <1>6, <1>7, <1>8, <1>9, <1>10, <1>11, <1>12, <1>13,
       <1>14, <1>15, <1>16, <1>17, <1>18, <1>19, <1>20, <1>21, <1>22, <1>23, <1>24, <1>25,
       <1>26, <1>27, <1>28, <1>29
       DEF Next, Processor, Monitor, Reset, Trainer

\* The lock is kept across an await by one coroutine at most, and by those three awaits only.
THEOREM LockDiscipline == Spec => []LockOK
  <1>1. Init => LockOK
    BY DEF Init, LockOK, LockHeld, ResetHeld
  <1>. QED
    BY <1>1, LockStep, TypeCorrect, PTL DEF Spec

LEMMA PausedStep == TypeOK /\ PausedOnlyInDrain /\ [Next]_vars => PausedOnlyInDrain'
  <1>. SUFFICES ASSUME TypeOK, PausedOnlyInDrain, [Next]_vars PROVE PausedOnlyInDrain'
    OBVIOUS
  <1>. USE DEF TypeOK, PausedOnlyInDrain, queueVars, taskVars, flowVars, procVars, monVars,
        mainVars, resetVars, trainVars
  <1>1. CASE Feed
    BY <1>1 DEF Feed
  <1>2. CASE ProcAsk
    BY <1>2 DEF ProcAsk
  <1>3. CASE ProcPause
    BY <1>3 DEF ProcPause, PauseFlags
  <1>4. CASE DrainHarvest
    BY <1>4 DEF DrainHarvest, ReapDrained
  <1>5. CASE DrainExit
    BY <1>5 DEF DrainExit
  <1>6. CASE ProcWaitItem
    BY <1>6 DEF ProcWaitItem
  <1>7. CASE TakeSample
    BY <1>7 DEF TakeSample, AtLimit, HoldOrWait, ReadyToTake, CanLock
  <1>8. CASE TakeEnd
    BY <1>8 DEF TakeEnd, HoldOrWait, ReadyToTake, CanLock
  <1>9. CASE ProcGranted
    BY <1>9 DEF ProcGranted
  <1>10. CASE LimitHarvest
    BY <1>10 DEF LimitHarvest
  <1>11. CASE EndHarvest
    BY <1>11 DEF EndHarvest
  <1>12. CASE MainSignal
    BY <1>12 DEF MainSignal, ProcessorOver
  <1>13. CASE MainStop
    BY <1>13 DEF MainStop
  <1>14. CASE MonAsk
    BY <1>14 DEF MonAsk
  <1>15. CASE MonDecide
    BY <1>15 DEF MonDecide, ResumeFlags
  <1>16. CASE MonResume
    BY <1>16 DEF MonResume, ResumeFlags
  <1>17. CASE ResetCall
    BY <1>17 DEF ResetCall, ResetLocked, ResumeFlags, CanLock
  <1>18. CASE ResetGranted
    BY <1>18 DEF ResetGranted, ResetLocked, ResumeFlags
  <1>19. CASE ResetFinish
    BY <1>19 DEF ResetFinish, Recount
  <1>20. CASE Collect
    BY <1>20 DEF Collect
  <1>21. CASE CollectNone
    BY <1>21 DEF CollectNone
  <1>22. CASE TrainStep
    BY <1>22 DEF TrainStep, VersionComplete
  <1>23. CASE Stop
    BY <1>23 DEF Stop
  <1>24. ASSUME NEW s \in Sample, Store(s) PROVE PausedOnlyInDrain'
    BY <1>24 DEF Store
  <1>25. ASSUME NEW s \in Sample, Reply(s) PROVE PausedOnlyInDrain'
    BY <1>25 DEF Reply
  <1>26. ASSUME NEW s \in Sample, Fail(s) PROVE PausedOnlyInDrain'
    BY <1>26 DEF Fail
  <1>27. ASSUME NEW expiring \in BOOLEAN, Save(expiring) PROVE PausedOnlyInDrain'
    BY <1>27 DEF Save
  <1>28. CASE UNCHANGED vars
    BY <1>28 DEF vars
  <1>29. CASE ResetAsk
    BY <1>29 DEF ResetAsk
  <1>. QED
    BY <1>1, <1>2, <1>3, <1>4, <1>5, <1>6, <1>7, <1>8, <1>9, <1>10, <1>11, <1>12, <1>13,
       <1>14, <1>15, <1>16, <1>17, <1>18, <1>19, <1>20, <1>21, <1>22, <1>23, <1>24, <1>25,
       <1>26, <1>27, <1>28, <1>29
       DEF Next, Processor, Monitor, Reset, Trainer

\* Neither test of self.paused outside the drain ever succeeds, and the resume event and the flag
\* never disagree.
THEOREM PausedDiscipline == Spec => []PausedOnlyInDrain
  <1>1. Init => PausedOnlyInDrain
    BY DEF Init, PausedOnlyInDrain
  <1>. QED
    BY <1>1, PausedStep, TypeCorrect, PTL DEF Spec

(***************************************************************************)
(* Staleness control.                                                      *)
(***************************************************************************)

\* Samples that generate under the task states t.
GenOf(t) == {s \in Sample : t[s] = "gen"}

LEMMA GenFinite ==
  ASSUME NEW t
  PROVE  IsFiniteSet(GenOf(t)) /\ Cardinality(GenOf(t)) \in Nat
  <1>1. IsFiniteSet(Sample)
    BY FS_Interval, ConstantsAssumption DEF Sample
  <1>2. IsFiniteSet(GenOf(t))
    BY <1>1, FS_Subset DEF GenOf
  <1>. QED
    BY <1>2, FS_CardinalityType

LEMMA GenSubmitted ==
  ASSUME NEW t \in [Sample -> TaskState], NEW s
  PROVE  \/ Cardinality(GenOf(Submitted(t, s))) = Cardinality(GenOf(t))
         \/ Cardinality(GenOf(Submitted(t, s))) = Cardinality(GenOf(t)) + 1
  <1>1. CASE s \in Sample
    <2>1. GenOf(Submitted(t, s)) = GenOf(t) \cup {s}
      BY <1>1 DEF GenOf, Submitted
    <2>. QED
      BY <2>1, GenFinite, FS_AddElement
  <1>2. CASE s \notin Sample
    <2>1. GenOf(Submitted(t, s)) = GenOf(t)
      BY <1>2 DEF GenOf, Submitted
    <2>. QED
      BY <2>1, GenFinite
  <1>. QED
    BY <1>1, <1>2

LEMMA GenReaped ==
  ASSUME task \in [Sample -> TaskState], NEW D \in SUBSET Finished
  PROVE  GenOf(Reaped(D)) = GenOf(task)
  BY DEF GenOf, Reaped, Finished

LEMMA GenLeft ==
  ASSUME task \in [Sample -> TaskState], NEW s \in Sample, task[s] = "gen", NEW v, v # "gen"
  PROVE  /\ Cardinality(GenOf([task EXCEPT ![s] = v])) = Cardinality(GenOf(task)) - 1
         /\ Cardinality(GenOf(task)) >= 1
  <1>1. GenOf([task EXCEPT ![s] = v]) = GenOf(task) \ {s} /\ s \in GenOf(task)
    BY DEF GenOf
  <1>2. /\ Cardinality(GenOf(task)) \in Nat
        /\ Cardinality(GenOf([task EXCEPT ![s] = v])) \in Nat
    BY GenFinite
  <1>3. Cardinality(GenOf(task) \ {s}) = Cardinality(GenOf(task)) - 1
    BY <1>1, GenFinite, FS_RemoveElement, Zenon
  <1>4. Cardinality(GenOf([task EXCEPT ![s] = v])) = Cardinality(GenOf(task)) - 1
    BY <1>1, <1>3, Zenon
  <1>. DEFINE before == Cardinality(GenOf(task))
              after == Cardinality(GenOf([task EXCEPT ![s] = v]))
  <1>5. before \in Nat /\ after \in Nat /\ after = before - 1
    BY <1>2, <1>4, Zenon
  <1>. HIDE DEF before, after
  <1>6. before >= 1
    BY <1>5
  <1>. QED
    BY <1>5, <1>6, Zenon DEF before, after

LEMMA GenKept ==
  ASSUME task \in [Sample -> TaskState], NEW s \in Sample, task[s] # "gen", NEW v, v # "gen"
  PROVE  GenOf([task EXCEPT ![s] = v]) = GenOf(task)
  BY DEF GenOf

\* Outstanding in terms of the state of the tasks.
LEMMA OutstandingGen ==
  /\ Generating = GenOf(task)
  /\ Outstanding = Len(queue) + Cardinality(GenOf(task)) + Held
  BY DEF Outstanding, Generating, GenOf

LEMMA OutstandingGenNext ==
  /\ Generating' = GenOf(task')
  /\ Outstanding' = Len(queue') + Cardinality(GenOf(task')) + Held'
  BY DEF Outstanding, Generating, GenOf

LEMMA OutstandingNat ==
  ASSUME TypeOK
  PROVE  /\ Outstanding \in Nat /\ Held \in {0, 1} /\ StreamEnd \in {0, 1}
         /\ Len(queue) \in Nat /\ Cardinality(GenOf(task)) \in Nat
  BY GenFinite, OutstandingGen DEF TypeOK, Held, StreamEnd

LEMMA GenActive == Cardinality(GenOf(task)) <= Cardinality(Active)
  <1>1. GenOf(task) \subseteq Active
    BY DEF GenOf, Active
  <1>. QED
    BY <1>1, ActiveFinite, FS_Subset

\* A step keeps the counting right, and is a step of FlowControl or changes nothing of it.
ControlStep == StalenessCovers' /\ [FC!FNext]_(FC!fvars)

\* Steps that neither start nor deliver nor lose a sample.
Quiet ==
  /\ Len(queue') = Len(queue) /\ GenOf(task') = GenOf(task) /\ Held' = Held
  /\ taken' = taken
  /\ mpc' = "stream" <=> mpc = "stream"
  /\ staleness' \in Nat /\ staleness' >= staleness
  /\ ppc' = "get" => ppc = "get" \/ staleness < MaxRequired
  /\ rst' = "count" => \/ rst = "count" /\ activeAtReset' = activeAtReset
                       \/ Cardinality(GenOf(task)) <= activeAtReset'
  /\ rst' = "reply" => rst = "reply" /\ Recount' = Recount

LEMMA QuietControl ==
  ASSUME TypeOK, StalenessCovers, Quiet
  PROVE  ControlStep
  <1>1. Outstanding' = Outstanding /\ StreamEnd' = StreamEnd /\ taken' = taken
    BY OutstandingGen, OutstandingGenNext DEF Quiet, StreamEnd
  <1>2. UNCHANGED FC!fvars
    BY <1>1 DEF FC!fvars, Quiet
  <1>3. taken' + Outstanding' <= staleness' + 1 + StreamEnd'
    BY <1>1, OutstandingNat DEF Quiet, StalenessCovers, TypeOK
  <1>4. ppc' = "get" => taken' + Outstanding' <= MaxRequired + StreamEnd'
    BY <1>1, OutstandingNat, MaxRequiredPos DEF Quiet, StalenessCovers, TypeOK
  <1>5. rst' = "count" => Cardinality(Generating') <= activeAtReset'
    BY OutstandingGen, OutstandingGenNext DEF Quiet, StalenessCovers
  <1>6. rst' = "reply" => Len(queue') + Cardinality(Generating') <= Recount' + StreamEnd'
    BY <1>1, OutstandingGen, OutstandingGenNext DEF Quiet, StalenessCovers
  <1>. QED
    BY <1>2, <1>3, <1>4, <1>5, <1>6 DEF ControlStep, StalenessCovers

LEMMA QuietActions ==
  ASSUME TypeOK, LockOK
  PROVE  /\ Feed \/ ProcAsk \/ ProcPause \/ DrainHarvest \/ DrainExit \/ ProcWaitItem => Quiet
         /\ TakeEnd \/ EndHarvest \/ MainStop \/ Monitor => Quiet
         /\ ResetCall \/ ResetGranted \/ TrainStep \/ Stop => Quiet
         /\ \A s \in Sample : Reply(s) => Quiet
         /\ \A expiring \in BOOLEAN : Save(expiring) => Quiet
  <1>. USE DEF TypeOK, Quiet, Held, Recount, queueVars, taskVars, flowVars, procVars, monVars,
               mainVars, resetVars, trainVars
  <1>1. Feed => Quiet
    BY DEF Feed
  <1>2. ProcAsk => Quiet
    BY DEF ProcAsk
  <1>3. ProcPause => Quiet
    BY DEF ProcPause
  <1>4. ASSUME DrainHarvest PROVE Quiet
    <2>1. \/ UNCHANGED task
          \/ \E D \in SUBSET Finished : task' = Reaped(D)
      BY <1>4 DEF DrainHarvest, ReapDrained
    <2>2. GenOf(task') = GenOf(task)
      BY <2>1, GenReaped
    <2>3. ppc \in {"drain", "harvest"} /\ ppc' \in {"drain", "harvest", "failed"}
      BY <1>4 DEF DrainHarvest, ReapDrained
    <2>. QED
      BY <1>4, <2>2, <2>3 DEF DrainHarvest
  <1>5. DrainExit => Quiet
    BY DEF DrainExit
  <1>6. ProcWaitItem => Quiet
    BY MaxRequiredPos DEF ProcWaitItem, ShouldPause
  <1>7. TakeEnd => Quiet
    BY DEF TakeEnd, ReadyToTake, HoldOrWait
  <1>8. ASSUME EndHarvest PROVE Quiet
    <2>1. GenOf(task') = GenOf(task)
      BY <1>8, GenReaped DEF EndHarvest
    <2>. QED
      BY <1>8, <2>1 DEF EndHarvest
  <1>9. MainStop => Quiet
    BY DEF MainStop
  <1>10. Monitor => Quiet
    <2>1. MonAsk => Quiet
      BY DEF MonAsk
    <2>2. MonDecide => Quiet
      BY DEF MonDecide
    <2>3. MonResume => Quiet
      BY DEF MonResume
    <2>. QED
      BY <2>1, <2>2, <2>3 DEF Monitor
  <1>11. ResetCall => Quiet
    BY GenActive DEF ResetCall, ResetLocked
  <1>12. ResetGranted => Quiet
    BY GenActive DEF ResetGranted, ResetLocked
  <1>13. TrainStep => Quiet
    BY DEF TrainStep, VersionComplete
  <1>14. Stop => Quiet
    BY DEF Stop
  <1>15. ASSUME NEW s \in Sample, Reply(s) PROVE Quiet
    <2>1. GenOf(task') = GenOf(task)
      BY <1>15, GenKept DEF Reply
    <2>. QED
      BY <1>15, <2>1 DEF Reply
  <1>16. ASSUME NEW expiring \in BOOLEAN, Save(expiring) PROVE Quiet
    BY <1>16 DEF Save
  <1>. QED
    BY <1>1, <1>2, <1>3, <1>4, <1>5, <1>6, <1>7, <1>8, <1>9, <1>10, <1>11, <1>12, <1>13, <1>14,
       <1>15, <1>16

\* The other steps, each by its effect on what is outstanding.
LEMMA StartControl ==
  ASSUME TypeOK, LockOK, StalenessCovers, TakeSample, mpc = "stream"
  PROVE  ControlStep
  <1>. USE DEF TypeOK, queueVars, taskVars, flowVars, procVars, monVars, mainVars, resetVars,
               trainVars
  <1>1. /\ UNCHANGED <<queue, taken, mpc, rst, activeAtReset, Recount>>
        /\ staleness' = staleness + 1
        /\ Held = 0 /\ ppc' # "get"
    BY DEF TakeSample, AtLimit, ReadyToTake, HoldOrWait, Held, Recount
  <1>2. taken + Outstanding <= MaxRequired
    BY OutstandingNat, MaxRequiredPos
       DEF TakeSample, AtLimit, ReadyToTake, ShouldPause, StalenessCovers, StreamEnd
  <1>3. \/ Held' = 1 /\ UNCHANGED task
        \/ Held' = 0 /\ task' = Submitted(task, got + 1) /\ lock = "free"
    BY DEF TakeSample, AtLimit, HoldOrWait, CanLock, Held
  <1>4. Outstanding' = Outstanding \/ Outstanding' = Outstanding + 1
    <2>1. CASE Held' = 1 /\ UNCHANGED task
      BY <1>1, <2>1, OutstandingNat, OutstandingGen, OutstandingGenNext
    <2>2. CASE Held' = 0 /\ task' = Submitted(task, got + 1)
      <3>1. Cardinality(GenOf(task')) \in {Cardinality(GenOf(task)), Cardinality(GenOf(task)) + 1}
        BY <2>2, GenSubmitted
      <3>2. Cardinality(GenOf(task')) \in Nat
        BY GenFinite
      <3>. QED
        BY <1>1, <2>2, <3>1, <3>2, OutstandingNat, OutstandingGen, OutstandingGenNext
    <2>. QED
      BY <1>3, <2>1, <2>2
  <1>5. Outstanding' \in Int /\ StreamEnd = 0 /\ StreamEnd' = 0
    BY <1>1, <1>4, OutstandingNat, OutstandingGenNext DEF StreamEnd
  <1>6. [FC!FNext]_(FC!fvars)
    <2>1. CASE Outstanding' = Outstanding
      BY <1>1, <2>1 DEF FC!fvars
    <2>2. CASE Outstanding' = Outstanding + 1
      BY <1>1, <1>2, <2>2 DEF FC!FNext, FC!Start
    <2>. QED
      BY <1>4, <1>5, <2>1, <2>2, OutstandingNat
  <1>7. taken' + Outstanding' <= staleness' + 1 + StreamEnd'
    <2>1. taken + Outstanding <= staleness + 1 + StreamEnd
      BY DEF StalenessCovers
    <2>2. taken \in Nat /\ staleness \in Nat /\ Outstanding \in Nat
      BY OutstandingNat
    <2>3. taken' = taken /\ staleness' = staleness + 1 /\ StreamEnd' = StreamEnd
      BY <1>1, <1>5
    <2>4. taken' + Outstanding' <= (staleness + 1) + 1 + StreamEnd
      <3>1. CASE Outstanding' = Outstanding
        BY ONLY <1>5, <2>1, <2>2, <2>3, <3>1
      <3>2. CASE Outstanding' = Outstanding + 1
        BY ONLY <1>5, <2>1, <2>2, <2>3, <3>2
      <3>. QED
        BY ONLY <1>4, <3>1, <3>2
    <2>. QED
      BY ONLY <2>3, <2>4, Zenon
  <1>8. rst' = "count" => Cardinality(Generating') <= activeAtReset'
    <2>. SUFFICES ASSUME rst = "count" PROVE Cardinality(Generating') <= activeAtReset'
      BY <1>1
    <2>1. UNCHANGED task
      BY <1>3 DEF LockOK, ResetHeld
    <2>. QED
      BY <1>1, <2>1, OutstandingGen, OutstandingGenNext DEF StalenessCovers
  <1>9. rst' = "reply" => Len(queue') + Cardinality(Generating') <= Recount' + StreamEnd'
    <2>. SUFFICES ASSUME rst = "reply"
                  PROVE  Len(queue') + Cardinality(Generating') <= Recount' + StreamEnd'
      BY <1>1
    <2>1. UNCHANGED task
      BY <1>3 DEF LockOK, ResetHeld
    <2>. QED
      BY <1>1, <1>5, <2>1, OutstandingGen, OutstandingGenNext DEF StalenessCovers
  <1>. QED
    BY <1>1, <1>6, <1>7, <1>8, <1>9 DEF ControlStep, StalenessCovers

\* Losing: nothing is taken, and what is outstanding shrinks by at most one.
Losing ==
  /\ Outstanding' \in Nat /\ Len(queue') \in Nat
  /\ Outstanding' = Outstanding \/ Outstanding' = Outstanding - 1
  /\ taken' = taken
  /\ mpc' = mpc
  /\ staleness' = staleness
  /\ ppc' = "get" => ppc = "get"
  /\ rst' = "count" => /\ rst = "count" /\ activeAtReset' = activeAtReset
                       /\ Cardinality(GenOf(task')) <= Cardinality(GenOf(task))
  /\ rst' = "reply" => /\ rst = "reply" /\ Recount' = Recount
                       /\ Len(queue') + Cardinality(GenOf(task'))
                            <= Len(queue) + Cardinality(GenOf(task))

LEMMA LosingControl ==
  ASSUME TypeOK, StalenessCovers, Losing
  PROVE  ControlStep
  <1>0. /\ taken \in Nat /\ staleness \in Nat /\ MaxRequired \in Nat
        /\ StreamEnd \in Nat /\ Outstanding \in Nat /\ Outstanding' \in Nat
        /\ taken' = taken /\ staleness' = staleness
        /\ Outstanding' = Outstanding \/ Outstanding' = Outstanding - 1
    <2>1. taken \in Nat /\ staleness \in Nat
      BY DEF TypeOK
    <2>2. StreamEnd \in Nat
      BY DEF StreamEnd
    <2>. QED
      BY <2>1, <2>2, OutstandingNat, MaxRequiredPos, Zenon DEF Losing
  <1>1. StreamEnd' = StreamEnd
    BY DEF Losing, StreamEnd
  <1>2. [FC!FNext]_(FC!fvars)
    <2>1. CASE Outstanding' = Outstanding
      BY <2>1 DEF FC!fvars, Losing
    <2>2. CASE Outstanding' = Outstanding - 1
      BY <2>2, OutstandingNat DEF FC!FNext, FC!Lose, Losing
    <2>. QED
      BY <2>1, <2>2, OutstandingNat DEF Losing
  <1>3. taken' + Outstanding' <= staleness' + 1 + StreamEnd'
    <2>1. taken + Outstanding <= staleness + 1 + StreamEnd
      BY DEF StalenessCovers
    <2>2. CASE Outstanding' = Outstanding
      BY <1>0, <1>1, <2>1, <2>2
    <2>3. CASE Outstanding' = Outstanding - 1
      BY <1>0, <1>1, <2>1, <2>3
    <2>. QED
      BY <1>0, <2>2, <2>3
  <1>4. ppc' = "get" => taken' + Outstanding' <= MaxRequired + StreamEnd'
    <2>. SUFFICES ASSUME ppc' = "get" PROVE taken' + Outstanding' <= MaxRequired + StreamEnd'
      OBVIOUS
    <2>1. taken + Outstanding <= MaxRequired + StreamEnd
      BY DEF Losing, StalenessCovers
    <2>2. CASE Outstanding' = Outstanding
      BY <1>0, <1>1, <2>1, <2>2
    <2>3. CASE Outstanding' = Outstanding - 1
      BY <1>0, <1>1, <2>1, <2>3
    <2>. QED
      BY <1>0, <2>2, <2>3
  <1>5. rst' = "count" => Cardinality(Generating') <= activeAtReset'
    <2>1. Cardinality(GenOf(task)) \in Nat /\ Cardinality(GenOf(task')) \in Nat
      BY GenFinite
    <2>. QED
      BY <2>1, OutstandingGen, OutstandingGenNext DEF Losing, StalenessCovers, TypeOK
  <1>6. rst' = "reply" => Len(queue') + Cardinality(Generating') <= Recount' + StreamEnd'
    <2>. SUFFICES ASSUME rst' = "reply"
                  PROVE  Len(queue') + Cardinality(Generating') <= Recount' + StreamEnd'
      OBVIOUS
    <2>. DEFINE put == Len(queue) + Cardinality(GenOf(task))
                put1 == Len(queue') + Cardinality(GenOf(task'))
                counted == Recount + StreamEnd
    <2>1. put <= counted
      BY OutstandingGen DEF Losing, StalenessCovers
    <2>2. put1 <= put /\ Recount' + StreamEnd' = counted
      BY <1>1 DEF Losing
    <2>3. put \in Int /\ put1 \in Int /\ counted \in Int
      <3>1. /\ Len(queue) \in Int /\ Cardinality(GenOf(task)) \in Int
            /\ Cardinality(GenOf(task')) \in Int /\ StreamEnd \in Int
        BY <1>0, OutstandingNat, GenFinite
      <3>2. Recount \in Int
        BY DEF TypeOK, Recount
      <3>3. Len(queue') \in Int
        BY DEF Losing
      <3>. QED
        BY <3>1, <3>2, <3>3
    <2>4. put1 <= counted
      <3>. HIDE DEF put, put1, counted
      <3>. QED
        BY <2>1, <2>2, <2>3
    <2>5. Cardinality(Generating') = Cardinality(GenOf(task'))
      BY OutstandingGenNext
    <2>. QED
      BY <2>2, <2>4, <2>5
  <1>. QED
    BY <1>2, <1>3, <1>4, <1>5, <1>6 DEF ControlStep, StalenessCovers

LEMMA LosingActions ==
  ASSUME TypeOK, LockOK
  PROVE  /\ ProcGranted \/ LimitHarvest => Losing
         /\ \A s \in Sample : Store(s) \/ Fail(s) => Losing
  <1>. USE DEF TypeOK, queueVars, taskVars, flowVars, procVars, monVars, mainVars, resetVars,
               trainVars
  <1>1. ASSUME ProcGranted PROVE Losing
    <2>1. UNCHANGED <<queue, taken, mpc, staleness, rst, activeAtReset>> /\ ppc' # "get"
      BY <1>1 DEF ProcGranted
    <2>2. rst \notin ResetHeld
      BY <1>1 DEF ProcGranted, LockOK
    <2>3. CASE ppc # "submit"
      <3>1. UNCHANGED task /\ Held' = Held
        BY <1>1, <2>3 DEF ProcGranted, Held
      <3>. QED
        BY <2>1, <2>2, <3>1, OutstandingNat, OutstandingGen, OutstandingGenNext
           DEF Losing, ResetHeld
    <2>4. CASE ppc = "submit"
      <3>1. task' = Submitted(task, got) /\ Held = 1 /\ Held' = 0
        BY <1>1, <2>4 DEF ProcGranted, Held
      <3>2. /\ Cardinality(GenOf(task'))
                 \in {Cardinality(GenOf(task)), Cardinality(GenOf(task)) + 1}
            /\ Cardinality(GenOf(task')) \in Nat
        BY <3>1, GenSubmitted, GenFinite
      <3>. QED
        BY <2>1, <2>2, <3>1, <3>2, OutstandingNat, OutstandingGen, OutstandingGenNext
           DEF Losing, ResetHeld
    <2>. QED
      BY <2>3, <2>4
  <1>2. ASSUME LimitHarvest PROVE Losing
    <2>1. UNCHANGED <<queue, taken, mpc, staleness, rst, activeAtReset>> /\ ppc' # "get"
      BY <1>2 DEF LimitHarvest
    <2>2. rst \notin ResetHeld /\ Held = 1
      BY <1>2 DEF LimitHarvest, LockOK, LockHeld, Held
    <2>. DEFINE reaped == Reaped(Finished)
    <2>3. GenOf(reaped) = GenOf(task) /\ reaped \in [Sample -> TaskState]
      BY GenReaped, ReapedType
    <2>4. \/ task' = reaped /\ Held' \in {0, 1}
          \/ task' = Submitted(reaped, got) /\ Held' = 0
      BY <1>2 DEF LimitHarvest, Held
    <2>. HIDE DEF reaped
    <2>5. CASE task' = reaped /\ Held' \in {0, 1}
      <3>1. GenOf(task') = GenOf(task)
        BY <2>3, <2>5
      <3>2. Outstanding' \in Nat /\ (Outstanding' = Outstanding \/ Outstanding' = Outstanding - 1)
        BY <2>1, <2>2, <2>5, <3>1, OutstandingNat, OutstandingGen, OutstandingGenNext
      <3>. QED
        BY <2>1, <2>2, <3>1, <3>2, OutstandingNat, OutstandingGen, OutstandingGenNext
           DEF Losing, ResetHeld
    <2>6. CASE task' = Submitted(reaped, got) /\ Held' = 0
      <3>1. /\ Cardinality(GenOf(task'))
                 \in {Cardinality(GenOf(reaped)), Cardinality(GenOf(reaped)) + 1}
            /\ Cardinality(GenOf(task')) \in Nat
        BY <2>3, <2>6, GenSubmitted, GenFinite
      <3>. QED
        BY <2>1, <2>2, <2>3, <2>6, <3>1, OutstandingNat, OutstandingGen, OutstandingGenNext
           DEF Losing, ResetHeld
    <2>. QED
      BY <2>4, <2>5, <2>6
  <1>3. ASSUME NEW s \in Sample, Store(s) PROVE Losing
    <2>1. /\ UNCHANGED <<taken, mpc, staleness, rst, activeAtReset, Recount, ppc>>
          /\ task[s] = "gen" /\ Held' = Held
      BY <1>3 DEF Store, Held, Recount
    <2>2. [sample |-> s, at |-> version] \in Entry /\ MQ!Put([sample |-> s, at |-> version])
      BY <1>3 DEF Store, Entry, SampleEntry
    <2>3. Len(queue') = Len(queue) \/ Len(queue') = Len(queue) + 1
      BY <2>2, PutEntry
    <2>4. PICK v : v # "gen" /\ task' = [task EXCEPT ![s] = v]
      BY <1>3 DEF Store
    <2>5. /\ Cardinality(GenOf(task')) = Cardinality(GenOf(task)) - 1
          /\ Cardinality(GenOf(task)) >= 1
      BY <2>1, <2>4, GenLeft
    <2>8. /\ Len(queue) \in Nat /\ Cardinality(GenOf(task)) \in Nat /\ Held \in {0, 1}
          /\ Outstanding \in Nat
      BY OutstandingNat
    <2>6. Len(queue') \in Nat
      BY <2>3, <2>8
    <2>7. Outstanding' \in Nat /\ (Outstanding' = Outstanding \/ Outstanding' = Outstanding - 1)
      BY ONLY <2>1, <2>3, <2>5, <2>6, <2>8, OutstandingGen, OutstandingGenNext, SMTT(30)
    <2>. QED
      <3>1. Cardinality(GenOf(task')) <= Cardinality(GenOf(task))
        BY ONLY <2>5, <2>8
      <3>2. taken' = taken /\ mpc' = mpc /\ staleness' = staleness
        BY ONLY <2>1
      <3>3. rst' = rst /\ activeAtReset' = activeAtReset /\ ppc' = ppc /\ Recount' = Recount
        BY ONLY <2>1
      <3>4. Len(queue') + Cardinality(GenOf(task')) <= Len(queue) + Cardinality(GenOf(task))
        BY ONLY <2>3, <2>5, <2>8
      <3>. QED
        BY ONLY <2>6, <2>7, <3>1, <3>2, <3>3, <3>4 DEF Losing
  <1>4. ASSUME NEW s \in Sample, Fail(s) PROVE Losing
    <2>1. /\ UNCHANGED <<queue, taken, mpc, staleness, rst, activeAtReset, Recount, ppc>>
          /\ task[s] = "gen" /\ Held' = Held /\ task' = [task EXCEPT ![s] = "failed"]
      BY <1>4 DEF Fail, Held, Recount
    <2>2. /\ Cardinality(GenOf(task')) = Cardinality(GenOf(task)) - 1
          /\ Cardinality(GenOf(task)) >= 1
      BY <2>1, GenLeft
    <2>3. /\ Len(queue) \in Nat /\ Cardinality(GenOf(task)) \in Nat /\ Held \in {0, 1}
          /\ Outstanding \in Nat
      BY OutstandingNat
    <2>4. Outstanding' \in Nat /\ (Outstanding' = Outstanding \/ Outstanding' = Outstanding - 1)
      BY ONLY <2>1, <2>2, <2>3, OutstandingGen, OutstandingGenNext
    <2>. QED
      <3>1. Cardinality(GenOf(task')) <= Cardinality(GenOf(task))
        BY ONLY <2>2, <2>3
      <3>2. taken' = taken /\ mpc' = mpc /\ staleness' = staleness
        BY ONLY <2>1
      <3>3. rst' = rst /\ activeAtReset' = activeAtReset /\ ppc' = ppc /\ Recount' = Recount
        BY ONLY <2>1
      <3>4. /\ Len(queue') + Cardinality(GenOf(task')) <= Len(queue) + Cardinality(GenOf(task))
            /\ Len(queue') \in Nat
        BY ONLY <2>1, <2>2, <2>3
      <3>. QED
        BY ONLY <2>4, <3>1, <3>2, <3>3, <3>4 DEF Losing
  <1>. QED
    BY <1>1, <1>2, <1>3, <1>4

LEMMA EndStep == EndAfterProcessor /\ [Next]_vars => EndAfterProcessor'
  <1>. SUFFICES ASSUME EndAfterProcessor, [Next]_vars PROVE EndAfterProcessor'
    OBVIOUS
  <1>. USE DEF EndAfterProcessor, ProcessorOver, procVars, mainVars
  <1>1. CASE Feed
    BY <1>1 DEF Feed
  <1>2. CASE ProcAsk
    BY <1>2 DEF ProcAsk
  <1>3. CASE ProcPause
    BY <1>3 DEF ProcPause
  <1>4. CASE DrainHarvest
    BY <1>4 DEF DrainHarvest
  <1>5. CASE DrainExit
    BY <1>5 DEF DrainExit
  <1>6. CASE ProcWaitItem
    BY <1>6 DEF ProcWaitItem
  <1>7. CASE TakeSample
    BY <1>7 DEF TakeSample, AtLimit, ReadyToTake
  <1>8. CASE TakeEnd
    BY <1>8 DEF TakeEnd, ReadyToTake
  <1>9. CASE ProcGranted
    BY <1>9 DEF ProcGranted
  <1>10. CASE LimitHarvest
    BY <1>10 DEF LimitHarvest
  <1>11. CASE EndHarvest
    BY <1>11 DEF EndHarvest
  <1>12. CASE MainSignal
    BY <1>12 DEF MainSignal, ProcessorOver
  <1>13. CASE MainStop
    BY <1>13 DEF MainStop
  <1>14. CASE MonAsk
    BY <1>14 DEF MonAsk
  <1>15. CASE MonDecide
    BY <1>15 DEF MonDecide
  <1>16. CASE MonResume
    BY <1>16 DEF MonResume
  <1>17. CASE ResetCall
    BY <1>17 DEF ResetCall
  <1>18. CASE ResetGranted
    BY <1>18 DEF ResetGranted
  <1>19. CASE ResetFinish
    BY <1>19 DEF ResetFinish, Recount
  <1>20. CASE Collect
    BY <1>20 DEF Collect
  <1>21. CASE CollectNone
    BY <1>21 DEF CollectNone
  <1>22. CASE TrainStep
    BY <1>22 DEF TrainStep, VersionComplete
  <1>23. CASE Stop
    BY <1>23 DEF Stop
  <1>24. ASSUME NEW s \in Sample, Store(s) PROVE EndAfterProcessor'
    BY <1>24 DEF Store
  <1>25. ASSUME NEW s \in Sample, Reply(s) PROVE EndAfterProcessor'
    BY <1>25 DEF Reply
  <1>26. ASSUME NEW s \in Sample, Fail(s) PROVE EndAfterProcessor'
    BY <1>26 DEF Fail
  <1>27. ASSUME NEW expiring \in BOOLEAN, Save(expiring) PROVE EndAfterProcessor'
    BY <1>27 DEF Save
  <1>28. CASE UNCHANGED vars
    BY <1>28 DEF vars
  <1>29. CASE ResetAsk
    BY <1>29 DEF ResetAsk
  <1>. QED
    BY <1>1, <1>2, <1>3, <1>4, <1>5, <1>6, <1>7, <1>8, <1>9, <1>10, <1>11, <1>12, <1>13,
       <1>14, <1>15, <1>16, <1>17, <1>18, <1>19, <1>20, <1>21, <1>22, <1>23, <1>24, <1>25,
       <1>26, <1>27, <1>28, <1>29
       DEF Next, Processor, Monitor, Reset, Trainer

LEMMA SignalControl ==
  ASSUME TypeOK, StalenessCovers, EndAfterProcessor, MainSignal
  PROVE  ControlStep
  <1>1. None \in Entry /\ MQ!Put(None)
    BY DEF MainSignal, ProcessorOver, Entry
  <1>2. Len(queue') = Len(queue) \/ Len(queue') = Len(queue) + 1
    BY <1>1, PutEntry DEF TypeOK
  <1>3. UNCHANGED <<task, taken, staleness, ppc, rst, activeAtReset, Recount, Held>>
    BY DEF MainSignal, ProcessorOver, taskVars, procVars, resetVars, trainVars, Held, Recount
  <1>4. ppc # "get" /\ mpc = "stream" /\ mpc' = "flag" /\ StreamEnd = 0 /\ StreamEnd' = 1
    BY DEF MainSignal, ProcessorOver, StreamEnd
  <1>5. /\ taken \in Nat /\ staleness \in Nat /\ Outstanding \in Nat
        /\ Len(queue) \in Nat /\ Cardinality(GenOf(task)) \in Nat /\ Held \in {0, 1}
    BY OutstandingNat DEF TypeOK
  <1>6. Outstanding' = Outstanding \/ Outstanding' = Outstanding + 1
    BY ONLY <1>2, <1>3, <1>5, OutstandingGen, OutstandingGenNext
  <1>7. [FC!FNext]_(FC!fvars)
    BY <1>3, <1>4, <1>6 DEF FC!FNext, FC!Close
  <1>8. taken' + Outstanding' <= staleness' + 1 + StreamEnd'
    <2>1. taken + Outstanding <= staleness + 1 + StreamEnd
      BY DEF StalenessCovers
    <2>2. CASE Outstanding' = Outstanding
      BY ONLY <1>3, <1>4, <1>5, <2>1, <2>2
    <2>3. CASE Outstanding' = Outstanding + 1
      BY ONLY <1>3, <1>4, <1>5, <2>1, <2>3
    <2>. QED
      BY <1>6, <2>2, <2>3
  <1>9. rst' = "count" => Cardinality(Generating') <= activeAtReset'
    BY <1>3, OutstandingGen, OutstandingGenNext DEF StalenessCovers
  <1>10. rst' = "reply" => Len(queue') + Cardinality(Generating') <= Recount' + StreamEnd'
    <2>1. Recount \in Nat
      BY DEF TypeOK, Recount
    <2>2. rst = "reply" => Len(queue) + Cardinality(GenOf(task)) <= Recount + StreamEnd
      BY OutstandingGen DEF StalenessCovers
    <2>3. rst = "reply" => Len(queue') + Cardinality(GenOf(task)) <= Recount + 1
      BY ONLY <1>2, <1>4, <1>5, <2>1, <2>2
    <2>. QED
      BY <1>3, <1>4, <2>3, OutstandingGenNext
  <1>. QED
    BY <1>3, <1>4, <1>7, <1>8, <1>9, <1>10 DEF ControlStep, StalenessCovers

LEMMA CollectControl ==
  ASSUME TypeOK, StalenessCovers, Collect \/ CollectNone
  PROVE  ControlStep
  <1>1. queue # <<>> /\ \E x : MQ!Get(x)
    BY DEF Collect, CollectNone
  <1>2. Len(queue') = Len(queue) - 1
    BY <1>1, GetEntry DEF TypeOK
  <1>3. /\ UNCHANGED <<task, staleness, ppc, rst, activeAtReset, Recount, mpc, Held, StreamEnd>>
        /\ taken' = taken \/ taken' = taken + 1
    BY DEF Collect, CollectNone, taskVars, procVars, resetVars, mainVars, Held, StreamEnd, Recount
  <1>4. /\ taken \in Nat /\ staleness \in Nat /\ Outstanding \in Nat
        /\ StreamEnd \in {0, 1} /\ Held \in {0, 1} /\ MaxRequired \in Nat
        /\ Len(queue) \in Nat /\ Cardinality(GenOf(task)) \in Nat
    BY OutstandingNat, MaxRequiredPos DEF TypeOK
  <1>5. Len(queue) >= 1
    BY <1>1 DEF TypeOK
  <1>6. Outstanding' = Outstanding - 1 /\ Outstanding > 0
    BY ONLY <1>2, <1>3, <1>4, <1>5, OutstandingGen, OutstandingGenNext
  <1>7. [FC!FNext]_(FC!fvars)
    BY <1>3, <1>6 DEF FC!FNext, FC!Take
  <1>8. taken' + Outstanding' <= taken + Outstanding
    <2>1. CASE taken' = taken
      BY ONLY <1>4, <1>6, <2>1
    <2>2. CASE taken' = taken + 1
      BY ONLY <1>4, <1>6, <2>2
    <2>. QED
      BY <1>3, <2>1, <2>2
  <1>9. taken' \in Nat /\ Outstanding' \in Nat
    BY <1>3, <1>4, <1>6
  <1>. DEFINE before == taken + Outstanding
              after == taken' + Outstanding'
  <1>10. after <= before /\ after \in Nat /\ before \in Nat
    <2>1. before \in Nat
      BY <1>4
    <2>2. after \in Nat
      <3>1. \A x, y \in Nat : x + y \in Nat
        OBVIOUS
      <3>. QED
        BY <1>9, <3>1, Zenon
    <2>3. after <= before
      BY <1>8, Zenon
    <2>. QED
      BY ONLY <2>1, <2>2, <2>3, Zenon
  <1>. HIDE DEF before, after
  <1>11. after <= staleness' + 1 + StreamEnd'
    <2>1. before <= staleness + 1 + StreamEnd
      BY DEF StalenessCovers, before
    <2>2. after <= staleness + 1 + StreamEnd
      BY ONLY <1>4, <1>10, <2>1
    <2>. QED
      BY <1>3, <2>2
  <1>12. ppc' = "get" => after <= MaxRequired + StreamEnd'
    <2>. SUFFICES ASSUME ppc = "get" PROVE after <= MaxRequired + StreamEnd'
      BY <1>3
    <2>1. before <= MaxRequired + StreamEnd
      BY DEF StalenessCovers, before
    <2>2. after <= MaxRequired + StreamEnd
      BY ONLY <1>4, <1>10, <2>1
    <2>. QED
      BY <1>3, <2>2
  <1>13. rst' = "count" => Cardinality(Generating') <= activeAtReset'
    BY <1>3, OutstandingGen, OutstandingGenNext DEF StalenessCovers
  <1>14. rst' = "reply" => Len(queue') + Cardinality(Generating') <= Recount' + StreamEnd'
    <2>1. Recount \in Nat
      BY DEF TypeOK, Recount
    <2>2. rst = "reply" => Len(queue) + Cardinality(GenOf(task)) <= Recount + StreamEnd
      BY OutstandingGen DEF StalenessCovers
    <2>3. rst = "reply" => Len(queue') + Cardinality(GenOf(task)) <= Recount + StreamEnd
      BY ONLY <1>2, <1>4, <2>1, <2>2
    <2>. QED
      BY <1>3, <2>3, OutstandingGenNext
  <1>. QED
    BY <1>7, <1>11, <1>12, <1>13, <1>14 DEF ControlStep, StalenessCovers, after

\* The queue size is read: the tasks counted before it cover those that put later.
LEMMA AskControl ==
  ASSUME TypeOK, StalenessCovers, ResetAsk
  PROVE  ControlStep
  <1>1. /\ UNCHANGED <<task, queue, mpc, ppc, taken, staleness, Held, StreamEnd>>
        /\ rst = "count" /\ rst' = "reply" /\ Recount' = activeAtReset + Len(queue)
    BY DEF ResetAsk, queueVars, taskVars, procVars, mainVars, trainVars, Held, StreamEnd, Recount
  <1>2. /\ activeAtReset \in Nat /\ StreamEnd \in {0, 1}
        /\ Len(queue) \in Nat /\ Cardinality(GenOf(task)) \in Nat
    BY OutstandingNat DEF TypeOK
  <1>3. Outstanding' = Outstanding
    BY <1>1, OutstandingGen, OutstandingGenNext
  <1>4. UNCHANGED FC!fvars
    BY <1>1, <1>3 DEF FC!fvars
  <1>5. Cardinality(GenOf(task)) <= activeAtReset
    BY <1>1, OutstandingGen DEF StalenessCovers
  <1>6. Len(queue') + Cardinality(Generating') <= Recount' + StreamEnd'
    <2>1. Len(queue) + Cardinality(GenOf(task)) <= activeAtReset + Len(queue) + StreamEnd
      BY ONLY <1>2, <1>5
    <2>. QED
      BY <1>1, <2>1, OutstandingGenNext
  <1>. QED
    BY <1>1, <1>3, <1>4, <1>6 DEF ControlStep, StalenessCovers

LEMMA ResetControl ==
  ASSUME TypeOK, StalenessCovers, ResetFinish
  PROVE  ControlStep
  <1>1. /\ UNCHANGED <<task, queue, mpc, ppc, Held, StreamEnd>>
        /\ taken' = 0 /\ rst = "reply" /\ rst' = "idle"
        /\ staleness' = Recount
    BY DEF ResetFinish, queueVars, taskVars, procVars, mainVars, Held, StreamEnd
  <1>2. /\ taken \in Nat /\ Outstanding \in Nat /\ Recount \in Nat
        /\ StreamEnd \in {0, 1} /\ Held \in {0, 1} /\ MaxRequired \in Nat
        /\ Len(queue) \in Nat /\ Cardinality(GenOf(task)) \in Nat
    BY OutstandingNat, MaxRequiredPos DEF TypeOK, Recount
  <1>3. Outstanding' = Outstanding
    BY <1>1, OutstandingGen, OutstandingGenNext
  <1>4. [FC!FNext]_(FC!fvars)
    BY <1>1, <1>3 DEF FC!FNext, FC!Synchronise
  <1>5. Len(queue) + Cardinality(GenOf(task)) <= Recount + StreamEnd
    BY <1>1, OutstandingGen DEF StalenessCovers
  <1>6. taken' + Outstanding' <= staleness' + 1 + StreamEnd'
    <2>1. Outstanding <= Recount + 1 + StreamEnd
      BY ONLY <1>2, <1>5, OutstandingGen
    <2>. QED
      BY ONLY <1>1, <1>2, <1>3, <2>1
  <1>7. ppc' = "get" => taken' + Outstanding' <= MaxRequired + StreamEnd'
    BY <1>1, <1>2, <1>3 DEF StalenessCovers
  <1>. QED
    BY <1>1, <1>4, <1>6, <1>7 DEF ControlStep, StalenessCovers

\* Every step keeps the counting right and is a step of FlowControl.
LEMMA ControlInduction ==
  TypeOK /\ LockOK /\ EndAfterProcessor /\ StalenessCovers /\ [Next]_vars => ControlStep
  <1>. SUFFICES ASSUME TypeOK, LockOK, EndAfterProcessor, StalenessCovers, [Next]_vars
                PROVE  ControlStep
    OBVIOUS
  <1>1. CASE TakeSample
    <2>1. mpc = "stream"
      BY <1>1 DEF EndAfterProcessor, ProcessorOver, TakeSample, AtLimit, ReadyToTake
    <2>. QED
      BY <1>1, <2>1, StartControl
  <1>2. CASE ProcGranted \/ LimitHarvest \/ \E s \in Sample : Store(s) \/ Fail(s)
    BY <1>2, LosingActions, LosingControl
  <1>3. CASE MainSignal
    BY <1>3, SignalControl
  <1>4. CASE Collect \/ CollectNone
    BY <1>4, CollectControl
  <1>5. CASE ResetFinish
    BY <1>5, ResetControl
  <1>8. CASE ResetAsk
    BY <1>8, AskControl
  <1>6. CASE \/ Feed \/ ProcAsk \/ ProcPause \/ DrainHarvest \/ DrainExit \/ ProcWaitItem
             \/ TakeEnd \/ EndHarvest \/ MainStop \/ Monitor
             \/ ResetCall \/ ResetGranted \/ TrainStep \/ Stop
             \/ \E s \in Sample : Reply(s)
             \/ \E expiring \in BOOLEAN : Save(expiring)
    BY <1>6, QuietActions, QuietControl
  <1>7. CASE UNCHANGED vars
    <2>1. Quiet
      BY <1>7 DEF vars, Quiet, TypeOK, Held, Recount, queueVars, taskVars, procVars, mainVars,
                  resetVars, trainVars
    <2>. QED
      BY <2>1, QuietControl
  <1>. QED
    BY <1>1, <1>2, <1>3, <1>4, <1>5, <1>6, <1>7, <1>8 DEF Next, Processor, Reset, Trainer

LEMMA ControlInit == Init => EndAfterProcessor /\ StalenessCovers /\ FC!FInit
  <1>. SUFFICES ASSUME Init PROVE EndAfterProcessor /\ StalenessCovers /\ FC!FInit
    OBVIOUS
  <1>1. /\ queue = <<>> /\ taken = 0 /\ mpc = "stream" /\ ppc = "top" /\ rst = "idle"
        /\ staleness = 0 /\ Held = 0 /\ StreamEnd = 0
    BY DEF Init, MQ!QInit, Held, StreamEnd
  <1>2. GenOf(task) = {}
    BY DEF Init, GenOf
  <1>3. Outstanding = 0
    BY <1>1, <1>2, OutstandingGen, FS_EmptySet
  <1>. QED
    BY <1>1, <1>3 DEF EndAfterProcessor, ProcessorOver, StalenessCovers, FC!FInit

\* staleness_samples covers what the rollouter is working on, but for the one sample it may hold.
THEOREM StalenessCounted == Spec => []StalenessCovers
  <1>1. Init => EndAfterProcessor /\ StalenessCovers
    BY ControlInit
  <1>2. TypeOK /\ LockOK /\ EndAfterProcessor /\ StalenessCovers /\ [Next]_vars
        => EndAfterProcessor' /\ StalenessCovers'
    BY EndStep, ControlInduction DEF ControlStep
  <1>. QED
    BY <1>1, <1>2, TypeCorrect, LockDiscipline, PTL DEF Spec

LEMMA EndInvariant == Spec => []EndAfterProcessor
  BY ControlInit, EndStep, PTL DEF Spec

\* The rollouter, its tasks, the queue and the trainer together implement FlowControl.
THEOREM Refinement == Spec => FlowControlled
  <1>1. Init => FC!FInit
    BY ControlInit
  <1>2. TypeOK /\ LockOK /\ EndAfterProcessor /\ StalenessCovers /\ [Next]_vars
        => [FC!FNext]_(FC!fvars)
    BY ControlInduction DEF ControlStep
  <1>. QED
    BY <1>1, <1>2, TypeCorrect, LockDiscipline, EndInvariant, StalenessCounted, PTL
       DEF Spec, FlowControlled, FC!FSpec

\* FlowControl keeps its promise, step by step.
LEMMA PromiseStep == FC!FBound /\ [FC!FNext]_(FC!fvars) => FC!FBound'
  <1>. SUFFICES ASSUME FC!FBound, [FC!FNext]_(FC!fvars) PROVE FC!FBound'
    OBVIOUS
  <1>. USE MaxRequiredPos DEF FC!FBound
  <1>1. CASE FC!Start
    BY <1>1 DEF FC!Start
  <1>2. CASE FC!Take
    <2>1. CASE taken' = taken
      BY <1>2, <2>1 DEF FC!Take
    <2>2. CASE taken' = taken + 1
      BY <1>2, <2>2 DEF FC!Take
    <2>. QED
      BY <1>2, <2>1, <2>2 DEF FC!Take
  <1>3. CASE FC!Lose
    BY <1>3 DEF FC!Lose
  <1>4. CASE FC!Close
    <2>1. CASE Outstanding' = Outstanding
      BY <1>4, <2>1 DEF FC!Close
    <2>2. CASE Outstanding' = Outstanding + 1
      BY <1>4, <2>2 DEF FC!Close
    <2>. QED
      BY <1>4, <2>1, <2>2 DEF FC!Close
  <1>5. CASE FC!Synchronise
    BY <1>5 DEF FC!Synchronise
  <1>6. CASE UNCHANGED FC!fvars
    BY <1>6 DEF FC!fvars
  <1>. QED
    BY <1>1, <1>2, <1>3, <1>4, <1>5, <1>6 DEF FC!FNext

\* Between two resets of staleness the trainer takes, and the rollouter starts for it, at most one
\* sample more than max_required_samples.
THEOREM StalenessControl == Spec => []OutstandingBound
  <1>1. FC!FInit => FC!FBound
    BY MaxRequiredPos DEF FC!FInit, FC!FBound
  <1>2. FC!FBound => OutstandingBound
    BY DEF FC!FBound, OutstandingBound, StreamEnd
  <1>. QED
    BY <1>1, <1>2, Refinement, PromiseStep, PTL DEF FlowControlled, FC!FSpec

(***************************************************************************)
(* Whole versions.                                                         *)
(***************************************************************************)

\* What a step leaves alone: most steps touch nothing of the trainer, of the tasks or of the queue.
TrainerStep == ResetFinish \/ Trainer

LEMMA TrainFrame == [Next]_vars => TrainerStep \/ UNCHANGED trainVars
  <1>. SUFFICES ASSUME [Next]_vars, ~TrainerStep PROVE UNCHANGED trainVars
    OBVIOUS
  <1>1. Feed => UNCHANGED trainVars
    BY DEF Feed
  <1>2. Processor => UNCHANGED trainVars
    BY Zenon DEF Processor, ProcAsk, ProcPause, DrainHarvest, DrainExit, ProcWaitItem,
       TakeSample, TakeEnd,
       ProcGranted, LimitHarvest, EndHarvest
  <1>3. ASSUME NEW s \in Sample, Store(s) \/ Reply(s) \/ Fail(s) PROVE UNCHANGED trainVars
    BY <1>3, Zenon DEF Store, Reply, Fail
  <1>4. MainSignal \/ MainStop \/ Monitor => UNCHANGED trainVars
    BY Zenon DEF MainSignal, MainStop, Monitor, MonAsk, MonDecide, MonResume
  <1>5. ResetCall \/ ResetGranted \/ ResetAsk => UNCHANGED trainVars
    BY Zenon DEF ResetCall, ResetGranted, ResetAsk
  <1>6. UNCHANGED vars => UNCHANGED trainVars
    BY DEF vars
  <1>. QED
    BY <1>1, <1>2, <1>3, <1>4, <1>5, <1>6 DEF Next, Reset, TrainerStep

\* The reset that a trainer waits for is the only one there is.
ResetForTrainer == rst # "idle" => tpc = "reset"

LEMMA ResetStep == ResetForTrainer /\ [Next]_vars => ResetForTrainer'
  <1>. SUFFICES ASSUME ResetForTrainer, [Next]_vars PROVE ResetForTrainer'
    OBVIOUS
  <1>. USE DEF ResetForTrainer
  <1>1. CASE TrainerStep
    BY <1>1 DEF TrainerStep, Trainer, ResetFinish, Collect, CollectNone, TrainStep, Stop, Save,
       resetVars
  <1>2. CASE Reset
    BY <1>2, <1>1 DEF Reset, ResetCall, ResetGranted, ResetAsk, TrainerStep, trainVars
  <1>3. Feed \/ Processor \/ MainSignal \/ MainStop \/ Monitor => UNCHANGED resetVars
    BY Zenon DEF Feed, Processor, ProcAsk, ProcPause, DrainHarvest, DrainExit, ProcWaitItem,
       TakeSample,
       TakeEnd, ProcGranted, LimitHarvest, EndHarvest, MainSignal, MainStop, Monitor, MonAsk,
       MonDecide,
       MonResume
  <1>4. ASSUME NEW s \in Sample, Store(s) \/ Reply(s) \/ Fail(s) PROVE UNCHANGED resetVars
    BY <1>4, Zenon DEF Store, Reply, Fail
  <1>5. CASE UNCHANGED resetVars
    BY <1>5, <1>1, TrainFrame DEF resetVars, trainVars
  <1>. QED
    BY <1>1, <1>2, <1>3, <1>4, <1>5 DEF Next, TrainerStep, vars

\* Where the trainer is, and what it has collected and taken there.  VersionsWhole needs the rest:
\* a batch is full when it is trained, the trainer only stops or resets with none, and between two
\* local steps it has taken whole batches.
VersionInv ==
  /\ tpc \in {"collect", "train"} => ~stopping
  /\ tpc \in {"stop", "done"} => stopping
  /\ tpc = "collect" => Len(batch) < Required
  /\ tpc = "train" => Len(batch) = Required
  /\ tpc \notin {"collect", "train"} => batch = <<>>
  /\ tpc = "reset" => local = 1
  /\ tpc = "save" /\ ~stopping => taken = (local - 1) * Required
  /\ SyncPeriod
  /\ CheckpointOK

LEMMA VersionStep ==
  TypeOK /\ ResetForTrainer /\ VersionInv /\ [Next]_vars => VersionInv'
  <1>. SUFFICES ASSUME TypeOK, ResetForTrainer, VersionInv, [Next]_vars PROVE VersionInv'
    OBVIOUS
  <1>. USE DEF VersionInv, SyncPeriod, CheckpointOK
  <1>0. /\ Len(batch) \in Nat /\ taken \in Nat /\ local \in Nat /\ local >= 1 /\ local <= Trigger
        /\ Required \in Nat /\ Required > 0 /\ Trigger \in Nat
    BY ConstantsAssumption DEF TypeOK
  <1>1. CASE UNCHANGED trainVars
    BY <1>1 DEF trainVars
  <1>2. CASE ResetFinish
    <2>1. /\ tpc = "reset" /\ tpc' = "save" /\ taken' = 0
          /\ UNCHANGED <<batch, local, version, stopping, lastCkpt>>
      BY <1>2 DEF ResetFinish, ResetForTrainer
    <2>2. taken' = (local' - 1) * Required
      BY <1>0, <2>1
    <2>. QED
      BY <2>1, <2>2
  <1>3. CASE Collect
    <2>. DEFINE entry == Head(queue)
    <2>1. /\ tpc = "collect" /\ tpc' = IF Len(batch) + 1 = Required THEN "train" ELSE "collect"
          /\ batch' = Append(batch, entry) /\ taken' = taken + 1
          /\ UNCHANGED <<local, version, stopping, lastCkpt>>
      BY <1>3 DEF Collect
    <2>. HIDE DEF entry
    <2>2. Len(batch') = Len(batch) + 1
      BY <2>1, AppendProperties, <1>3 DEF TypeOK
    <2>3. taken' = (local' - 1) * Required + Len(batch')
      <3>. DEFINE n == Len(batch)
                  m == (local - 1) * Required
      <3>1. m \in Int /\ n \in Nat /\ taken = m + n
        BY <1>0, <2>1
      <3>2. taken' = taken + 1 /\ Len(batch') = n + 1 /\ (local' - 1) * Required = m
        BY <2>1, <2>2
      <3>. HIDE DEF n, m
      <3>. QED
        BY <3>1, <3>2
    <2>. QED
      BY <1>0, <2>1, <2>2, <2>3
  <1>4. CASE CollectNone
    BY <1>4 DEF CollectNone
  <1>5. CASE TrainStep
    <2>1. /\ tpc = "train" /\ batch' = <<>> /\ Len(batch) = Required
          /\ UNCHANGED <<stopping, lastCkpt, taken>>
          /\ taken = (local - 1) * Required + Required
      BY <1>5 DEF TrainStep
    <2>2. taken = local * Required
      BY <1>0, <2>1
    <2>3. CASE VersionComplete
      <3>1. local' = 1 /\ tpc' = "reset" /\ local = Trigger
        BY <1>0, <1>5, <2>3 DEF TrainStep, VersionComplete
      <3>2. taken' = Required * Trigger
        BY <1>0, <2>1, <2>2, <3>1
      <3>. QED
        BY <2>1, <3>1, <3>2
    <2>4. CASE ~VersionComplete
      <3>1. local' = local + 1 /\ tpc' = "save" /\ version' = version
        BY <1>5, <2>4 DEF TrainStep
      <3>2. taken' = (local' - 1) * Required
        BY <1>0, <2>1, <2>2, <3>1
      <3>. QED
        BY <2>1, <3>1, <3>2
    <2>. QED
      BY <2>3, <2>4
  <1>6. CASE Stop
    BY <1>6 DEF Stop
  <1>7. ASSUME NEW expiring \in BOOLEAN, Save(expiring) PROVE VersionInv'
    <2>1. /\ tpc = "save" /\ batch = <<>> /\ tpc' = IF stopping THEN "done" ELSE "collect"
          /\ UNCHANGED <<batch, local, version, stopping, taken>>
      BY <1>7 DEF Save
    <2>2. stopping => lastCkpt' = version
      BY <1>7 DEF Save, SaveDue
    <2>3. ~stopping => taken' = (local' - 1) * Required + Len(batch') /\ Len(batch') = 0
      BY <1>0, <2>1
    <2>. QED
      BY <1>0, <2>1, <2>2, <2>3
  <1>. QED
    BY <1>1, <1>2, <1>3, <1>4, <1>5, <1>6, <1>7, TrainFrame DEF TrainerStep, Trainer

LEMMA VersionInit == Init => ResetForTrainer /\ VersionInv
  BY ConstantsAssumption DEF Init, ResetForTrainer, VersionInv, SyncPeriod, CheckpointOK

LEMMA VersionInvariant == Spec => [](ResetForTrainer /\ VersionInv)
  BY VersionInit, VersionStep, ResetStep, TypeCorrect, PTL DEF Spec

\* Weights are sent after exactly trigger_parameter_sync_step local steps of required_samples each,
\* and a run that is over has saved its last version.
THEOREM VersionsAreWhole == Spec => []VersionsWhole
  <1>1. VersionInv => VersionsWhole
    BY DEF VersionInv, VersionsWhole
  <1>. QED
    BY <1>1, VersionInvariant, PTL

(***************************************************************************)
(* The end signal.                                                         *)
(***************************************************************************)

TaskStep(s) == Store(s) \/ Reply(s) \/ Fail(s)

\* Only the processor and the tasks themselves change the tasks.
LEMMA TaskFrame ==
  [Next]_vars => \/ Processor \/ \E s \in Sample : TaskStep(s)
                 \/ UNCHANGED <<got, taskVars, procVars>>
  <1>. SUFFICES ASSUME [Next]_vars, ~Processor, \A s \in Sample : ~TaskStep(s)
                PROVE  UNCHANGED <<got, taskVars, procVars>>
    OBVIOUS
  <1>1. Feed \/ MainSignal \/ MainStop \/ Monitor => UNCHANGED <<got, taskVars, procVars>>
    BY Zenon DEF Feed, MainSignal, MainStop, Monitor, MonAsk, MonDecide, MonResume
  <1>2. Reset => UNCHANGED <<got, taskVars, procVars>>
    BY Zenon DEF Reset, ResetCall, ResetGranted, ResetAsk, ResetFinish
  <1>3. Trainer => UNCHANGED <<got, taskVars, procVars>>
    BY Zenon DEF Trainer, Collect, CollectNone, TrainStep, Stop, Save
  <1>4. UNCHANGED vars => UNCHANGED <<got, taskVars, procVars>>
    BY DEF vars
  <1>. QED
    BY <1>1, <1>2, <1>3, <1>4 DEF Next, TaskStep

\* Only puts and the trainer change the queue.
LEMMA QueueFrame ==
  [Next]_vars => \/ Collect \/ CollectNone \/ MainSignal \/ \E s \in Sample : Store(s)
                 \/ UNCHANGED queueVars
  <1>. SUFFICES ASSUME [Next]_vars, ~Collect, ~CollectNone, ~MainSignal,
                       \A s \in Sample : ~Store(s)
                PROVE  UNCHANGED queueVars
    OBVIOUS
  <1>1. Feed \/ MainStop \/ Monitor => UNCHANGED queueVars
    BY Zenon DEF Feed, MainStop, Monitor, MonAsk, MonDecide, MonResume
  <1>2. Reset => UNCHANGED queueVars
    BY Zenon DEF Reset, ResetCall, ResetGranted, ResetAsk, ResetFinish
  <1>3. Trainer => UNCHANGED queueVars
    BY Zenon DEF Trainer, TrainStep, Stop, Save
  <1>4. Processor => UNCHANGED queueVars
    BY Zenon DEF Processor, ProcAsk, ProcPause, DrainHarvest, DrainExit, ProcWaitItem, TakeSample,
       TakeEnd, ProcGranted, LimitHarvest, EndHarvest
  <1>5. ASSUME NEW s \in Sample, Reply(s) \/ Fail(s) PROVE UNCHANGED queueVars
    BY <1>5, Zenon DEF Reply, Fail
  <1>6. UNCHANGED vars => UNCHANGED queueVars
    BY DEF vars
  <1>. QED
    BY <1>1, <1>2, <1>3, <1>4, <1>5, <1>6 DEF Next

\* The streaming main moves forward, and the trainer never takes back its end.
LEMMA EndFrame ==
  [Next]_vars => /\ mpc # "stream" => mpc' # "stream"
                 /\ stopping => stopping'
                 /\ mpc' = mpc \/ MainSignal \/ MainStop
                 /\ stopping' = stopping \/ CollectNone
  <1>. SUFFICES ASSUME [Next]_vars
                PROVE  /\ mpc' = mpc \/ (MainSignal /\ mpc' = "flag") \/ (MainStop /\ mpc' = "over")
                       /\ stopping' = stopping \/ (CollectNone /\ stopping')
    OBVIOUS
  <1>1. mpc' = mpc \/ (MainSignal /\ mpc' = "flag") \/ (MainStop /\ mpc' = "over")
    <2>1. Feed \/ Processor \/ Monitor => UNCHANGED mainVars
      BY Zenon DEF Feed, Processor, ProcAsk, ProcPause, DrainHarvest, DrainExit, ProcWaitItem,
         TakeSample, TakeEnd, ProcGranted, LimitHarvest, EndHarvest, Monitor, MonAsk, MonDecide,
         MonResume
    <2>2. Reset \/ Trainer => UNCHANGED mainVars
      BY Zenon DEF Reset, ResetCall, ResetGranted, ResetAsk, ResetFinish, Trainer, Collect,
         CollectNone, TrainStep, Stop, Save
    <2>3. ASSUME NEW s \in Sample, Store(s) \/ Reply(s) \/ Fail(s) PROVE UNCHANGED mainVars
      BY <2>3, Zenon DEF Store, Reply, Fail
    <2>4. UNCHANGED vars => UNCHANGED mainVars
      BY DEF vars
    <2>. QED
      BY <2>1, <2>2, <2>3, <2>4 DEF Next, mainVars, MainSignal, MainStop
  <1>2. stopping' = stopping \/ (CollectNone /\ stopping')
    <2>1. TrainerStep => stopping' = stopping \/ (CollectNone /\ stopping')
      BY DEF TrainerStep, Trainer, ResetFinish, Collect, CollectNone, TrainStep, Stop, Save
    <2>. QED
      BY <2>1, TrainFrame DEF trainVars
  <1>. QED
    BY <1>1, <1>2

\* Samples that are in active_tasks under the task states t.
ActiveOf(t) == {s \in Sample : t[s] \notin {"none", "gone", "crashed"}}

LEMMA ActiveOfFinite ==
  ASSUME NEW t
  PROVE  IsFiniteSet(ActiveOf(t)) /\ Cardinality(ActiveOf(t)) \in Nat
  <1>1. IsFiniteSet(Sample)
    BY FS_Interval, ConstantsAssumption DEF Sample
  <1>2. IsFiniteSet(ActiveOf(t))
    BY <1>1, FS_Subset DEF ActiveOf
  <1>. QED
    BY <1>2, FS_CardinalityType

LEMMA ActiveIs == Active = ActiveOf(task) /\ Active' = ActiveOf(task')
  BY DEF Active, ActiveOf

\* Submitting adds at most one task; harvesting finished tasks takes at least one away.
LEMMA ActiveSubmitted ==
  ASSUME NEW t \in [Sample -> TaskState], NEW s
  PROVE  Cardinality(ActiveOf(Submitted(t, s))) <= Cardinality(ActiveOf(t)) + 1
  <1>. DEFINE after == Cardinality(ActiveOf(Submitted(t, s)))
              before == Cardinality(ActiveOf(t))
              with == Cardinality(ActiveOf(t) \cup {s})
  <1>1. ActiveOf(Submitted(t, s)) \subseteq ActiveOf(t) \cup {s}
    BY DEF ActiveOf, Submitted
  <1>2. IsFiniteSet(ActiveOf(t) \cup {s}) /\ (with = before \/ with = before + 1)
    BY ActiveOfFinite, FS_AddElement
  <1>3. after <= with
    BY <1>1, <1>2, FS_Subset
  <1>4. before \in Nat /\ after \in Nat
    BY ActiveOfFinite
  <1>. HIDE DEF after, before, with
  <1>5. after <= before + 1
    BY <1>2, <1>3, <1>4
  <1>. QED
    BY <1>5 DEF after, before

LEMMA ActiveReaped ==
  ASSUME task \in [Sample -> TaskState], NEW D \in SUBSET Finished, D # {}
  PROVE  Cardinality(ActiveOf(Reaped(D))) <= Cardinality(ActiveOf(task)) - 1
  <1>1. PICK s \in D : TRUE
    OBVIOUS
  <1>. DEFINE after == Cardinality(ActiveOf(Reaped(D)))
              before == Cardinality(ActiveOf(task))
              without == Cardinality(ActiveOf(task) \ {s})
  <1>2. s \in ActiveOf(task) /\ ActiveOf(Reaped(D)) \subseteq ActiveOf(task) \ {s}
    BY <1>1 DEF ActiveOf, Reaped, Finished
  <1>3. IsFiniteSet(ActiveOf(task) \ {s}) /\ without = before - 1
    BY <1>2, ActiveOfFinite, FS_RemoveElement
  <1>4. after <= without
    BY <1>2, <1>3, FS_Subset
  <1>. HIDE DEF after, before, without
  <1>5. after <= before - 1
    BY <1>3, <1>4, Zenon
  <1>. QED
    BY <1>5 DEF after, before

LEMMA MaxConcurrentPos ==
  MaxConcurrent \in Nat /\ MaxConcurrent >= 1 /\ MaxConcurrent <= MaxRequired
  BY MaxRequiredPos, ConstantsAssumption DEF MaxConcurrent

\* The tasks stay within what the replicas allow, and a processor that is about to submit, has
\* ended or has failed leaves room for one more: it has just harvested a task, or had found room.
ActiveInv ==
  /\ Cardinality(Active) <= MaxConcurrent
  /\ ppc \in {"submit", "failed", "ended"} => Cardinality(Active) < MaxConcurrent

LEMMA ActiveStep == TypeOK /\ ActiveInv /\ [Next]_vars => ActiveInv'
  <1>. SUFFICES ASSUME TypeOK, ActiveInv, [Next]_vars PROVE ActiveInv'
    OBVIOUS
  <1>. DEFINE before == Cardinality(ActiveOf(task))
              after == Cardinality(ActiveOf(task'))
              room == {"submit", "failed", "ended"}
              Within == after <= MaxConcurrent /\ (ppc' \in room => after < MaxConcurrent)
  <1>1. /\ before \in Nat /\ after \in Nat
        /\ MaxConcurrent \in Nat /\ MaxConcurrent >= 1
        /\ before <= MaxConcurrent /\ (ppc \in room => before < MaxConcurrent)
        /\ before = Cardinality(Active)
    BY ActiveOfFinite, ActiveIs, MaxConcurrentPos DEF ActiveInv
  <1>2. Within => ActiveInv'
    BY ActiveIs DEF ActiveInv
  <1>3. task \in [Sample -> TaskState]
    BY DEF TypeOK
  <1>4. UNCHANGED task => after = before
    OBVIOUS
  <1>. HIDE DEF before, after
  <1>5. after <= before /\ (ppc' \in room => ppc \in room) => Within
    BY <1>1
  <1>6. after <= before - 1 => Within
    BY <1>1
  <1>7. after <= before + 1 /\ before < MaxConcurrent /\ ppc' \notin room => Within
    BY <1>1
  <1>8. \A D \in SUBSET Finished : D # {} /\ task' = Reaped(D) => after <= before - 1
    BY <1>3, ActiveReaped DEF after, before
  <1>9. \A s : task' = Submitted(task, s) => after <= before + 1
    BY <1>3, ActiveSubmitted DEF after, before
  <1>10. CASE ProcAsk \/ ProcPause \/ DrainExit \/ ProcWaitItem
    BY <1>4, <1>5, <1>10, <1>1, <1>2
       DEF ProcAsk, ProcPause, DrainExit, ProcWaitItem, taskVars
  <1>11. CASE DrainHarvest
    <2>1. \/ UNCHANGED task /\ ppc' = "harvest"
          \/ \E D \in SUBSET Finished : D # {} /\ task' = Reaped(D)
      BY <1>11 DEF DrainHarvest, ReapDrained
    <2>2. CASE UNCHANGED task /\ ppc' = "harvest"
      BY <1>1, <1>2, <1>4, <1>5, <2>2
    <2>. QED
      BY <1>2, <1>6, <1>8, <2>1, <2>2
  <1>12. CASE TakeSample
    <2>1. CASE AtLimit
      <3>1. UNCHANGED task /\ ppc' \in {"limit", "limitwait"}
        BY <1>12, <2>1 DEF TakeSample, HoldOrWait
      <3>. QED
        BY <1>1, <1>2, <1>4, <1>5, <3>1
    <2>2. CASE ~AtLimit
      <3>1. before < MaxConcurrent
        BY <1>1, <2>2 DEF AtLimit
      <3>2. CASE UNCHANGED task
        BY <1>1, <1>2, <1>4, <3>1, <3>2
      <3>3. CASE task' = Submitted(task, got + 1) /\ ppc' = "top"
        BY <1>2, <1>7, <1>9, <3>1, <3>3
      <3>. QED
        BY <1>12, <2>2, <3>2, <3>3 DEF TakeSample
    <2>. QED
      BY <2>1, <2>2
  <1>13. CASE TakeEnd
    <2>1. UNCHANGED task /\ (ppc' \in room => ppc' = "ended" /\ Active = {})
      BY <1>13 DEF TakeEnd, HoldOrWait, taskVars
    <2>2. Active = {} => before = 0
      BY <1>1, FS_EmptySet
    <2>. QED
      BY <1>1, <1>2, <1>4, <2>1, <2>2
  <1>14. CASE ProcGranted
    <2>1. \/ UNCHANGED task /\ ppc' \in {"limitwait", "endwait"}
          \/ ppc = "submit" /\ task' = Submitted(task, got) /\ ppc' = "top"
      BY <1>14 DEF ProcGranted
    <2>2. CASE UNCHANGED task /\ ppc' \in {"limitwait", "endwait"}
      BY <1>1, <1>2, <1>4, <1>5, <2>2
    <2>3. CASE ppc = "submit" /\ task' = Submitted(task, got) /\ ppc' = "top"
      BY <1>1, <1>2, <1>7, <1>9, <2>3
    <2>. QED
      BY <2>1, <2>2, <2>3
  <1>15. CASE LimitHarvest
    <2>. DEFINE reaped == Reaped(Finished)
                between == Cardinality(ActiveOf(reaped))
    <2>1. Finished # {} /\ reaped \in [Sample -> TaskState]
      BY <1>3, <1>15, ReapedType DEF LimitHarvest
    <2>2. between \in Nat /\ between <= before - 1
      BY <1>3, <2>1, ActiveOfFinite, ActiveReaped DEF before
    <2>3. task' = reaped \/ (task' = Submitted(reaped, got) /\ ppc' = "top")
      BY <1>15 DEF LimitHarvest
    <2>4. CASE task' = reaped
      <3>1. after = between
        BY <2>4 DEF after
      <3>. QED
        BY <1>2, <1>6, <2>2, <3>1
    <2>5. CASE task' = Submitted(reaped, got) /\ ppc' = "top"
      <3>1. after <= between + 1
        BY <2>1, <2>5, ActiveSubmitted DEF after
      <3>. HIDE DEF between
      <3>2. after <= before
        BY <1>1, <2>2, <3>1
      <3>. QED
        BY <1>2, <1>5, <2>5, <3>2
    <2>. QED
      BY <2>3, <2>4, <2>5
  <1>16. CASE EndHarvest
    <2>1. Finished # {} /\ task' = Reaped(Finished)
      BY <1>16 DEF EndHarvest
    <2>. QED
      BY <1>2, <1>6, <1>8, <2>1
  <1>17. ASSUME NEW s \in Sample, TaskStep(s) PROVE ActiveInv'
    <2>1. UNCHANGED ppc
      BY <1>17 DEF TaskStep, Store, Reply, Fail, procVars
    <2>2. ActiveOf(task') = ActiveOf(task)
      BY <1>3, <1>17 DEF ActiveOf, TaskStep, Store, Reply, Fail
    <2>3. after = before
      BY <2>2 DEF after, before
    <2>. QED
      BY <1>1, <1>2, <1>5, <2>1, <2>3
  <1>18. CASE UNCHANGED <<got, taskVars, procVars>>
    BY <1>1, <1>2, <1>4, <1>5, <1>18 DEF taskVars, procVars
  <1>. QED
    BY <1>10, <1>11, <1>12, <1>13, <1>14, <1>15, <1>16, <1>17, <1>18, TaskFrame DEF Processor

LEMMA ActiveInvariant == Spec => []ActiveInv
  <1>1. Init => ActiveInv
    <2>. SUFFICES ASSUME Init PROVE ActiveInv
      OBVIOUS
    <2>1. Active = {} /\ ppc = "top"
      BY DEF Init, Active
    <2>. QED
      BY <2>1, FS_EmptySet, MaxConcurrentPos DEF ActiveInv
  <1>. QED
    BY <1>1, ActiveStep, TypeCorrect, PTL DEF Spec

\* put_sample moves the entries by k places, one if the queue is full and none otherwise, and adds
\* its argument at the end.
PutMoves(x, k) ==
  /\ k \in 0..Len(queue) /\ k = (IF MQ!Full THEN 1 ELSE 0)
  /\ dropped' = dropped + k
  /\ Len(queue') = Len(queue) + 1 - k
  /\ \A i \in 1..(Len(queue) - k) : queue'[i] = queue[i + k]
  /\ queue'[Len(queue')] = x

LEMMA PutPlaces ==
  ASSUME queue \in Seq(Entry), dropped \in Nat, NEW x \in Entry, MQ!Put(x)
  PROVE  \E k \in {0, 1} : PutMoves(x, k)
  <1>1. CASE MQ!Full
    <2>1. Len(queue) >= 1 /\ Len(queue) \in Nat
      BY <1>1, MaxRequiredPos DEF MQ!Full
    <2>2. queue' = Append(Tail(queue), x) /\ dropped' = dropped + 1
      BY <1>1 DEF MQ!Put
    <2>3. /\ Tail(queue) \in Seq(Entry) /\ Len(Tail(queue)) = Len(queue) - 1
          /\ \A i \in 1..(Len(queue) - 1) : Tail(queue)[i] = queue[i + 1]
      BY <2>1, HeadTailProperties
    <2>4. Len(queue') = Len(queue) /\ queue'[Len(queue')] = x
      BY <2>1, <2>2, <2>3, AppendProperties
    <2>5. \A i \in 1..(Len(queue) - 1) : queue'[i] = queue[i + 1]
      BY <2>1, <2>2, <2>3, AppendProperties
    <2>6. PutMoves(x, 1)
      BY <1>1, <2>1, <2>2, <2>4, <2>5 DEF PutMoves
    <2>. QED
      BY <2>6
  <1>2. CASE ~MQ!Full
    <2>1. queue' = Append(queue, x) /\ dropped' = dropped /\ Len(queue) \in Nat
      BY <1>2 DEF MQ!Put
    <2>2. Len(queue') = Len(queue) + 1 /\ queue'[Len(queue')] = x
      BY <2>1, AppendProperties
    <2>3. \A i \in 1..Len(queue) : queue'[i] = queue[i]
      BY <2>1, AppendProperties
    <2>4. PutMoves(x, 0)
      BY <1>2, <2>1, <2>2, <2>3 DEF PutMoves
    <2>. QED
      BY <2>4
  <1>. QED
    BY <1>1, <1>2

\* get_sample moves them by one.
LEMMA GetPlaces ==
  ASSUME queue \in Seq(Entry), queue # <<>>, NEW x, MQ!Get(x)
  PROVE  /\ Len(queue) \in Nat /\ Len(queue) >= 1
         /\ x = queue[1]
         /\ Len(queue') = Len(queue) - 1
         /\ \A i \in 1..(Len(queue) - 1) : queue'[i] = queue[i + 1]
  BY HeadTailProperties DEF MQ!Get

\* Once the stream has ended the processor is over, and the entries behind the end signal and the
\* samples still generating together leave a place free: the signal never comes to be the oldest
\* entry of a full queue.
EndPlace ==
  mpc # "stream" /\ ~stopping =>
    \E i \in DOMAIN queue :
      queue[i] = None /\ Len(queue) - i + Cardinality(Generating) < MaxConcurrent

LEMMA EndPlaceStep ==
  TypeOK /\ ActiveInv /\ EndAfterProcessor /\ EndPlace /\ [Next]_vars => EndPlace'
  <1>. SUFFICES ASSUME TypeOK, ActiveInv, EndAfterProcessor, EndPlace, [Next]_vars,
                       mpc' # "stream", ~stopping'
                PROVE  \E i \in DOMAIN queue' :
                         /\ queue'[i] = None
                         /\ Len(queue') - i + Cardinality(Generating') < MaxConcurrent
    BY DEF EndPlace
  <1>. DEFINE gen == Cardinality(GenOf(task))
              after == Cardinality(GenOf(task'))
              n == Len(queue)
  <1>1. /\ gen \in Nat /\ after \in Nat /\ n \in Nat /\ DOMAIN queue = 1..n
        /\ Generating = GenOf(task) /\ Generating' = GenOf(task')
        /\ MaxConcurrent \in Nat /\ MaxConcurrent <= MaxRequired /\ MaxRequired \in Nat
    BY GenFinite, OutstandingGen, OutstandingGenNext, MaxConcurrentPos, MaxRequiredPos DEF TypeOK
  <1>2. ~stopping
    BY EndFrame
  <1>. HIDE DEF gen, after
  <1>3. CASE MainSignal
    <2>1. ProcessorOver /\ UNCHANGED task /\ None \in Entry /\ MQ!Put(None)
      BY <1>3 DEF MainSignal, taskVars, Entry
    <2>2. after = gen /\ gen < MaxConcurrent
      <3>1. Cardinality(Active) < MaxConcurrent /\ gen <= Cardinality(Active)
        BY <2>1, GenActive DEF ProcessorOver, ActiveInv, gen
      <3>. QED
        BY <1>1, <2>1, <3>1, ActiveFinite DEF gen, after
    <2>3. PICK k \in {0, 1} : PutMoves(None, k)
      BY <2>1, PutPlaces DEF TypeOK
    <2>4. queue'[Len(queue')] = None /\ Len(queue') = n + 1 - k /\ k <= n
      BY <2>3 DEF PutMoves
    <2>5. Len(queue') \in DOMAIN queue' /\ Len(queue') \in Nat
      <3>1. queue' \in Seq(Entry)
        BY <2>1, PutEntry DEF TypeOK
      <3>. QED
        BY <1>1, <2>4, <3>1
    <2>. QED
      BY <1>1, <2>2, <2>4, <2>5 DEF after
  <1>4. CASE ~MainSignal
    <2>1. mpc # "stream"
      BY <1>4, EndFrame DEF MainStop
    <2>2. PICK i \in 1..n : queue[i] = None /\ n - i + gen < MaxConcurrent
      BY <1>1, <1>2, <2>1 DEF EndPlace, gen
    <2>3. ppc \in {"ended", "failed"} /\ ~Processor
      BY <2>1, Zenon DEF EndAfterProcessor, ProcessorOver, Processor, ProcAsk, ProcPause,
         DrainHarvest,
         DrainExit, ProcWaitItem, TakeSample, TakeEnd, ReadyToTake, ProcGranted, LimitHarvest,
         EndHarvest
    <2>. HIDE DEF n
    <2>4. ASSUME NEW s \in Sample, Store(s)
          PROVE  \E j \in DOMAIN queue' : /\ queue'[j] = None
                                          /\ Len(queue') - j + after < MaxConcurrent
      <3>1. [sample |-> s, at |-> version] \in Entry /\ MQ!Put([sample |-> s, at |-> version])
        BY <2>4 DEF Store, Entry, SampleEntry, TypeOK
      <3>2. after = gen - 1 /\ gen >= 1
        BY <2>4, GenLeft DEF Store, TypeOK, gen, after
      <3>3. PICK k \in {0, 1} : PutMoves([sample |-> s, at |-> version], k)
        BY <3>1, PutPlaces DEF TypeOK
      <3>4. /\ Len(queue') = n + 1 - k /\ k = (IF MQ!Full THEN 1 ELSE 0)
            /\ \A j \in 1..(n - k) : queue'[j] = queue[j + k]
        BY <3>3 DEF PutMoves, n
      <3>5. i > k
        <4>1. CASE n >= MaxRequired
          BY <1>1, <2>2, <3>2, <4>1
        <4>2. CASE n < MaxRequired
          <5>1. k = 0
            BY <1>1, <3>4, <4>2 DEF MQ!Full, n
          <5>. QED
            BY <5>1
        <4>. QED
          BY <1>1, <4>1, <4>2
      <3>6. queue'[i - k] = None
        <4>1. i - k \in 1..(n - k) /\ (i - k) + k = i
          BY <1>1, <3>5
        <4>. QED
          BY <2>2, <3>4, <4>1
      <3>7. i - k \in DOMAIN queue'
        <4>1. queue' \in Seq(Entry)
          BY <3>1, PutEntry DEF TypeOK
        <4>2. DOMAIN queue' = 1..(n + 1 - k)
          BY <3>4, <4>1
        <4>. QED
          BY <1>1, <3>5, <4>2
      <3>8. Len(queue') - (i - k) + after < MaxConcurrent
        <4>1. (n + 1 - k) - (i - k) + (gen - 1) < MaxConcurrent
          BY <1>1, <2>2
        <4>. QED
          BY <3>2, <3>4, <4>1
      <3>. QED
        BY <3>6, <3>7, <3>8
    <2>5. CASE Collect
      <3>1. queue # <<>> /\ MQ!Get(Head(queue)) /\ Head(queue) # None /\ UNCHANGED task
        BY <2>5 DEF Collect, taskVars
      <3>2. /\ Len(queue') = n - 1 /\ queue' \in Seq(Entry)
            /\ \A j \in 1..(n - 1) : queue'[j] = queue[j + 1] /\ Head(queue) = queue[1]
        BY <3>1, GetPlaces, GetEntry DEF TypeOK, n
      <3>3. i # 1
        BY <2>2, <3>1 DEF TypeOK
      <3>4. i - 1 \in 1..(n - 1) /\ (i - 1) + 1 = i
        BY <1>1, <3>3
      <3>5. queue'[i - 1] = None /\ i - 1 \in DOMAIN queue'
        BY <2>2, <3>2, <3>4
      <3>6. after = gen
        BY <3>1 DEF after, gen
      <3>7. (n - 1) - (i - 1) + gen < MaxConcurrent
        BY <1>1, <2>2
      <3>. QED
        BY <1>1, <3>2, <3>5, <3>6, <3>7 DEF after
    <2>6. CASE UNCHANGED queueVars
      <3>1. queue' = queue
        BY <2>6 DEF queueVars
      <3>2. after <= gen
        <4>1. ASSUME NEW s \in Sample, Reply(s) PROVE after = gen
          BY <4>1, GenKept DEF Reply, TypeOK, after, gen
        <4>2. ASSUME NEW s \in Sample, Fail(s) PROVE after = gen - 1
          BY <4>2, GenLeft DEF Fail, TypeOK, after, gen
        <4>3. ASSUME NEW s \in Sample, Store(s) PROVE after = gen - 1
          BY <4>3, GenLeft DEF Store, TypeOK, after, gen
        <4>4. UNCHANGED taskVars => after = gen
          BY DEF taskVars, after, gen
        <4>. QED
          BY <1>1, <2>3, <4>1, <4>2, <4>3, <4>4, TaskFrame DEF TaskStep
      <3>3. n - i + after < MaxConcurrent
        BY <1>1, <2>2, <3>2
      <3>. QED
        BY <1>1, <2>2, <3>1, <3>3 DEF n, after
    <2>7. ~CollectNone
      BY DEF CollectNone
    <2>. QED
      BY <1>1, <1>4, <2>4, <2>5, <2>6, <2>7, QueueFrame DEF after
  <1>. QED
    BY <1>3, <1>4

LEMMA EndPlaceInvariant == Spec => []EndPlace
  <1>1. Init => EndPlace
    BY DEF Init, EndPlace
  <1>. QED
    BY <1>1, EndPlaceStep, EndInvariant, ActiveInvariant, TypeCorrect, PTL DEF Spec

\* The end signal stays in the queue until the trainer takes it: tasks that outlive a failed
\* processor never push it out.
THEOREM EndSignalReaches == Spec => []EndSignalSurvives
  <1>1. EndPlace => EndSignalSurvives
    BY DEF EndPlace, EndSignalSurvives
  <1>. QED
    BY <1>1, EndPlaceInvariant, PTL

(***************************************************************************)
(* Every sample is in one place.                                           *)
(***************************************************************************)

\* The life of a sample task, one move of it at a time.
Lifecycle ==
  {<<"none", "gen">>, <<"gen", "stored">>, <<"gen", "displaced">>, <<"gen", "failed">>,
   <<"stored", "done">>, <<"displaced", "done">>, <<"done", "gone">>, <<"failed", "crashed">>}

\* A task moves along its life or stays where it is.
TasksMove == \A s \in Sample : task'[s] = task[s] \/ <<task[s], task'[s]>> \in Lifecycle

\* Samples are submitted in the order in which they are taken, and the one that the processor
\* holds is the last it took.
TaskInv ==
  /\ \A s \in Sample : s > got => task[s] = "none"
  /\ ppc \in {"submit", "limit", "limitwait"} => got \in Sample /\ task[got] = "none"

LEMMA TaskStepMoves ==
  TypeOK /\ TaskInv /\ [Next]_vars => TaskInv' /\ TasksMove
  <1>. SUFFICES ASSUME TypeOK, TaskInv, [Next]_vars PROVE TaskInv' /\ TasksMove
    OBVIOUS
  <1>0. /\ Total \in Nat /\ got \in 0..(Total + 1) /\ Sample = 1..Total
        /\ task \in [Sample -> TaskState]
    BY ConstantsAssumption DEF TypeOK, Sample
  <1>. DEFINE Harvested(D) == /\ D \in SUBSET Finished /\ task' = Reaped(D)
                              /\ got' = got
                              /\ ppc' \in {"submit", "limit", "limitwait"} => ppc = "limitwait"
  <1>1. \A D : Harvested(D) => TaskInv' /\ TasksMove
    <2>. SUFFICES ASSUME NEW D, Harvested(D) PROVE TaskInv' /\ TasksMove
      OBVIOUS
    <2>1. \A s \in Sample : task'[s] = task[s] \/ <<task[s], task'[s]>> \in Lifecycle
      BY DEF Reaped, Finished, Lifecycle
    <2>2. \A s \in Sample : task[s] = "none" => task'[s] = "none"
      BY DEF Reaped, Finished
    <2>. QED
      BY <1>0, <2>1, <2>2 DEF TasksMove, TaskInv
  <1>2. CASE UNCHANGED <<task, got>>
             /\ (ppc' \in {"submit", "limit", "limitwait"} =>
                 ppc \in {"submit", "limit", "limitwait"})
    BY <1>2 DEF TaskInv, TasksMove
  <1>3. CASE ProcAsk \/ ProcPause \/ DrainExit \/ ProcWaitItem
    <2>1. UNCHANGED <<task, got>> /\ ppc' \notin {"submit", "limit", "limitwait"}
      BY <1>3, Zenon DEF ProcAsk, ProcPause, DrainExit, ProcWaitItem, taskVars
    <2>. QED
      BY <1>2, <2>1
  <1>4. CASE DrainHarvest
    <2>1. \/ UNCHANGED <<task, got>> /\ ppc' = "harvest"
          \/ \E D : Harvested(D)
      BY <1>4 DEF DrainHarvest, ReapDrained
    <2>. QED
      BY <1>1, <1>2, <2>1
  <1>5. CASE TakeSample
    <2>1. got < Total /\ got' = got + 1 /\ got + 1 \in Sample /\ task[got + 1] = "none"
      BY <1>0, <1>5 DEF TakeSample, TaskInv
    <2>2. UNCHANGED task \/ (task' = Submitted(task, got + 1) /\ ppc' = "top")
      BY <1>5 DEF TakeSample, HoldOrWait
    <2>3. CASE UNCHANGED task
      BY <1>0, <2>1, <2>3 DEF TaskInv, TasksMove
    <2>4. CASE task' = Submitted(task, got + 1) /\ ppc' = "top"
      <3>1. /\ task'[got + 1] = "gen"
            /\ \A s \in Sample : s # got + 1 => task'[s] = task[s]
        BY <1>0, <2>1, <2>4 DEF Submitted
      <3>2. TasksMove
        BY <2>1, <3>1 DEF TasksMove, Lifecycle
      <3>. QED
        BY <1>0, <2>1, <2>4, <3>1, <3>2 DEF TaskInv
    <2>. QED
      BY <2>2, <2>3, <2>4
  <1>6. CASE TakeEnd
    <2>1. UNCHANGED task /\ got' = got + 1 /\ ppc' \notin {"submit", "limit", "limitwait"}
      BY <1>6 DEF TakeEnd, HoldOrWait, taskVars
    <2>. QED
      BY <1>0, <2>1 DEF TaskInv, TasksMove
  <1>7. CASE ProcGranted
    <2>1. CASE ppc = "submit"
      <3>1. got' = got /\ task' = Submitted(task, got) /\ ppc' = "top" /\ task[got] = "none"
            /\ got \in Sample
        BY <1>7, <2>1 DEF ProcGranted, TaskInv
      <3>2. task'[got] = "gen" /\ \A s \in Sample : s # got => task'[s] = task[s]
        BY <1>0, <3>1 DEF Submitted
      <3>3. TasksMove
        BY <3>1, <3>2 DEF TasksMove, Lifecycle
      <3>. QED
        BY <1>0, <3>1, <3>2, <3>3 DEF TaskInv
    <2>2. CASE ppc # "submit"
      BY <1>2, <1>7, <2>2 DEF ProcGranted
    <2>. QED
      BY <2>1, <2>2
  <1>8. CASE LimitHarvest
    <2>. DEFINE reaped == Reaped(Finished)
    <2>1. ppc = "limitwait" /\ got' = got /\ got \in Sample /\ task[got] = "none"
      BY <1>8 DEF LimitHarvest, TaskInv
    <2>2. \/ Harvested(Finished)
          \/ task' = Submitted(reaped, got) /\ ppc' = "top"
      BY <1>8, <2>1 DEF LimitHarvest
    <2>3. CASE task' = Submitted(reaped, got) /\ ppc' = "top"
      <3>1. /\ reaped \in [Sample -> TaskState]
            /\ \A s \in Sample : reaped[s] = task[s] \/ <<task[s], reaped[s]>> \in Lifecycle
            /\ \A s \in Sample : task[s] = "none" => reaped[s] = "none"
        BY <1>0, ReapedType DEF Reaped, Finished, Lifecycle
      <3>. HIDE DEF reaped
      <3>2. task'[got] = "gen" /\ \A s \in Sample : s # got => task'[s] = reaped[s]
        BY <2>1, <2>3, <3>1 DEF Submitted
      <3>3. TasksMove
        BY <2>1, <3>1, <3>2 DEF TasksMove, Lifecycle
      <3>. QED
        BY <1>0, <2>1, <2>3, <3>1, <3>2, <3>3 DEF TaskInv
    <2>. QED
      BY <1>1, <2>2, <2>3
  <1>9. CASE EndHarvest
    <2>1. Harvested(Finished)
      BY <1>9 DEF EndHarvest
    <2>. QED
      BY <1>1, <2>1
  <1>10. ASSUME NEW s \in Sample, TaskStep(s) PROVE TaskInv' /\ TasksMove
    <2>1. /\ UNCHANGED <<got, ppc>> /\ task[s] # "none"
          /\ \E v : task' = [task EXCEPT ![s] = v] /\ <<task[s], v>> \in Lifecycle
      BY <1>10 DEF TaskStep, Store, Reply, Fail, procVars, Lifecycle
    <2>2. /\ \A r \in Sample : r # s => task'[r] = task[r]
          /\ <<task[s], task'[s]>> \in Lifecycle
      BY <1>0, <2>1
    <2>3. TasksMove
      BY <2>2 DEF TasksMove
    <2>4. \A r \in Sample : task[r] = "none" => task'[r] = "none"
      BY <2>1, <2>2
    <2>. QED
      BY <1>0, <2>1, <2>3, <2>4 DEF TaskInv
  <1>11. CASE UNCHANGED <<got, taskVars, procVars>>
    BY <1>2, <1>11 DEF taskVars, procVars
  <1>. QED
    BY <1>3, <1>4, <1>5, <1>6, <1>7, <1>8, <1>9, <1>10, <1>11, TaskFrame DEF Processor

LEMMA TaskInvariant == Spec => []TaskInv
  <1>1. Init => TaskInv
    BY DEF Init, TaskInv
  <1>. QED
    BY <1>1, TaskStepMoves, TypeCorrect, PTL DEF Spec

\* No task ever goes back: a sample is submitted once, put once and answered once.
THEOREM TaskLifecycle == Spec => [][TasksMove]_vars
  BY TaskStepMoves, TaskInvariant, TypeCorrect, PTL DEF Spec

\* The samples of the entries of q, 0 for the end signal, and that no two are the same.
SamplesOf(q) == {q[i].sample : i \in DOMAIN q}
Distinct(q) == \A i, j \in DOMAIN q : q[i].sample = q[j].sample => i = j

LEMMA PutSamples ==
  ASSUME TypeOK, queue' \in Seq(Entry), Distinct(queue),
         NEW x \in Entry, x.sample \notin SamplesOf(queue), NEW k \in {0, 1}, PutMoves(x, k)
  PROVE  /\ Distinct(queue')
         /\ k = 0 => SamplesOf(queue') = SamplesOf(queue) \cup {x.sample}
         /\ k = 1 => /\ queue[1].sample \in SamplesOf(queue)
                     /\ SamplesOf(queue')
                          = (SamplesOf(queue) \ {queue[1].sample}) \cup {x.sample}
  <1>. DEFINE n == Len(queue)
  <1>1. /\ n \in Nat /\ DOMAIN queue = 1..n /\ DOMAIN queue' = 1..Len(queue')
        /\ Len(queue') = n + 1 - k /\ k <= n
        /\ \A i \in 1..(n - k) : queue'[i] = queue[i + k]
        /\ queue'[n + 1 - k] = x
    <2>1. queue \in Seq(Entry)
      BY DEF TypeOK
    <2>2. /\ k \in 0..n /\ Len(queue') = n + 1 - k
          /\ \A i \in 1..(n - k) : queue'[i] = queue[i + k]
          /\ queue'[Len(queue')] = x
      BY Zenon DEF PutMoves
    <2>. QED
      BY <2>1, <2>2
  <1>. HIDE DEF n
  <1>2. \A i \in 1..(n - k) : i + k \in DOMAIN queue /\ queue'[i].sample = queue[i + k].sample
    BY <1>1
  <1>3. \A i \in 1..(n - k) : queue'[i].sample # x.sample
    BY <1>2 DEF SamplesOf
  <1>4. DOMAIN queue' = (1..(n - k)) \cup {n + 1 - k}
    BY <1>1
  <1>5. Distinct(queue')
    <2>. SUFFICES ASSUME NEW i \in DOMAIN queue', NEW j \in DOMAIN queue',
                         queue'[i].sample = queue'[j].sample
                  PROVE  i = j
      BY DEF Distinct
    <2>1. CASE i \in 1..(n - k) /\ j \in 1..(n - k)
      <3>1. i + k = j + k
        BY <1>2, <2>1 DEF Distinct
      <3>. QED
        BY <1>1, <2>1, <3>1
    <2>. QED
      BY <1>1, <1>3, <1>4, <2>1
  <1>6. CASE k = 0
    <2>1. ASSUME NEW i \in DOMAIN queue PROVE queue[i].sample \in SamplesOf(queue')
      <3>1. i \in 1..(n - k) /\ i + k = i
        BY <1>1, <1>6
      <3>. QED
        BY <1>2, <1>4, <3>1 DEF SamplesOf
    <2>2. x.sample \in SamplesOf(queue')
      BY <1>1, <1>4 DEF SamplesOf
    <2>3. ASSUME NEW i \in DOMAIN queue'
          PROVE  queue'[i].sample \in SamplesOf(queue) \cup {x.sample}
      BY <1>1, <1>2, <1>4 DEF SamplesOf
    <2>. QED
      BY <1>5, <1>6, <2>1, <2>2, <2>3 DEF SamplesOf
  <1>7. CASE k = 1
    <2>1. 1 \in DOMAIN queue
      BY <1>1, <1>7
    <2>2. ASSUME NEW i \in DOMAIN queue, i # 1 PROVE queue[i].sample \in SamplesOf(queue')
      <3>1. i - 1 \in 1..(n - k) /\ (i - 1) + k = i
        BY <1>1, <1>7, <2>2
      <3>. QED
        BY <1>2, <1>4, <3>1 DEF SamplesOf
    <2>3. x.sample \in SamplesOf(queue')
      BY <1>1, <1>4 DEF SamplesOf
    <2>4. ASSUME NEW i \in DOMAIN queue'
          PROVE  queue'[i].sample \in (SamplesOf(queue) \ {queue[1].sample}) \cup {x.sample}
      <3>1. CASE i \in 1..(n - k)
        <4>1. i + k \in DOMAIN queue /\ i + k # 1 /\ queue'[i].sample = queue[i + k].sample
          BY <1>1, <1>2, <1>7, <3>1
        <4>. QED
          BY <2>1, <4>1 DEF SamplesOf, Distinct
      <3>2. CASE i = n + 1 - k
        BY <1>1, <3>2
      <3>. QED
        BY <1>4, <3>1, <3>2
    <2>5. queue[1].sample \in SamplesOf(queue)
      BY <2>1 DEF SamplesOf
    <2>. QED
      BY <1>5, <1>7, <2>2, <2>3, <2>4, <2>5 DEF SamplesOf
  <1>. QED
    BY <1>5, <1>6, <1>7

\* What both cases have in common.
LEMMA PutGrows ==
  ASSUME TypeOK, queue' \in Seq(Entry), Distinct(queue),
         NEW x \in Entry, x.sample \notin SamplesOf(queue), NEW k \in {0, 1}, PutMoves(x, k)
  PROVE  Distinct(queue') /\ SamplesOf(queue') \subseteq SamplesOf(queue) \cup {x.sample}
  <1>1. CASE k = 0
    BY <1>1, PutSamples, Zenon
  <1>2. CASE k = 1
    BY <1>2, PutSamples, Zenon
  <1>. QED
    BY <1>1, <1>2, Zenon

LEMMA GetSamples ==
  ASSUME TypeOK, queue' \in Seq(Entry), Distinct(queue), queue # <<>>, NEW x, MQ!Get(x)
  PROVE  /\ Distinct(queue')
         /\ x.sample \in SamplesOf(queue)
         /\ SamplesOf(queue') = SamplesOf(queue) \ {x.sample}
  <1>. DEFINE n == Len(queue)
  <1>1. /\ n \in Nat /\ n >= 1 /\ DOMAIN queue = 1..n /\ x = queue[1]
        /\ DOMAIN queue' = 1..(n - 1)
        /\ \A i \in 1..(n - 1) : queue'[i] = queue[i + 1]
    BY GetPlaces DEF TypeOK
  <1>. HIDE DEF n
  <1>2. \A i \in 1..(n - 1) : i + 1 \in DOMAIN queue /\ i + 1 # 1
    BY <1>1
  <1>3. \A i \in DOMAIN queue : i # 1 => i - 1 \in 1..(n - 1) /\ (i - 1) + 1 = i
    BY <1>1
  <1>4. 1 \in DOMAIN queue
    BY <1>1
  <1>5. Distinct(queue')
    <2>. SUFFICES ASSUME NEW i \in DOMAIN queue', NEW j \in DOMAIN queue',
                         queue'[i].sample = queue'[j].sample
                  PROVE  i = j
      BY DEF Distinct
    <2>1. i + 1 = j + 1
      <3>1. i \in 1..(n - 1) /\ j \in 1..(n - 1)
        BY <1>1
      <3>2. queue[i + 1].sample = queue[j + 1].sample
        BY <1>1, <3>1, Zenon
      <3>. QED
        BY <1>2, <3>1, <3>2, Zenon DEF Distinct
    <2>. QED
      BY <1>1, <2>1
  <1>6. ASSUME NEW i \in DOMAIN queue, i # 1 PROVE queue[i].sample \in SamplesOf(queue')
    BY <1>1, <1>3, <1>6 DEF SamplesOf
  <1>7. ASSUME NEW i \in DOMAIN queue' PROVE queue'[i].sample \in SamplesOf(queue) \ {x.sample}
    BY <1>1, <1>2, <1>4 DEF SamplesOf, Distinct
  <1>8. x.sample \in SamplesOf(queue)
    BY <1>1, <1>4 DEF SamplesOf
  <1>9. SamplesOf(queue') \subseteq SamplesOf(queue) \ {x.sample}
    BY <1>7 DEF SamplesOf
  <1>10. SamplesOf(queue) \ {x.sample} \subseteq SamplesOf(queue')
    <2>. SUFFICES ASSUME NEW i \in DOMAIN queue, queue[i].sample # x.sample
                  PROVE  queue[i].sample \in SamplesOf(queue')
      BY DEF SamplesOf
    <2>. QED
      BY <1>1, <1>6
  <1>. QED
    BY <1>5, <1>8, <1>9, <1>10

\* Where a sample can be that its task has put: the queue, the batch, or with the trainer.
Placed == QueuedSamples \cup BatchSamples \cup trained \cup abandoned
PutStates == {"stored", "displaced", "done", "gone"}

\* OnePlace, and what makes it inductive: a sample that is anywhere has been put, so the one that
\* is put next is nowhere yet, and the queue has no end signal but the one of MainSignal.
PlaceInv ==
  /\ Distinct(queue)
  /\ Distinct(batch)
  /\ QueuedSamples \cap (BatchSamples \cup trained \cup abandoned) = {}
  /\ (BatchSamples \cup abandoned) \cap trained = {}
  /\ \A s \in Placed : s \in Sample /\ task[s] \in PutStates
  /\ mpc = "stream" \/ stopping => 0 \notin SamplesOf(queue)
  /\ stopping => mpc # "stream"
  /\ ~stopping => abandoned = {}

LEMMA PlacesAre ==
  /\ QueuedSamples = SamplesOf(queue) \ {0} /\ BatchSamples = SamplesOf(batch)
  /\ QueuedSamples' = SamplesOf(queue') \ {0} /\ BatchSamples' = SamplesOf(batch')
  BY DEF QueuedSamples, BatchSamples, SamplesOf

\* A sample that has been put stays so.
LEMMA PutStays ==
  ASSUME TasksMove, NEW s \in Sample, task[s] \in PutStates
  PROVE  task'[s] \in PutStates
  BY DEF TasksMove, Lifecycle, PutStates

LEMMA EntrySample ==
  ASSUME NEW x \in Entry
  PROVE  /\ x = None \/ x.sample \in Sample
         /\ x = None <=> x.sample = 0
  BY ConstantsAssumption DEF Entry, SampleEntry, None, Sample

LEMMA PlaceStep ==
  TypeOK /\ TaskInv /\ VersionInv /\ PlaceInv /\ [Next]_vars => PlaceInv'
  <1>. SUFFICES ASSUME TypeOK, TaskInv, VersionInv, PlaceInv, [Next]_vars PROVE PlaceInv'
    OBVIOUS
  <1>. DEFINE Q == SamplesOf(queue)
              B == SamplesOf(batch)
              Q1 == SamplesOf(queue')
              B1 == SamplesOf(batch')
  <1>1. TasksMove /\ TypeOK'
    BY TaskStepMoves, TypeStep
  <1>2. 0 \notin Sample
    BY ConstantsAssumption DEF Sample
  <1>3. /\ Distinct(queue) /\ Distinct(batch)
        /\ (Q \ {0}) \cap (B \cup trained \cup abandoned) = {}
        /\ (B \cup abandoned) \cap trained = {}
        /\ \A s \in (Q \ {0}) \cup B \cup trained \cup abandoned :
             s \in Sample /\ task[s] \in PutStates /\ task'[s] \in PutStates
        /\ mpc = "stream" \/ stopping => 0 \notin Q
        /\ stopping => mpc # "stream"
        /\ ~stopping => abandoned = {}
    BY <1>1, PlacesAre, PutStays DEF PlaceInv, Placed
  <1>4. ASSUME Distinct(queue'), Distinct(batch'),
               (Q1 \ {0}) \cap (B1 \cup trained' \cup abandoned') = {},
               (B1 \cup abandoned') \cap trained' = {},
               \A s \in (Q1 \ {0}) \cup B1 \cup trained' \cup abandoned' :
                 s \in Sample /\ task'[s] \in PutStates,
               mpc' = "stream" \/ stopping' => 0 \notin Q1,
               stopping' => mpc' # "stream",
               ~stopping' => abandoned' = {}
        PROVE  PlaceInv'
    BY <1>4, PlacesAre DEF PlaceInv, Placed
  <1>5. mpc' = "stream" => mpc = "stream"
    BY EndFrame
  <1>. HIDE DEF Q, B, Q1, B1
  <1>6. CASE UNCHANGED queueVars /\ UNCHANGED trainVars
    <2>1. UNCHANGED <<queue, batch, trained, abandoned, stopping>> /\ Q1 = Q /\ B1 = B
      BY <1>6 DEF queueVars, trainVars, Q, Q1, B, B1
    <2>. QED
      BY <1>3, <1>4, <1>5, <2>1
  <1>7. ASSUME NEW s \in Sample, Store(s) PROVE PlaceInv'
    <2>. DEFINE x == [sample |-> s, at |-> version]
    <2>1. /\ x \in Entry /\ MQ!Put(x) /\ x.sample = s
          /\ UNCHANGED <<batch, trained, abandoned, stopping>> /\ B1 = B
          /\ task[s] = "gen" /\ task'[s] \in PutStates
      BY <1>7 DEF Store, Entry, SampleEntry, TypeOK, trainVars, B, B1, PutStates
    <2>. HIDE DEF x
    <2>2. s \notin Q /\ s \notin B \cup trained \cup abandoned
      BY <1>2, <1>3, <2>1 DEF PutStates
    <2>3. PICK k \in {0, 1} : PutMoves(x, k)
      BY <2>1, PutPlaces DEF TypeOK
    <2>4. Distinct(queue') /\ Q1 \subseteq Q \cup {s}
      <3>1. queue' \in Seq(Entry) /\ Distinct(queue) /\ x.sample \notin SamplesOf(queue)
        BY <1>1, <1>3, <2>1, <2>2 DEF Q, TypeOK
      <3>. QED
        BY <2>1, <2>3, <3>1, PutGrows, Zenon DEF Q, Q1
    <2>. QED
      BY <1>2, <1>3, <1>4, <1>5, <2>1, <2>2, <2>4
  <1>8. CASE MainSignal
    <2>1. /\ None \in Entry /\ MQ!Put(None) /\ None.sample = 0 /\ mpc = "stream" /\ mpc' = "flag"
          /\ UNCHANGED <<batch, trained, abandoned, stopping>> /\ B1 = B
      BY <1>8 DEF MainSignal, Entry, None, trainVars, B, B1
    <2>2. PICK k \in {0, 1} : PutMoves(None, k)
      BY <2>1, PutPlaces DEF TypeOK
    <2>3. 0 \notin Q
      BY <1>3, <2>1
    <2>4. Distinct(queue') /\ Q1 \subseteq Q \cup {0}
      <3>1. queue' \in Seq(Entry) /\ Distinct(queue) /\ None.sample \notin SamplesOf(queue)
        BY <1>1, <1>3, <2>1, <2>3 DEF Q, TypeOK
      <3>. QED
        BY <2>1, <2>2, <3>1, PutGrows, Zenon DEF Q, Q1
    <2>. QED
      BY <1>3, <1>4, <2>1, <2>4
  <1>9. CASE Collect
    <2>. DEFINE x == Head(queue)
    <2>1. /\ queue # <<>> /\ MQ!Get(x) /\ x # None /\ x \in Entry /\ batch' = Append(batch, x)
          /\ UNCHANGED <<mpc, trained, abandoned, stopping>>
      BY <1>9, GetEntry DEF Collect, mainVars, TypeOK
    <2>. HIDE DEF x
    <2>2. /\ Distinct(queue') /\ x.sample \in Q /\ Q1 = Q \ {x.sample}
      BY <1>1, <1>3, <2>1, GetSamples DEF Q, Q1, TypeOK
    <2>3. x.sample \in Sample /\ x.sample # 0
      BY <1>2, <2>1, EntrySample
    <2>4. x.sample \notin B
      BY <1>3, <2>2, <2>3
    <2>5. Distinct(batch') /\ B1 = B \cup {x.sample}
      <3>1. /\ Len(batch) \in Nat /\ DOMAIN batch = 1..Len(batch)
            /\ DOMAIN batch' = (1..Len(batch)) \cup {Len(batch) + 1}
            /\ \A i \in 1..Len(batch) : batch'[i] = batch[i]
            /\ batch'[Len(batch) + 1] = x
        BY <2>1, AppendProperties DEF TypeOK
      <3>. HIDE DEF x
      <3>2. Len(batch) + 1 \notin 1..Len(batch)
        BY <3>1
      <3>3. \A i \in DOMAIN batch : batch[i].sample # x.sample
        BY <2>4 DEF B, SamplesOf
      <3>4. Distinct(batch')
        BY <1>3, <3>1, <3>3, Zenon DEF Distinct
      <3>5. B1 = B \cup {x.sample}
        <4>1. \A i \in DOMAIN batch' : batch'[i].sample \in B \cup {x.sample}
          BY <3>1 DEF B, SamplesOf
        <4>2. \A i \in DOMAIN batch : batch[i].sample \in B1
          BY <3>1 DEF B1, SamplesOf
        <4>3. x.sample \in B1
          BY <3>1 DEF B1, SamplesOf
        <4>. QED
          BY <4>1, <4>2, <4>3 DEF B, B1, SamplesOf
      <3>. QED
        BY <3>4, <3>5
    <2>. QED
      BY <1>3, <1>4, <1>5, <2>1, <2>2, <2>3, <2>5
  <1>10. CASE CollectNone
    <2>1. /\ queue # <<>> /\ MQ!Get(None) /\ None.sample = 0 /\ batch' = <<>> /\ B1 = {}
          /\ UNCHANGED <<mpc, trained>> /\ abandoned' = B /\ stopping'
      BY <1>10, PlacesAre DEF CollectNone, mainVars, None, B, B1, SamplesOf
    <2>2. Distinct(queue') /\ 0 \in Q /\ Q1 = Q \ {0}
      BY <1>1, <1>3, <2>1, GetSamples DEF Q, Q1, TypeOK
    <2>3. Distinct(batch')
      BY <2>1 DEF Distinct
    <2>. QED
      BY <1>3, <1>4, <2>1, <2>2, <2>3
  <1>11. CASE TrainStep
    <2>1. /\ batch' = <<>> /\ B1 = {} /\ trained' = trained \cup B /\ Q1 = Q
          /\ UNCHANGED <<queue, abandoned, stopping, mpc>>
      BY <1>11, PlacesAre DEF TrainStep, queueVars, mainVars, B, B1, Q, Q1, SamplesOf
    <2>2. Distinct(batch')
      BY <2>1 DEF Distinct
    <2>3. abandoned = {}
      BY <1>3, <1>11 DEF TrainStep, VersionInv
    <2>. QED
      BY <1>3, <1>4, <2>1, <2>2, <2>3
  <1>12. CASE UNCHANGED queueVars
              /\ (ResetFinish \/ Stop \/ \E expiring \in BOOLEAN : Save(expiring))
    <2>1. /\ UNCHANGED <<queue, batch, trained, abandoned, stopping>> /\ Q1 = Q /\ B1 = B
      BY <1>12 DEF queueVars, ResetFinish, Stop, Save, Q, Q1, B, B1
    <2>. QED
      BY <1>3, <1>4, <1>5, <2>1
  <1>13. ResetFinish \/ Stop \/ (\E expiring \in BOOLEAN : Save(expiring)) => UNCHANGED queueVars
    BY Zenon DEF ResetFinish, Stop, Save
  <1>14. MainSignal \/ (\E s \in Sample : Store(s)) => UNCHANGED trainVars
    BY Zenon DEF MainSignal, Store
  <1>. QED
    BY <1>6, <1>7, <1>8, <1>9, <1>10, <1>11, <1>12, <1>13, <1>14, QueueFrame, TrainFrame
       DEF TrainerStep, Trainer

LEMMA PlaceInvariant == Spec => []PlaceInv
  <1>1. Init => PlaceInv
    BY DEF Init, MQ!QInit, PlaceInv, Placed, QueuedSamples, BatchSamples, SamplesOf, Distinct
  <1>. QED
    BY <1>1, PlaceStep, TypeCorrect, TaskInvariant, VersionInvariant, PTL DEF Spec

\* Samples whose task has been told of a drop and has not counted it yet.
DisplacedOf(t) == {s \in Sample : t[s] = "displaced"}

LEMMA DisplacedFinite ==
  ASSUME NEW t
  PROVE  IsFiniteSet(DisplacedOf(t)) /\ Cardinality(DisplacedOf(t)) \in Nat
  <1>1. IsFiniteSet(Sample)
    BY FS_Interval, ConstantsAssumption DEF Sample
  <1>2. IsFiniteSet(DisplacedOf(t))
    BY <1>1, FS_Subset DEF DisplacedOf
  <1>. QED
    BY <1>2, FS_CardinalityType

\* The processor submits and harvests; it never touches a task between the two.
LEMMA ProcessorMoves ==
  ASSUME TypeOK, Processor, NEW s \in Sample
  PROVE  task'[s] = task[s] \/ task'[s] \in {"gen", "gone", "crashed"}
  <1>. USE DEF TypeOK
  <1>1. \A D : Reaped(D)[s] = task[s] \/ Reaped(D)[s] \in {"gone", "crashed"}
    BY DEF Reaped
  <1>2. \A t \in [Sample -> TaskState] : \A r :
           Submitted(t, r)[s] = t[s] \/ Submitted(t, r)[s] = "gen"
    BY DEF Submitted
  <1>3. CASE ProcAsk \/ ProcPause \/ DrainExit \/ ProcWaitItem \/ TakeEnd
    BY <1>3, Zenon DEF ProcAsk, ProcPause, DrainExit, ProcWaitItem, TakeEnd, taskVars
  <1>4. CASE DrainHarvest
    BY <1>1, <1>4 DEF DrainHarvest, ReapDrained
  <1>5. CASE TakeSample
    BY <1>2, <1>5 DEF TakeSample
  <1>6. CASE ProcGranted
    BY <1>2, <1>6 DEF ProcGranted
  <1>7. CASE LimitHarvest
    BY <1>1, <1>2, <1>7, ReapedType DEF LimitHarvest
  <1>8. CASE EndHarvest
    BY <1>1, <1>8 DEF EndHarvest
  <1>. QED
    BY <1>3, <1>4, <1>5, <1>6, <1>7, <1>8 DEF Processor

LEMMA DropStep ==
  TypeOK /\ TaskInv /\ DropsReported /\ [Next]_vars => DropsReported'
  <1>. SUFFICES ASSUME TypeOK, TaskInv, DropsReported, [Next]_vars PROVE DropsReported'
    OBVIOUS
  <1>. DEFINE told == Cardinality(DisplacedOf(task))
              told1 == Cardinality(DisplacedOf(task'))
  <1>1. /\ told \in Nat /\ told1 \in Nat /\ dropped \in Nat /\ droppedStale \in Nat
        /\ generated \in Nat /\ processed \in Nat
        /\ Displaced = DisplacedOf(task) /\ Displaced' = DisplacedOf(task')
        /\ task \in [Sample -> TaskState]
    BY DisplacedFinite DEF TypeOK, Displaced, DisplacedOf
  <1>2. /\ dropped - (droppedStale + told) \in {0, 1}
        /\ mpc = "stream" => dropped = droppedStale + told
        /\ processed = generated + droppedStale
    BY <1>1 DEF DropsReported
  <1>3. ASSUME dropped' - (droppedStale' + told1) \in {0, 1},
               mpc' = "stream" => dropped' = droppedStale' + told1,
               processed' = generated' + droppedStale'
        PROVE  DropsReported'
    BY <1>1, <1>3 DEF DropsReported
  <1>4. mpc' = "stream" => mpc = "stream"
    BY EndFrame
  <1>. HIDE DEF told, told1
  <1>5. ASSUME told1 = told, UNCHANGED <<dropped, droppedStale, generated, processed>>
        PROVE  DropsReported'
    BY <1>2, <1>3, <1>4, <1>5
  <1>6. CASE Processor
    <2>1. UNCHANGED <<dropped, droppedStale, generated, processed>>
      BY <1>6, Zenon DEF Processor, ProcAsk, ProcPause, DrainHarvest, DrainExit, ProcWaitItem,
         TakeSample, TakeEnd, ProcGranted, LimitHarvest, EndHarvest, queueVars, taskVars
    <2>2. DisplacedOf(task') = DisplacedOf(task)
      BY <1>6, TaskStepMoves, ProcessorMoves DEF TasksMove, Lifecycle, DisplacedOf
    <2>. QED
      BY <1>5, <2>1, <2>2 DEF told, told1
  <1>7. ASSUME NEW s \in Sample, Store(s) PROVE DropsReported'
    <2>. DEFINE x == [sample |-> s, at |-> version]
    <2>1. /\ x \in Entry /\ MQ!Put(x) /\ task[s] = "gen"
          /\ task' = [task EXCEPT ![s] = IF MQ!Full THEN "displaced" ELSE "stored"]
          /\ UNCHANGED <<mpc, droppedStale, generated, processed>>
      BY <1>7 DEF Store, Entry, SampleEntry, TypeOK, mainVars
    <2>. HIDE DEF x
    <2>2. PICK k \in {0, 1} : PutMoves(x, k)
      BY <2>1, PutPlaces DEF TypeOK
    <2>3. dropped' = dropped + k /\ k = (IF MQ!Full THEN 1 ELSE 0)
      BY <2>2 DEF PutMoves
    <2>4. told1 = told + k
      <3>1. CASE MQ!Full
        <4>1. DisplacedOf(task') = DisplacedOf(task) \cup {s} /\ s \notin DisplacedOf(task)
          BY <1>1, <2>1, <3>1 DEF DisplacedOf
        <4>2. Cardinality(DisplacedOf(task) \cup {s}) = Cardinality(DisplacedOf(task)) + 1
          BY <4>1, DisplacedFinite, FS_AddElement
        <4>3. told1 = told + 1 /\ k = 1
          BY <2>3, <3>1, <4>1, <4>2, Zenon DEF told, told1
        <4>. QED
          BY <4>3
      <3>2. CASE ~MQ!Full
        <4>1. DisplacedOf(task') = DisplacedOf(task)
          BY <1>1, <2>1, <3>2 DEF DisplacedOf
        <4>. QED
          BY <1>1, <2>3, <3>2, <4>1 DEF told, told1
      <3>. QED
        BY <3>1, <3>2
    <2>. QED
      BY <1>1, <1>2, <1>3, <2>1, <2>3, <2>4
  <1>8. ASSUME NEW s \in Sample, Reply(s) PROVE DropsReported'
    <2>1. /\ task[s] \in {"stored", "displaced"} /\ task' = [task EXCEPT ![s] = "done"]
          /\ UNCHANGED <<mpc, dropped>> /\ processed' = processed + 1
      BY <1>8 DEF Reply, mainVars, queueVars
    <2>2. CASE task[s] = "stored"
      <3>1. generated' = generated + 1 /\ droppedStale' = droppedStale
        BY <1>8, <2>2 DEF Reply
      <3>2. DisplacedOf(task') = DisplacedOf(task)
        BY <1>1, <2>1, <2>2 DEF DisplacedOf
      <3>3. told1 = told
        BY <3>2 DEF told, told1
      <3>. QED
        BY <1>1, <1>2, <1>3, <2>1, <3>1, <3>3
    <2>3. CASE task[s] = "displaced"
      <3>1. generated' = generated /\ droppedStale' = droppedStale + 1
        BY <1>8, <2>3 DEF Reply
      <3>2. DisplacedOf(task') = DisplacedOf(task) \ {s} /\ s \in DisplacedOf(task)
        BY <1>1, <2>1, <2>3 DEF DisplacedOf
      <3>3. Cardinality(DisplacedOf(task) \ {s}) = Cardinality(DisplacedOf(task)) - 1
        BY <3>2, DisplacedFinite, FS_RemoveElement
      <3>4. told1 = told - 1
        BY <3>2, <3>3, Zenon DEF told, told1
      <3>. QED
        BY <1>1, <1>2, <1>3, <2>1, <3>1, <3>4
    <2>. QED
      BY <2>1, <2>2, <2>3
  <1>9. ASSUME NEW s \in Sample, Fail(s) PROVE DropsReported'
    <2>1. DisplacedOf(task') = DisplacedOf(task)
      BY <1>1, <1>9 DEF Fail, DisplacedOf
    <2>. QED
      BY <1>5, <1>9, <2>1 DEF Fail, queueVars, told, told1
  <1>10. CASE MainSignal
    <2>1. /\ None \in Entry /\ MQ!Put(None) /\ mpc = "stream" /\ mpc' = "flag"
          /\ UNCHANGED <<task, droppedStale, generated, processed>>
      BY <1>10 DEF MainSignal, Entry, taskVars
    <2>2. PICK k \in {0, 1} : PutMoves(None, k)
      BY <2>1, PutPlaces DEF TypeOK
    <2>3. dropped' = dropped + k /\ told1 = told
      BY <2>1, <2>2 DEF PutMoves, told, told1
    <2>. QED
      BY <1>1, <1>2, <1>3, <2>1, <2>3
  <1>11. CASE UNCHANGED <<got, taskVars, procVars>> /\ ~MainSignal
    <2>1. UNCHANGED dropped
      <3>1. Collect \/ CollectNone => UNCHANGED dropped
        BY DEF Collect, CollectNone, MQ!Get
      <3>2. ASSUME NEW s \in Sample, Store(s) PROVE FALSE
        BY <1>1, <1>11, <3>2 DEF Store, taskVars
      <3>. QED
        BY <1>11, <3>1, <3>2, QueueFrame DEF queueVars
    <2>. QED
      BY <1>5, <1>11, <2>1 DEF taskVars, told, told1
  <1>12. MainSignal => UNCHANGED <<got, taskVars, procVars>>
    BY DEF MainSignal
  <1>. QED
    BY <1>6, <1>7, <1>8, <1>9, <1>10, <1>11, TaskFrame DEF TaskStep

LEMMA DropInvariant == Spec => []DropsReported
  <1>1. Init => DropsReported
    <2>. SUFFICES ASSUME Init PROVE DropsReported
      OBVIOUS
    <2>1. Displaced = {}
      BY DEF Init, Displaced
    <2>2. Cardinality(Displaced) = 0
      BY <2>1, FS_EmptySet
    <2>. QED
      BY <2>2 DEF Init, MQ!QInit, DropsReported
  <1>. QED
    BY <1>1, DropStep, TypeCorrect, TaskInvariant, PTL DEF Spec

\* No sample is in two places, trained twice or lost without being counted, even when a task fails
\* and the others outlive the processor.
THEOREM SamplesAreKept == Spec => []SamplesKept
  <1>1. TypeOK /\ TaskInv /\ PlaceInv => OnePlace
    <2>. SUFFICES ASSUME TypeOK, TaskInv, PlaceInv PROVE OnePlace
      OBVIOUS
    <2>1. Generating \cap Placed = {}
      BY DEF PlaceInv, Generating, PutStates
    <2>. QED
      BY <2>1 DEF OnePlace, PlaceInv, TaskInv, Placed, Distinct
  <1>. QED
    BY <1>1, TypeCorrect, TaskInvariant, PlaceInvariant, DropInvariant, PTL DEF SamplesKept

(***************************************************************************)
(* Freshness.                                                              *)
(***************************************************************************)

\* The samples of a parameter version, and all that the trainer has taken since it started.
Period == Required * Trigger
Before == version * Period + (local - 1) * Required
AllTaken == Before + Len(batch)

\* Entry i of the queue q, if no end signal is before it, will be taken when t, which is AllTaken,
\* is i - 1 more than now.  From the start of the version it was put at until then the trainer
\* takes at most MaxRequired samples; of the batch that is already so.
QueueFresh(q, t) ==
  \A i \in DOMAIN q :
    (\A j \in 1..i : q[j] # None) => t + i - 1 <= q[i].at * Period + MaxRequired
BatchFresh(b, t) == \A i \in DOMAIN b : t + i - 1 <= b[i].at * Period + MaxRequired
LagInv == ~stopping => QueueFresh(queue, AllTaken) /\ BatchFresh(batch, Before)

LEMMA LagTypes ==
  ASSUME TypeOK
  PROVE  /\ Period \in Nat /\ Period >= 1
         /\ Before \in Nat /\ Len(batch) \in Nat /\ AllTaken \in Nat
         /\ (local - 1) * Required \in Nat /\ version * Period \in Nat
         /\ \A n \in Nat : n * Period \in Nat
  <1>1. /\ Required \in Nat /\ Required >= 1 /\ Trigger \in Nat /\ Trigger >= 1
        /\ version \in Nat /\ local - 1 \in Nat /\ Len(batch) \in Nat
    BY ConstantsAssumption DEF TypeOK
  <1>2. \A x, y \in Nat : x * y \in Nat
    BY Z3
  <1>3. \A x, y \in Nat : x >= 1 /\ y >= 1 => x * y >= 1
    BY Z3
  <1>4. Period \in Nat /\ Period >= 1
    BY <1>1, <1>2, <1>3 DEF Period
  <1>5. (local - 1) * Required \in Nat /\ version * Period \in Nat
    BY <1>1, <1>2, <1>4
  <1>. DEFINE a == (local - 1) * Required
              b == version * Period
  <1>6. a \in Nat /\ b \in Nat /\ Before = b + a /\ AllTaken = Before + Len(batch)
    BY <1>5 DEF Before, AllTaken
  <1>. HIDE DEF a, b
  <1>7. Before \in Nat /\ AllTaken \in Nat
    BY <1>1, <1>6
  <1>. QED
    BY <1>1, <1>2, <1>4, <1>5, <1>7

\* The trainer has taken as many samples for the version as it counts since the last reset.
LEMMA TakenSince ==
  ASSUME TypeOK, VersionInv, ~stopping
  PROVE  \/ AllTaken = version * Period + taken
         \/ AllTaken = version * Period
  <1>. DEFINE a == (local - 1) * Required
              b == version * Period
  <1>1. a \in Nat /\ b \in Nat /\ Len(batch) \in Nat /\ AllTaken = b + a + Len(batch)
    BY LagTypes DEF AllTaken, Before
  <1>2. taken \in Nat /\ (batch = <<>> => Len(batch) = 0)
    BY DEF TypeOK
  <1>3. CASE tpc \in {"collect", "train"}
    <2>1. taken = a + Len(batch)
      BY <1>3 DEF VersionInv, SyncPeriod
    <2>. HIDE DEF a, b
    <2>2. AllTaken = b + taken
      BY <1>1, <1>2, <2>1
    <2>. QED
      BY <2>2 DEF b
  <1>4. CASE tpc = "save"
    <2>1. taken = a /\ Len(batch) = 0
      BY <1>2, <1>4 DEF VersionInv
    <2>. HIDE DEF a, b
    <2>2. AllTaken = b + taken
      BY <1>1, <1>2, <2>1
    <2>. QED
      BY <2>2 DEF b
  <1>5. CASE tpc = "reset"
    <2>1. a = 0 /\ Len(batch) = 0
      BY <1>2, <1>5, ConstantsAssumption DEF VersionInv
    <2>. HIDE DEF a, b
    <2>2. AllTaken = b
      BY <1>1, <2>1
    <2>. QED
      BY <2>2 DEF b
  <1>. QED
    BY <1>3, <1>4, <1>5 DEF TypeOK, VersionInv

LEMMA EntryAt ==
  ASSUME TypeOK, NEW x \in Entry
  PROVE  x.at * Period \in Nat
  <1>1. x.at \in Nat
    BY DEF Entry, SampleEntry, None
  <1>2. \A m \in Nat : m * Period \in Nat
    BY LagTypes
  <1>. QED
    BY <1>1, <1>2, Zenon

\* A put keeps the queue fresh if the entry it drops is no end signal and its own is fresh.
LEMMA PutFresh ==
  ASSUME TypeOK, queue' \in Seq(Entry), NEW t \in Nat, QueueFresh(queue, t),
         NEW x \in Entry, NEW k \in {0, 1}, PutMoves(x, k),
         k = 1 => queue[1] # None,
         (\A j \in DOMAIN queue : queue[j] # None) /\ x # None
            => t + Len(queue') - 1 <= x.at * Period + MaxRequired
  PROVE  QueueFresh(queue', t)
  <1>. DEFINE n == Len(queue)
  <1>1. /\ n \in Nat /\ DOMAIN queue = 1..n
        /\ Len(queue') = n + 1 - k /\ k <= n
        /\ \A i \in 1..(n - k) : queue'[i] = queue[i + k]
        /\ queue'[Len(queue')] = x
    <2>1. queue \in Seq(Entry)
      BY DEF TypeOK
    <2>2. n \in Nat /\ DOMAIN queue = 1..n
      BY <2>1
    <2>3. /\ Len(queue') = n + 1 - k
          /\ \A i \in 1..(n - k) : queue'[i] = queue[i + k]
          /\ queue'[Len(queue')] = x
      BY DEF PutMoves
    <2>4. k \in 0..n
      BY DEF PutMoves
    <2>. HIDE DEF n
    <2>. QED
      BY <2>2, <2>3, <2>4
  <1>2. DOMAIN queue' = 1..Len(queue') /\ Len(queue') \in Nat /\ MaxRequired \in Nat
    BY MaxRequiredPos
  <1>. HIDE DEF n
  <1>3. 1..Len(queue') = (1..(n - k)) \cup {Len(queue')}
    BY <1>1
  <1>4. ASSUME \A j \in 1..Len(queue') : queue'[j] # None
        PROVE  \A j \in DOMAIN queue : queue[j] # None
    <2>. SUFFICES ASSUME NEW j \in 1..n, queue[j] = None PROVE FALSE
      BY <1>1
    <2>1. CASE j > k
      <3>1. j - k \in 1..(n - k) /\ (j - k) + k = j
        BY <1>1, <2>1
      <3>. QED
        BY <1>1, <1>3, <1>4, <3>1
    <2>2. CASE j <= k
      <3>1. k = 1 /\ j = 1
        BY <2>2
      <3>. QED
        BY <3>1
    <2>. QED
      BY <1>1, <2>1, <2>2
  <1>5. ASSUME NEW i \in 1..(n - k), \A j \in 1..i : queue'[j] # None
        PROVE  t + i - 1 <= queue'[i].at * Period + MaxRequired
    <2>1. i + k \in DOMAIN queue /\ queue'[i] = queue[i + k] /\ queue[i + k] \in Entry
      <3>1. i + k \in 1..n
        BY <1>1
      <3>2. queue'[i] = queue[i + k]
        BY <1>1, Zenon
      <3>3. \A j \in DOMAIN queue : queue[j] \in Entry
        BY DEF TypeOK
      <3>. QED
        BY <1>1, <3>1, <3>2, <3>3, Zenon
    <2>2. \A j \in 1..(i + k) : queue[j] # None
      <3>. SUFFICES ASSUME NEW j \in 1..(i + k), queue[j] = None PROVE FALSE
        OBVIOUS
      <3>1. CASE j > k
        <4>1. j - k \in 1..i /\ j - k \in 1..(n - k) /\ (j - k) + k = j
          BY <1>1, <3>1
        <4>. QED
          BY <1>1, <1>5, <4>1
      <3>2. CASE j <= k
        <4>1. k = 1 /\ j = 1
          BY <3>2
        <4>. QED
          BY <4>1
      <3>. QED
        BY <1>1, <3>1, <3>2
    <2>. DEFINE m == i + k
                bound == queue[m].at * Period + MaxRequired
    <2>3. m \in DOMAIN queue /\ (\A j \in 1..m : queue[j] # None) /\ queue[m] \in Entry
      BY <2>1, <2>2
    <2>4. m = i + k
      OBVIOUS
    <2>. HIDE DEF m
    <2>5. bound \in Nat
      <3>1. \A y \in Entry : y.at * Period \in Nat
        BY EntryAt
      <3>2. queue[m].at * Period \in Nat
        BY <2>3, <3>1, Zenon
      <3>. QED
        BY <1>2, <3>2
    <2>6. t + m - 1 <= bound
      BY <2>3 DEF QueueFresh
    <2>. HIDE DEF bound
    <2>7. t + i - 1 <= bound
      BY <1>1, <2>4, <2>5, <2>6
    <2>8. queue'[i] = queue[m]
      BY <2>1, <2>4
    <2>. QED
      BY <2>7, <2>8 DEF bound
  <1>6. ASSUME \A j \in 1..Len(queue') : queue'[j] # None
        PROVE  t + Len(queue') - 1 <= queue'[Len(queue')].at * Period + MaxRequired
    <2>1. Len(queue') \in 1..Len(queue')
      BY <1>3
    <2>2. x # None
      BY <1>1, <1>6, <2>1
    <2>3. \A j \in DOMAIN queue : queue[j] # None
      BY <1>4, <1>6
    <2>. QED
      BY <1>1, <2>2, <2>3
  <1>. QED
    BY <1>2, <1>3, <1>5, <1>6 DEF QueueFresh

\* The entry that a full queue drops is never the end signal.
LEMMA NoSignalDropped ==
  ASSUME TypeOK, PlaceInv, EndPlace,
         mpc = "stream" \/ stopping \/ Generating # {},
         MQ!Full
  PROVE  queue # <<>> /\ queue[1] # None
  <1>. DEFINE n == Len(queue)
              gen == Cardinality(GenOf(task))
  <1>1. /\ n \in Nat /\ DOMAIN queue = 1..n /\ n >= MaxRequired /\ MaxRequired >= 1
        /\ MaxRequired \in Nat /\ MaxConcurrent \in Nat /\ MaxConcurrent <= MaxRequired
        /\ gen \in Nat /\ Generating = GenOf(task)
    BY MaxRequiredPos, MaxConcurrentPos, GenFinite, OutstandingGen DEF MQ!Full, TypeOK
  <1>. HIDE DEF n
  <1>2. 1 \in DOMAIN queue
    BY <1>1
  <1>3. CASE mpc = "stream" \/ stopping
    <2>1. 0 \notin SamplesOf(queue)
      BY <1>3 DEF PlaceInv
    <2>2. queue[1].sample # 0
      BY <1>2, <2>1 DEF SamplesOf
    <2>. QED
      BY <1>2, <2>2 DEF None
  <1>4. CASE mpc # "stream" /\ ~stopping /\ Generating # {}
    <2>1. gen >= 1
      BY <1>1, <1>4, GenFinite, FS_EmptySet
    <2>. HIDE DEF gen
    <2>2. PICK i \in 1..n : queue[i] = None /\ n - i + gen < MaxConcurrent
      BY <1>1, <1>4 DEF EndPlace, n, gen
    <2>3. i # 1
      BY <1>1, <2>1, <2>2
    <2>. QED
      BY <1>1, <1>2, <2>2, <2>3 DEF PlaceInv, Distinct
  <1>. QED
    BY <1>3, <1>4

LEMMA LagStep ==
  /\ TypeOK /\ VersionInv /\ PlaceInv /\ EndPlace /\ OutstandingBound /\ LagInv
  /\ [Next]_vars
  => LagInv'
  <1>. SUFFICES ASSUME TypeOK, VersionInv, PlaceInv, EndPlace, OutstandingBound, LagInv,
                       [Next]_vars, ~stopping'
                PROVE  QueueFresh(queue', AllTaken') /\ BatchFresh(batch', Before')
    BY DEF LagInv, QueueFresh, BatchFresh, Period, AllTaken, Before
  <1>. DEFINE n == Len(queue)
  <1>1. ~stopping /\ QueueFresh(queue, AllTaken) /\ BatchFresh(batch, Before)
    BY EndFrame DEF LagInv
  <1>2. /\ Before \in Nat /\ AllTaken \in Nat /\ n \in Nat /\ Len(batch) \in Nat
        /\ MaxRequired \in Nat /\ AllTaken = Before + Len(batch)
    BY LagTypes, MaxRequiredPos DEF TypeOK, AllTaken
  <1>3. queue' \in Seq(Entry)
    BY TypeStep DEF TypeOK
  <1>. HIDE DEF n
  <1>4. ASSUME UNCHANGED trainVars
        PROVE  AllTaken' = AllTaken /\ BatchFresh(batch', Before')
    <2>1. UNCHANGED <<batch, version, local>>
      BY <1>4 DEF trainVars
    <2>. QED
      BY <1>1, <2>1 DEF AllTaken, Before
  <1>5. CASE UNCHANGED queueVars /\ UNCHANGED trainVars
    <2>1. queue' = queue
      BY <1>5 DEF queueVars
    <2>. QED
      BY <1>1, <1>4, <1>5, <2>1
  <1>6. ASSUME NEW s \in Sample, Store(s)
        PROVE  QueueFresh(queue', AllTaken') /\ BatchFresh(batch', Before')
    <2>. DEFINE x == [sample |-> s, at |-> version]
                gen == Cardinality(GenOf(task))
    <2>1. /\ x \in Entry /\ MQ!Put(x) /\ x.at = version /\ task[s] = "gen"
          /\ UNCHANGED trainVars
      BY <1>6 DEF Store, Entry, SampleEntry, TypeOK
    <2>. HIDE DEF x
    <2>2. PICK k \in {0, 1} : PutMoves(x, k)
      BY <2>1, PutPlaces DEF TypeOK
    <2>3. gen \in Nat /\ gen >= 1 /\ Generating = GenOf(task) /\ Generating # {}
      BY <2>1, GenLeft, GenFinite, OutstandingGen DEF TypeOK, Generating
    <2>. HIDE DEF gen
    <2>4. k = 1 => queue[1] # None
      BY <2>2, <2>3, NoSignalDropped DEF PutMoves
    <2>5. ASSUME \A j \in DOMAIN queue : queue[j] # None
          PROVE  AllTaken + Len(queue') - 1 <= x.at * Period + MaxRequired
      <3>. DEFINE base == version * Period
                  m == Len(queue')
      <3>1. mpc = "stream"
        BY <1>1, <2>5 DEF EndPlace
      <3>2. taken + (n + gen + Held) <= MaxRequired + 1 + 0
        BY <3>1, OutstandingGen DEF OutstandingBound, StreamEnd, n, gen
      <3>3. m <= n + 1 /\ m \in Nat
        BY <1>2, <1>3, <2>2 DEF PutMoves, n
      <3>4. /\ base \in Nat /\ (AllTaken = base + taken \/ AllTaken = base) /\ taken \in Nat
            /\ Held \in {0, 1}
        BY <1>1, TakenSince, LagTypes, OutstandingNat DEF TypeOK
      <3>. HIDE DEF base, m
      <3>5. AllTaken + m - 1 <= base + MaxRequired
        BY <1>2, <2>3, <3>2, <3>3, <3>4
      <3>. QED
        BY <2>1, <3>5 DEF base, m
    <2>6. QueueFresh(queue', AllTaken)
      BY <1>1, <1>2, <1>3, <2>1, <2>2, <2>4, <2>5, PutFresh
    <2>. QED
      BY <1>4, <2>1, <2>6
  <1>7. CASE MainSignal
    <2>1. None \in Entry /\ MQ!Put(None) /\ mpc = "stream" /\ UNCHANGED trainVars
      BY <1>7 DEF MainSignal, Entry
    <2>2. PICK k \in {0, 1} : PutMoves(None, k)
      BY <2>1, PutPlaces DEF TypeOK
    <2>3. k = 1 => queue[1] # None
      BY <2>1, <2>2, NoSignalDropped DEF PutMoves
    <2>4. QueueFresh(queue', AllTaken)
      BY <1>1, <1>2, <1>3, <2>1, <2>2, <2>3, PutFresh
    <2>. QED
      BY <1>4, <2>1, <2>4
  <1>8. CASE Collect
    <2>. DEFINE x == Head(queue)
                l == Len(batch)
    <2>1. /\ queue # <<>> /\ MQ!Get(x) /\ x # None /\ batch' = Append(batch, x)
          /\ UNCHANGED <<local, version>> /\ Before' = Before
      BY <1>8 DEF Collect, Before
    <2>. HIDE DEF x
    <2>2. /\ n >= 1 /\ x = queue[1] /\ Len(queue') = n - 1 /\ DOMAIN queue = 1..n
          /\ DOMAIN queue' = 1..(n - 1)
          /\ \A i \in 1..(n - 1) : queue'[i] = queue[i + 1]
      BY <1>2, <1>3, <2>1, GetPlaces DEF TypeOK, n
    <2>3. /\ DOMAIN batch' = (1..l) \cup {l + 1} /\ Len(batch') = l + 1 /\ DOMAIN batch = 1..l
          /\ \A i \in 1..l : batch'[i] = batch[i]
          /\ batch'[l + 1] = x
      BY <2>1, AppendProperties DEF TypeOK
    <2>4. AllTaken' = AllTaken + 1
      BY <1>2, <2>1, <2>3 DEF AllTaken
    <2>. HIDE DEF l
    <2>5. ASSUME NEW i \in 1..(n - 1), \A j \in 1..i : queue'[j] # None
          PROVE  AllTaken' + i - 1 <= queue'[i].at * Period + MaxRequired
      <3>1. i + 1 \in DOMAIN queue /\ queue'[i] = queue[i + 1] /\ queue[i + 1] \in Entry
        BY <1>2, <2>2 DEF TypeOK
      <3>2. \A j \in 1..(i + 1) : queue[j] # None
        <4>. SUFFICES ASSUME NEW j \in 1..(i + 1), j # 1 PROVE queue[j] # None
          BY <2>1, <2>2
        <4>1. j - 1 \in 1..i /\ j - 1 \in 1..(n - 1) /\ (j - 1) + 1 = j
          BY <1>2
        <4>. QED
          BY <2>2, <2>5, <4>1
      <3>. DEFINE bound == queue[i + 1].at * Period + MaxRequired
      <3>3. bound \in Nat
        BY <1>2, <3>1, EntryAt
      <3>4. AllTaken + (i + 1) - 1 <= bound
        BY <1>1, <3>1, <3>2 DEF QueueFresh
      <3>. HIDE DEF bound
      <3>5. AllTaken' + i - 1 <= bound
        BY <1>2, <2>4, <3>3, <3>4
      <3>. QED
        BY <3>1, <3>5 DEF bound
    <2>6. QueueFresh(queue', AllTaken')
      BY <2>2, <2>5 DEF QueueFresh
    <2>7. Before + (l + 1) - 1 <= x.at * Period + MaxRequired
      <3>1. 1 \in DOMAIN queue /\ \A j \in 1..1 : queue[j] # None
        BY <1>2, <2>1, <2>2
      <3>. DEFINE bound == x.at * Period + MaxRequired
      <3>2. bound \in Nat
        <4>1. queue \in Seq(Entry)
          BY DEF TypeOK
        <4>2. queue[1] \in Entry
          BY <3>1, <4>1
        <4>3. x \in Entry
          BY <2>2, <4>2
        <4>. QED
          BY <1>2, <4>3, EntryAt
      <3>3. AllTaken + 1 - 1 <= bound
        BY <1>1, <2>2, <3>1 DEF QueueFresh
      <3>. HIDE DEF bound
      <3>4. Before + (l + 1) - 1 <= bound
        BY <1>2, <3>2, <3>3 DEF l
      <3>. QED
        BY <3>4 DEF bound
    <2>8. BatchFresh(batch', Before')
      BY <1>1, <2>1, <2>3, <2>7 DEF BatchFresh
    <2>. QED
      BY <2>6, <2>8
  <1>9. CASE TrainStep
    <2>1. queue' = queue /\ batch' = <<>> /\ tpc = "train" /\ Len(batch) = Required
      BY <1>9 DEF TrainStep, queueVars, VersionInv
    <2>2. BatchFresh(batch', Before')
      BY <2>1 DEF BatchFresh
    <2>3. /\ version \in Nat /\ local \in 1..Trigger /\ Required \in Nat /\ Trigger \in Nat
          /\ Len(batch') = 0
      BY <2>1, ConstantsAssumption DEF TypeOK
    <2>4. AllTaken = version * (Required * Trigger) + (local - 1) * Required + Required
      BY <2>1 DEF AllTaken, Before, Period
    <2>5. AllTaken' = version' * (Required * Trigger) + (local' - 1) * Required + 0
      BY <2>3 DEF AllTaken, Before, Period
    <2>6. AllTaken' = AllTaken
      <3>1. CASE VersionComplete
        <4>1. local' = 1 /\ version' = version + 1 /\ local = Trigger
          BY <1>9, <2>3, <3>1 DEF TrainStep, VersionComplete
        <4>2. AllTaken' = (version + 1) * (Required * Trigger) + (1 - 1) * Required + 0
          BY <2>5, <4>1
        <4>3. AllTaken = version * (Required * Trigger) + (Trigger - 1) * Required + Required
          BY <2>4, <4>1
        <4>. QED
          BY <2>3, <4>2, <4>3
      <3>2. CASE ~VersionComplete
        <4>1. local' = local + 1 /\ version' = version
          BY <1>9, <3>2 DEF TrainStep
        <4>2. AllTaken' = version * (Required * Trigger) + ((local + 1) - 1) * Required + 0
          BY <2>5, <4>1
        <4>. QED
          BY <2>3, <2>4, <4>2
      <3>. QED
        BY <3>1, <3>2
    <2>. QED
      BY <1>1, <2>1, <2>2, <2>6
  <1>10. CASE ResetFinish \/ Stop \/ \E expiring \in BOOLEAN : Save(expiring)
    <2>1. UNCHANGED <<queue, batch, local, version>>
      BY <1>10 DEF ResetFinish, Stop, Save, queueVars
    <2>. QED
      BY <1>1, <2>1 DEF AllTaken, Before
  <1>11. ~CollectNone
    BY DEF CollectNone
  <1>12. MainSignal \/ (\E s \in Sample : Store(s)) => UNCHANGED trainVars
    BY Zenon DEF MainSignal, Store
  <1>. QED
    BY <1>5, <1>6, <1>7, <1>8, <1>9, <1>10, <1>11, QueueFrame, TrainFrame DEF TrainerStep, Trainer

LEMMA LagInvariant == Spec => []LagInv
  <1>1. Init => LagInv
    BY DEF Init, MQ!QInit, LagInv, QueueFresh, BatchFresh
  <1>. QED
    BY <1>1, LagStep, TypeCorrect, VersionInvariant, PlaceInvariant, EndPlaceInvariant,
       StalenessControl, PTL DEF Spec

\* A sample that is trained waited in the queue for at most 1 + staleness_threshold parameter
\* versions, rounded down as max_required_samples is.
THEOREM QueueLagBounded == Spec => []QueueLag
  <1>1. TypeOK /\ VersionInv /\ LagInv => QueueLag
    <2>. SUFFICES ASSUME TypeOK, VersionInv, LagInv, NEW i \in DOMAIN batch
                  PROVE  version - batch[i].at <= MaxRequired \div (Required * Trigger)
      BY DEF QueueLag
    <2>1. CASE stopping
      <3>1. batch = <<>>
        BY <2>1 DEF VersionInv
      <3>. QED
        BY <3>1
    <2>2. CASE ~stopping
      <3>. DEFINE base == version * Period
                  start == (local - 1) * Required
                  bound == batch[i].at * Period
      <3>1. batch[i] \in Entry /\ batch[i].at \in Nat /\ version \in Nat /\ i \in Nat /\ i >= 1
        <4>1. batch[i] \in SampleEntry /\ i \in 1..Len(batch) /\ Len(batch) \in Nat
          BY ElementOfSeq DEF TypeOK
        <4>. QED
          BY <4>1 DEF Entry, SampleEntry, TypeOK
      <3>2. Before + i - 1 <= bound + MaxRequired
        BY <2>2 DEF LagInv, BatchFresh
      <3>3. /\ base \in Nat /\ start \in Nat /\ bound \in Nat /\ MaxRequired \in Nat
            /\ Period \in Nat /\ Period >= 1 /\ Before = base + start
        BY <3>1, EntryAt, LagTypes, MaxRequiredPos DEF Before
      <3>. HIDE DEF base, start, bound
      <3>4. base <= bound + MaxRequired
        BY <3>1, <3>2, <3>3
      <3>5. \A v, a, p, m \in Nat : p >= 1 /\ v * p <= a * p + m => v - a <= m \div p
        <4>. SUFFICES ASSUME NEW v \in Nat, NEW a \in Nat, NEW p \in Nat, NEW m \in Nat,
                             p >= 1, v * p <= a * p + m
                      PROVE  v - a <= m \div p
          OBVIOUS
        <4>1. m \div p \in Nat /\ m < (m \div p + 1) * p
          BY Z3
        <4>2. (v - a) * p <= m
          BY Z3
        <4>3. (v - a) * p < (m \div p + 1) * p
          BY <4>1, <4>2, Z3
        <4>4. v - a < m \div p + 1
          BY <4>1, <4>3, Z3
        <4>. QED
          BY <4>1, <4>4
      <3>6. version - batch[i].at <= MaxRequired \div Period
        BY <3>1, <3>3, <3>4, <3>5 DEF base, bound
      <3>. QED
        BY <3>6 DEF Period
    <2>. QED
      BY <2>1, <2>2
  <1>. QED
    BY <1>1, TypeCorrect, VersionInvariant, LagInvariant, PTL

(***************************************************************************)
(* Nothing is lost in a run without failures.                              *)
(***************************************************************************)

\* Where the processor may have taken a sample and not submitted it.
HoldStates == {"submit", "limit", "limitwait", "failed"}

\* Samples whose task has counted its answer and ended.
CountedOf(t) == {s \in Sample : t[s] \in {"done", "gone"}}

\* How far the processor has come: every sample it took is submitted, but for the one in its hands;
\* it fails with a task only; it ends after the end signal of the feeder, with no task left.
ProgressInv ==
  /\ Cardinality(CountedOf(task)) = processed
  /\ ppc = "failed" => Crashes # {}
  /\ \A s \in Sample : s < got \/ (s = got /\ ppc \notin HoldStates) => task[s] # "none"
  /\ ppc \in {"end", "endwait", "ended"} => got = Total + 1
  /\ ppc = "ended" => Active = {}

LEMMA CountedFinite ==
  ASSUME NEW t
  PROVE  IsFiniteSet(CountedOf(t)) /\ Cardinality(CountedOf(t)) \in Nat
  <1>1. IsFiniteSet(Sample)
    BY FS_Interval, ConstantsAssumption DEF Sample
  <1>2. IsFiniteSet(CountedOf(t))
    BY <1>1, FS_Subset DEF CountedOf
  <1>. QED
    BY <1>2, FS_CardinalityType

LEMMA CountedStep ==
  TypeOK /\ TaskInv /\ [Next]_vars /\ Cardinality(CountedOf(task)) = processed
    => Cardinality(CountedOf(task')) = processed'
  <1>. SUFFICES ASSUME TypeOK, TaskInv, [Next]_vars, Cardinality(CountedOf(task)) = processed
                PROVE  Cardinality(CountedOf(task')) = processed'
    OBVIOUS
  <1>1. TasksMove /\ task \in [Sample -> TaskState]
    BY TaskStepMoves DEF TypeOK
  <1>2. ASSUME CountedOf(task') = CountedOf(task), processed' = processed
        PROVE  Cardinality(CountedOf(task')) = processed'
    BY <1>2
  <1>3. CASE Processor
    <2>1. CountedOf(task') = CountedOf(task)
      BY <1>1, <1>3, ProcessorMoves DEF TasksMove, Lifecycle, CountedOf
    <2>2. processed' = processed
      BY <1>3, Zenon DEF Processor, ProcAsk, ProcPause, DrainHarvest, DrainExit, ProcWaitItem,
         TakeSample, TakeEnd, ProcGranted, LimitHarvest, EndHarvest, taskVars
    <2>. QED
      BY <1>2, <2>1, <2>2
  <1>4. ASSUME NEW s \in Sample, Reply(s) PROVE Cardinality(CountedOf(task')) = processed'
    <2>1. CountedOf(task') = CountedOf(task) \cup {s} /\ s \notin CountedOf(task)
      BY <1>1, <1>4 DEF Reply, CountedOf
    <2>2. Cardinality(CountedOf(task) \cup {s}) = Cardinality(CountedOf(task)) + 1
      BY <2>1, CountedFinite, FS_AddElement
    <2>3. processed' = processed + 1
      BY <1>4 DEF Reply
    <2>. QED
      BY <2>1, <2>2, <2>3, Zenon
  <1>5. ASSUME NEW s \in Sample, Store(s) \/ Fail(s)
        PROVE  Cardinality(CountedOf(task')) = processed'
    <2>1. CountedOf(task') = CountedOf(task)
      BY <1>1, <1>5 DEF Store, Fail, CountedOf
    <2>. QED
      BY <1>2, <1>5, <2>1 DEF Store, Fail
  <1>6. CASE UNCHANGED <<got, taskVars, procVars>>
    BY <1>2, <1>6 DEF taskVars
  <1>. QED
    BY <1>3, <1>4, <1>5, <1>6, TaskFrame DEF TaskStep

LEMMA ProgressStep ==
  TypeOK /\ TaskInv /\ ProgressInv /\ [Next]_vars => ProgressInv'
  <1>. SUFFICES ASSUME TypeOK, TaskInv, ProgressInv, [Next]_vars PROVE ProgressInv'
    OBVIOUS
  <1>. DEFINE Started(t, g, p) ==
                \A s \in Sample : s < g \/ (s = g /\ p \notin HoldStates) => t[s] # "none"
              Over == /\ ppc' = "failed" => Crashes' # {}
                      /\ Started(task', got', ppc')
                      /\ ppc' \in {"end", "endwait", "ended"} => got' = Total + 1
                      /\ ppc' = "ended" => Active' = {}
  <1>1. /\ TasksMove /\ task \in [Sample -> TaskState] /\ got \in 0..(Total + 1)
        /\ Total \in Nat /\ Sample = 1..Total /\ Started(task, got, ppc)
    BY TaskStepMoves, ConstantsAssumption DEF TypeOK, ProgressInv, Sample
  <1>2. Over => ProgressInv'
    BY CountedStep DEF ProgressInv
  <1>3. \A s \in Sample : task[s] # "none" => task'[s] # "none"
    BY <1>1 DEF TasksMove, Lifecycle
  <1>4. Crashes # {} => Crashes' # {}
    BY <1>1 DEF TasksMove, Lifecycle, Crashes
  <1>5. \A D : task' = Reaped(D) /\ (\E s \in Failed : s \in D) => Crashes' # {}
    BY DEF Reaped, Failed, Crashes
  <1>. HIDE DEF Started
  <1>6. Started(task', got, ppc)
    BY <1>1, <1>3 DEF Started
  <1>7. got' = got /\ (ppc \in HoldStates => ppc' \in HoldStates) => Started(task', got', ppc')
    BY <1>6 DEF Started
  <1>8. \A s : task' = Submitted(task, s) /\ got' = s /\ s - 1 \in 0..Total
               /\ (s = got \/ (s = got + 1 /\ ppc \notin HoldStates))
          => Started(task', got', ppc')
    <2>. SUFFICES ASSUME NEW s, task' = Submitted(task, s), got' = s, s - 1 \in 0..Total,
                         s = got \/ (s = got + 1 /\ ppc \notin HoldStates),
                         NEW r \in Sample, r < s \/ r = s
                  PROVE  task'[r] # "none"
      BY DEF Started
    <2>1. CASE r = s
      BY <1>1, <2>1 DEF Submitted
    <2>2. CASE r < s
      BY <1>1, <1>6, <2>2 DEF Started
    <2>. QED
      BY <2>1, <2>2
  <1>9. CASE ProcAsk \/ ProcPause \/ DrainExit \/ ProcWaitItem
    <2>1. /\ got' = got /\ ppc \notin HoldStates
          /\ ppc' \in {"decide", "drain", "pause", "top", "get"}
      BY <1>9, Zenon DEF ProcAsk, ProcPause, DrainExit, ProcWaitItem, HoldStates
    <2>. QED
      BY <1>2, <1>7, <2>1 DEF Over
  <1>10. CASE DrainHarvest
    <2>1. got' = got /\ ppc \in {"drain", "harvest"} /\ ppc' \in {"drain", "harvest", "failed"}
      BY <1>10, Zenon DEF DrainHarvest, ReapDrained
    <2>2. ppc' = "failed" => Crashes' # {}
      BY <1>5, <1>10 DEF DrainHarvest, ReapDrained
    <2>. QED
      BY <1>2, <1>7, <2>1, <2>2 DEF HoldStates
  <1>11. CASE TakeSample
    <2>1. /\ ppc \in {"get", "decide"} /\ got < Total /\ got' = got + 1
          /\ \/ ppc' \in {"limit", "limitwait", "submit"}
             \/ ppc' = "top" /\ task' = Submitted(task, got + 1)
      BY <1>11 DEF TakeSample, ReadyToTake, HoldOrWait
    <2>2. Started(task', got', ppc')
      <3>1. CASE ppc' \in {"limit", "limitwait", "submit"}
        <4>. SUFFICES ASSUME NEW r \in Sample, r < got + 1 PROVE task'[r] # "none"
          BY <2>1, <3>1 DEF Started, HoldStates
        <4>. QED
          BY <1>1, <1>6, <2>1 DEF Started, HoldStates
      <3>2. CASE ppc' = "top" /\ task' = Submitted(task, got + 1)
        BY <1>1, <1>8, <2>1, <3>2 DEF HoldStates
      <3>. QED
        BY <2>1, <3>1, <3>2
    <2>. QED
      BY <1>2, <2>1, <2>2
  <1>12. CASE TakeEnd
    <2>1. /\ ppc \in {"get", "decide"} /\ got = Total /\ got' = got + 1 /\ UNCHANGED task
          /\ ppc' \in {"ended", "endwait", "end"} /\ (ppc' = "ended" => Active = {})
      BY <1>12 DEF TakeEnd, ReadyToTake, HoldOrWait, taskVars
    <2>2. Started(task', got', ppc')
      <3>. SUFFICES ASSUME NEW r \in Sample PROVE task'[r] # "none"
        BY DEF Started
      <3>. QED
        BY <1>1, <1>6, <2>1 DEF Started, HoldStates
    <2>3. Active' = Active
      BY <2>1 DEF Active
    <2>. QED
      BY <1>1, <1>2, <2>1, <2>2, <2>3
  <1>13. CASE ProcGranted
    <2>1. got' = got
      BY <1>13 DEF ProcGranted
    <2>2. CASE ppc = "submit"
      <3>1. ppc' = "top" /\ task' = Submitted(task, got) /\ got \in Sample
        BY <1>13, <2>2 DEF ProcGranted, TaskInv
      <3>. QED
        BY <1>1, <1>2, <1>8, <2>1, <3>1
    <2>3. CASE ppc # "submit"
      <3>1. \/ ppc = "limit" /\ ppc' = "limitwait"
            \/ ppc = "end" /\ ppc' = "endwait"
        BY <1>13, <2>3 DEF ProcGranted
      <3>. QED
        BY <1>2, <1>7, <2>1, <3>1 DEF HoldStates, ProgressInv
    <2>. QED
      BY <2>2, <2>3
  <1>14. CASE LimitHarvest
    <2>. DEFINE reaped == Reaped(Finished)
    <2>1. /\ ppc = "limitwait" /\ got' = got /\ got \in Sample
          /\ \/ ppc' = "failed" /\ Failed # {} /\ task' = reaped
             \/ ppc' = "submit"
             \/ ppc' = "top" /\ task' = Submitted(reaped, got)
      BY <1>14 DEF LimitHarvest, TaskInv
    <2>2. CASE ppc' = "failed" /\ Failed # {} /\ task' = reaped
      <3>1. Crashes' # {}
        BY <1>5, <2>2 DEF Failed, Finished
      <3>. QED
        BY <1>2, <1>7, <2>1, <2>2, <3>1 DEF HoldStates
    <2>3. CASE ppc' = "submit"
      BY <1>2, <1>7, <2>1, <2>3 DEF HoldStates
    <2>4. CASE ppc' = "top" /\ task' = Submitted(reaped, got)
      <3>1. task'[got] = "gen"
        BY <1>1, <2>1, <2>4, ReapedType DEF Submitted
      <3>2. Started(task', got', ppc')
        BY <1>6, <2>1, <3>1 DEF Started
      <3>. QED
        BY <1>2, <2>4, <3>2
    <2>. QED
      BY <2>1, <2>2, <2>3, <2>4
  <1>15. CASE EndHarvest
    <2>1. /\ ppc = "endwait" /\ got' = got /\ task' = Reaped(Finished)
          /\ ppc' \in {"failed", "ended", "end", "endwait"}
          /\ ppc' = "failed" => Failed # {}
          /\ ppc' = "ended" => Active = Finished
      BY <1>15 DEF EndHarvest
    <2>2. ppc' = "failed" => Crashes' # {}
      BY <1>5, <2>1 DEF Failed, Finished
    <2>3. ppc' = "ended" => Active' = {}
      BY <2>1 DEF Active, Finished, Reaped
    <2>4. Started(task', got', ppc')
      BY <1>6, <2>1 DEF Started, HoldStates
    <2>. QED
      BY <1>2, <2>1, <2>2, <2>3, <2>4 DEF ProgressInv
  <1>16. ASSUME UNCHANGED <<got, ppc>>,
                ppc = "ended" => Active' = {}
         PROVE  ProgressInv'
    BY <1>2, <1>4, <1>7, <1>16 DEF ProgressInv
  <1>17. ASSUME NEW s \in Sample, TaskStep(s) PROVE ProgressInv'
    <2>1. UNCHANGED <<got, ppc>> /\ s \in Active
      BY <1>17 DEF TaskStep, Store, Reply, Fail, procVars, Active
    <2>. QED
      BY <1>16, <2>1 DEF ProgressInv
  <1>18. CASE UNCHANGED <<got, taskVars, procVars>>
    <2>1. UNCHANGED <<got, ppc, task>> /\ Active' = Active
      BY <1>18 DEF taskVars, procVars, Active
    <2>. QED
      BY <1>16, <2>1 DEF ProgressInv
  <1>. QED
    BY <1>9, <1>10, <1>11, <1>12, <1>13, <1>14, <1>15, <1>17, <1>18, TaskFrame DEF Processor

LEMMA ProgressInvariant == Spec => []ProgressInv
  <1>1. Init => ProgressInv
    <2>. SUFFICES ASSUME Init PROVE ProgressInv
      OBVIOUS
    <2>1. CountedOf(task) = {} /\ processed = 0 /\ got = 0 /\ ppc = "top"
      BY DEF Init, CountedOf
    <2>2. \A s \in Sample : ~(s < got) /\ s # got
      BY <2>1, ConstantsAssumption DEF Sample
    <2>. QED
      BY <2>1, <2>2, FS_EmptySet DEF ProgressInv
  <1>. QED
    BY <1>1, ProgressStep, TypeCorrect, TaskInvariant, PTL DEF Spec

\* Samples that were put and are nowhere any more: the queue dropped them, one at a time.
PutOf(t) == {s \in Sample : t[s] \in PutStates}
Lost == PutOf(task) \ Placed

LossInv ==
  /\ Cardinality(Lost) = dropped
  /\ Cardinality(abandoned) < Required

LEMMA LostFinite ==
  ASSUME NEW P
  PROVE  /\ IsFiniteSet(PutOf(task) \ P)
         /\ Cardinality(PutOf(task) \ P) \in Nat
  <1>1. IsFiniteSet(Sample)
    BY FS_Interval, ConstantsAssumption DEF Sample
  <1>2. IsFiniteSet(PutOf(task) \ P)
    BY <1>1, FS_Subset DEF PutOf
  <1>. QED
    BY <1>2, FS_CardinalityType

\* Only a put makes a sample one that was put.
LEMMA PutOfKept ==
  ASSUME TypeOK, TaskInv, [Next]_vars, \A s \in Sample : ~Store(s)
  PROVE  PutOf(task') = PutOf(task)
  <1>1. TasksMove /\ task \in [Sample -> TaskState]
    BY TaskStepMoves DEF TypeOK
  <1>2. CASE Processor
    BY <1>1, <1>2, ProcessorMoves DEF TasksMove, Lifecycle, PutOf, PutStates
  <1>3. ASSUME NEW s \in Sample, Reply(s) \/ Fail(s) PROVE PutOf(task') = PutOf(task)
    BY <1>1, <1>3 DEF Reply, Fail, PutOf, PutStates
  <1>4. CASE UNCHANGED <<got, taskVars, procVars>>
    BY <1>4 DEF taskVars
  <1>. QED
    BY <1>2, <1>3, <1>4, TaskFrame DEF TaskStep

LEMMA BatchSmall ==
  ASSUME TypeOK
  PROVE  IsFiniteSet(BatchSamples) /\ Cardinality(BatchSamples) <= Len(batch)
  <1>. DEFINE f == [i \in DOMAIN batch |-> batch[i].sample]
  <1>1. DOMAIN batch = 1..Len(batch) /\ Len(batch) \in Nat
    BY DEF TypeOK
  <1>2. f \in Surjection(1..Len(batch), BatchSamples)
    <2>1. f \in [1..Len(batch) -> BatchSamples]
      BY <1>1 DEF BatchSamples
    <2>2. \A b \in BatchSamples : \E i \in 1..Len(batch) : f[i] = b
      BY <1>1 DEF BatchSamples
    <2>. QED
      BY <2>1, <2>2 DEF Surjection
  <1>3. IsFiniteSet(1..Len(batch)) /\ Cardinality(1..Len(batch)) = Len(batch)
    <2>1. \A m \in Nat : IsFiniteSet(1..m) /\ Cardinality(1..m) = m
      BY FS_Interval
    <2>. QED
      BY <1>1, <2>1, Zenon
  <1>. HIDE DEF f
  <1>4. IsFiniteSet(BatchSamples) /\ Cardinality(BatchSamples) <= Cardinality(1..Len(batch))
    BY <1>2, <1>3, FS_Surjection
  <1>. QED
    BY <1>3, <1>4

LEMMA LossStep ==
  /\ TypeOK /\ TaskInv /\ VersionInv /\ PlaceInv /\ EndPlace /\ LossInv
  /\ [Next]_vars
  => LossInv'
  <1>. SUFFICES ASSUME TypeOK, TaskInv, VersionInv, PlaceInv, EndPlace, LossInv, [Next]_vars
                PROVE  LossInv'
    OBVIOUS
  <1>. DEFINE Q == SamplesOf(queue)
              B == SamplesOf(batch)
              Q1 == SamplesOf(queue')
              B1 == SamplesOf(batch')
              Rest == trained \cup abandoned
              Rest1 == trained' \cup abandoned'
              L == PutOf(task) \ ((Q \ {0}) \cup B \cup Rest)
              L1 == PutOf(task') \ ((Q1 \ {0}) \cup B1 \cup Rest1)
  <1>1. Lost = L /\ Lost' = L1
    BY PlacesAre DEF Lost, Placed
  <1>2. /\ TypeOK' /\ PlaceInv' /\ Distinct(queue) /\ queue' \in Seq(Entry) /\ 0 \notin Sample
        /\ dropped \in Nat
    <2>1. 0 \notin Sample
      BY ConstantsAssumption DEF Sample
    <2>2. TypeOK' /\ PlaceInv'
      BY TypeStep, PlaceStep
    <2>. QED
      BY <2>1, <2>2 DEF TypeOK, PlaceInv
  <1>3. /\ (Q \ {0}) \cap (B \cup Rest) = {}
        /\ \A s \in (Q \ {0}) \cup B \cup Rest : s \in PutOf(task) /\ s \in Sample
        /\ ~stopping => abandoned = {}
        /\ Cardinality(L) = dropped /\ IsFiniteSet(L)
        /\ Cardinality(abandoned) < Required
    <2>1. /\ (Q \ {0}) \cap (B \cup Rest) = {}
          /\ \A s \in (Q \ {0}) \cup B \cup Rest : s \in Sample /\ task[s] \in PutStates
      BY PlacesAre DEF PlaceInv, Placed
    <2>. QED
      BY <1>1, <2>1, LostFinite DEF LossInv, PlaceInv, PutOf
  <1>4. Cardinality(L1) = dropped' /\ Cardinality(abandoned') < Required => LossInv'
    BY <1>1 DEF LossInv
  <1>. HIDE DEF Q, B, Q1, B1, L, L1
  <1>5. ASSUME L1 = L, dropped' = dropped, abandoned' = abandoned PROVE LossInv'
    BY <1>3, <1>4, <1>5
  \* An entry that is dropped is one sample more that is lost.
  <1>6. ASSUME NEW k \in {0, 1}, dropped' = dropped + k, UNCHANGED trainVars,
               k = 0 => L1 = L,
               k = 1 => L1 = L \cup {queue[1].sample} /\ queue[1].sample \notin L
        PROVE  LossInv'
    <2>1. abandoned' = abandoned
      BY <1>6 DEF trainVars
    <2>2. CASE k = 0
      BY <1>2, <1>5, <1>6, <2>1, <2>2
    <2>3. CASE k = 1
      <3>1. Cardinality(L \cup {queue[1].sample}) = Cardinality(L) + 1
        BY <1>3, <1>6, <2>3, FS_AddElement
      <3>2. Cardinality(L1) = dropped'
        BY <1>3, <1>6, <2>3, <3>1
      <3>. QED
        BY <1>3, <1>4, <2>1, <3>2
    <2>. QED
      BY <2>2, <2>3
  <1>7. ASSUME NEW s \in Sample, Store(s) PROVE LossInv'
    <2>. DEFINE x == [sample |-> s, at |-> version]
    <2>1. /\ x \in Entry /\ MQ!Put(x) /\ x.sample = s /\ task[s] = "gen"
          /\ UNCHANGED trainVars /\ B1 = B /\ Rest1 = Rest
          /\ PutOf(task') = PutOf(task) \cup {s}
      BY <1>7 DEF Store, Entry, SampleEntry, TypeOK, trainVars, B, B1, PutOf, PutStates
    <2>. HIDE DEF x
    <2>2. PICK k \in {0, 1} : PutMoves(x, k)
      BY <2>1, PutPlaces DEF TypeOK
    <2>3. s \notin PutOf(task) /\ s \in Sample
      BY <2>1 DEF PutOf, PutStates
    <2>4. s \notin Q /\ s \notin B \cup Rest
      BY <1>2, <1>3, <2>3
    <2>5. /\ k = 0 => Q1 = Q \cup {s}
          /\ k = 1 => queue[1].sample \in Q /\ Q1 = (Q \ {queue[1].sample}) \cup {s}
      BY <1>2, <2>1, <2>2, <2>4, PutSamples DEF Q, Q1
    <2>6. k = 1 => queue[1].sample # 0
      <3>. SUFFICES ASSUME k = 1 PROVE queue[1].sample # 0
        OBVIOUS
      <3>1. Generating # {}
        BY <2>1 DEF Generating
      <3>2. queue # <<>> /\ queue[1] # None
        BY <2>2, <3>1, NoSignalDropped DEF PutMoves
      <3>3. queue[1] \in Entry
        BY <3>2 DEF TypeOK
      <3>. QED
        BY <3>2, <3>3, EntrySample
    <2>7. k = 0 => L1 = L
      BY <1>2, <2>1, <2>3, <2>4, <2>5 DEF L, L1
    <2>8. k = 1 => L1 = L \cup {queue[1].sample} /\ queue[1].sample \notin L
      <3>. SUFFICES ASSUME k = 1
                    PROVE  L1 = L \cup {queue[1].sample} /\ queue[1].sample \notin L
        OBVIOUS
      <3>. DEFINE r == queue[1].sample
      <3>1. r \in Q /\ r # 0 /\ Q1 = (Q \ {r}) \cup {s}
        BY <2>5, <2>6
      <3>. HIDE DEF r
      <3>2. r \in PutOf(task) /\ r \notin B \cup Rest /\ r # s
        BY <1>3, <2>4, <3>1
      <3>3. L1 = L \cup {r} /\ r \notin L
        BY <1>2, <2>1, <2>3, <2>4, <3>1, <3>2 DEF L, L1
      <3>. QED
        BY <3>3 DEF r
    <2>. QED
      BY <1>6, <2>1, <2>2, <2>7, <2>8 DEF PutMoves
  <1>8. CASE MainSignal
    <2>1. /\ None \in Entry /\ MQ!Put(None) /\ None.sample = 0 /\ mpc = "stream"
          /\ UNCHANGED trainVars /\ B1 = B /\ Rest1 = Rest
          /\ PutOf(task') = PutOf(task)
      BY <1>8 DEF MainSignal, Entry, None, trainVars, taskVars, B, B1
    <2>2. PICK k \in {0, 1} : PutMoves(None, k)
      BY <2>1, PutPlaces DEF TypeOK
    <2>3. 0 \notin Q
      BY <2>1 DEF PlaceInv, Q
    <2>4. /\ k = 0 => Q1 = Q \cup {0}
          /\ k = 1 => queue[1].sample \in Q /\ Q1 = (Q \ {queue[1].sample}) \cup {0}
      BY <1>2, <2>1, <2>2, <2>3, PutSamples DEF Q, Q1
    <2>5. k = 0 => L1 = L
      BY <2>1, <2>3, <2>4 DEF L, L1
    <2>6. k = 1 => L1 = L \cup {queue[1].sample} /\ queue[1].sample \notin L
      <3>. SUFFICES ASSUME k = 1
                    PROVE  L1 = L \cup {queue[1].sample} /\ queue[1].sample \notin L
        OBVIOUS
      <3>. DEFINE r == queue[1].sample
      <3>1. r \in Q /\ r # 0 /\ Q1 = (Q \ {r}) \cup {0}
        BY <2>3, <2>4
      <3>. HIDE DEF r
      <3>2. r \in PutOf(task) /\ r \notin B \cup Rest
        BY <1>3, <3>1
      <3>3. L1 = L \cup {r} /\ r \notin L
        BY <2>1, <2>3, <3>1, <3>2 DEF L, L1
      <3>. QED
        BY <3>3 DEF r
    <2>. QED
      BY <1>6, <2>1, <2>2, <2>5, <2>6 DEF PutMoves
  <1>9. ASSUME \A s \in Sample : ~Store(s), ~MainSignal PROVE LossInv'
    <2>1. PutOf(task') = PutOf(task)
      BY <1>9, PutOfKept
    <2>2. CASE Collect
      <3>. DEFINE x == Head(queue)
      <3>1. /\ queue # <<>> /\ MQ!Get(x) /\ batch' = Append(batch, x) /\ x # None
            /\ UNCHANGED <<trained, abandoned, dropped>>
        BY <2>2 DEF Collect, MQ!Get
      <3>. HIDE DEF x
      <3>2. x \in Entry
        BY <3>1, GetEntry DEF TypeOK
      <3>3. x.sample \in Q /\ x.sample # 0 /\ Q1 = Q \ {x.sample}
        BY <1>2, <3>1, <3>2, GetSamples, EntrySample DEF Q, Q1
      <3>4. B1 = B \cup {x.sample}
        <4>1. /\ Len(batch) \in Nat /\ DOMAIN batch = 1..Len(batch)
              /\ DOMAIN batch' = (1..Len(batch)) \cup {Len(batch) + 1}
              /\ \A i \in 1..Len(batch) : batch'[i] = batch[i]
              /\ batch'[Len(batch) + 1] = x
          BY <3>1, AppendProperties DEF TypeOK
        <4>2. \A i \in DOMAIN batch' : batch'[i].sample \in B \cup {x.sample}
          BY <4>1 DEF B, SamplesOf
        <4>3. \A i \in DOMAIN batch : batch[i].sample \in B1
          BY <4>1 DEF B1, SamplesOf
        <4>4. x.sample \in B1
          BY <4>1 DEF B1, SamplesOf
        <4>. QED
          BY <4>2, <4>3, <4>4 DEF B, B1, SamplesOf
      <3>5. L1 = L
        BY <2>1, <3>1, <3>3, <3>4 DEF L, L1
      <3>. QED
        BY <1>5, <3>1, <3>5
    <2>3. CASE CollectNone
      <3>1. /\ queue # <<>> /\ MQ!Get(None) /\ None.sample = 0 /\ batch' = <<>> /\ B1 = {}
            /\ UNCHANGED <<trained, dropped>> /\ abandoned' = B /\ tpc = "collect"
        BY <2>3, PlacesAre DEF CollectNone, MQ!Get, None, B, B1, SamplesOf
      <3>2. 0 \in Q /\ Q1 = Q \ {0}
        BY <1>2, <3>1, GetSamples DEF Q, Q1
      <3>3. abandoned = {}
        BY <1>3, <3>1 DEF VersionInv
      <3>4. L1 = L
        BY <2>1, <3>1, <3>2, <3>3 DEF L, L1
      <3>5. Cardinality(abandoned') < Required
        <4>1. Len(batch) < Required /\ abandoned' = BatchSamples /\ Len(batch) \in Nat
          BY <2>3, <3>1 DEF VersionInv, CollectNone, TypeOK
        <4>2. Cardinality(BatchSamples) \in Nat /\ Cardinality(BatchSamples) <= Len(batch)
          BY BatchSmall, FS_CardinalityType
        <4>. QED
          BY <4>1, <4>2, ConstantsAssumption
      <3>. QED
        BY <1>3, <1>4, <3>1, <3>4, <3>5
    <2>4. CASE TrainStep
      <3>1. /\ batch' = <<>> /\ B1 = {} /\ trained' = trained \cup B /\ Q1 = Q
            /\ UNCHANGED <<abandoned, dropped>>
        BY <2>4, PlacesAre DEF TrainStep, queueVars, B, B1, Q, Q1, SamplesOf
      <3>2. L1 = L
        BY <2>1, <3>1 DEF L, L1
      <3>. QED
        BY <1>5, <3>1, <3>2
    <2>5. CASE UNCHANGED queueVars /\ UNCHANGED <<batch, trained, abandoned>>
      <3>1. Q1 = Q /\ B1 = B /\ UNCHANGED <<trained, abandoned, dropped>>
        BY <2>5 DEF queueVars, Q, Q1, B, B1
      <3>2. L1 = L
        BY <2>1, <3>1 DEF L, L1
      <3>. QED
        BY <1>5, <3>1, <3>2
    <2>6. ResetFinish \/ Stop \/ (\E expiring \in BOOLEAN : Save(expiring))
            => UNCHANGED queueVars /\ UNCHANGED <<batch, trained, abandoned>>
      BY Zenon DEF ResetFinish, Stop, Save
    <2>. QED
      BY <1>9, <2>2, <2>3, <2>4, <2>5, <2>6, QueueFrame, TrainFrame
         DEF TrainerStep, Trainer, trainVars
  <1>. QED
    BY <1>7, <1>8, <1>9

LEMMA LossInvariant == Spec => []LossInv
  <1>1. Init => LossInv
    <2>. SUFFICES ASSUME Init PROVE LossInv
      OBVIOUS
    <2>1. Lost = {} /\ abandoned = {} /\ dropped = 0
      BY DEF Init, MQ!QInit, Lost, PutOf, PutStates
    <2>. QED
      BY <2>1, FS_EmptySet, ConstantsAssumption DEF LossInv
  <1>. QED
    BY <1>1, LossStep, TypeCorrect, TaskInvariant, VersionInvariant, PlaceInvariant,
       EndPlaceInvariant, PTL DEF Spec

\* When no task is left the end signal is the last entry: nothing is queued once it is taken.
EndLast ==
  mpc # "stream" /\ ppc = "ended" =>
    IF stopping THEN queue = <<>> ELSE queue # <<>> /\ queue[Len(queue)] = None

LEMMA EndLastStep ==
  /\ TypeOK /\ VersionInv /\ PlaceInv /\ ProgressInv /\ EndAfterProcessor /\ EndLast
  /\ [Next]_vars
  => EndLast'
  <1>. SUFFICES ASSUME TypeOK, VersionInv, PlaceInv, ProgressInv, EndAfterProcessor, EndLast,
                       [Next]_vars, mpc' # "stream", ppc' = "ended"
                PROVE  IF stopping' THEN queue' = <<>>
                       ELSE queue' # <<>> /\ queue'[Len(queue')] = None
    BY DEF EndLast
  <1>1. CASE MainSignal
    <2>1. None \in Entry /\ MQ!Put(None) /\ mpc = "stream" /\ stopping' = stopping
      BY <1>1 DEF MainSignal, Entry, trainVars
    <2>2. ~stopping'
      BY <2>1 DEF PlaceInv
    <2>3. PICK k \in {0, 1} : PutMoves(None, k)
      BY <2>1, PutPlaces DEF TypeOK
    <2>4. queue'[Len(queue')] = None
      BY <2>3 DEF PutMoves
    <2>5. queue' # <<>>
      <3>. DEFINE n == Len(queue)
                  m == Len(queue')
      <3>1. n \in Nat /\ m = n + 1 - k /\ k <= n
        BY <2>3 DEF PutMoves, TypeOK
      <3>. HIDE DEF n, m
      <3>2. m # 0 \/ (k = 1 /\ n = 0)
        BY <3>1
      <3>3. m # 0
        BY <3>1, <3>2
      <3>. QED
        BY <3>3 DEF m
    <2>. QED
      BY <2>2, <2>4, <2>5
  <1>2. CASE ~MainSignal
    <2>1. mpc # "stream"
      BY <1>2, EndFrame DEF MainStop
    <2>2. ~Processor
      BY <2>1, Zenon DEF EndAfterProcessor, ProcessorOver, Processor, ProcAsk, ProcPause,
         DrainHarvest, DrainExit, ProcWaitItem, TakeSample, TakeEnd, ReadyToTake, ProcGranted,
         LimitHarvest, EndHarvest
    <2>3. \A s \in Sample : Store(s) \/ Reply(s) \/ Fail(s) => UNCHANGED ppc
      BY Zenon DEF Store, Reply, Fail, procVars
    <2>4. ppc = "ended"
      BY <2>2, <2>3, TaskFrame DEF TaskStep, procVars
    <2>5. \A s \in Sample : ~Store(s)
      BY <2>4 DEF ProgressInv, Active, Store
    <2>6. IF stopping THEN queue = <<>> ELSE queue # <<>> /\ queue[Len(queue)] = None
      BY <2>1, <2>4 DEF EndLast
    <2>. DEFINE n == Len(queue)
    <2>7. n \in Nat /\ DOMAIN queue = 1..n /\ queue' \in Seq(Entry)
      BY TypeStep DEF TypeOK
    <2>8. CASE Collect
      <3>1. ~stopping /\ stopping' = stopping /\ queue # <<>> /\ MQ!Get(Head(queue))
            /\ Head(queue) # None
        BY <2>8 DEF Collect, VersionInv
      <3>2. /\ n >= 1 /\ Head(queue) = queue[1] /\ Len(queue') = n - 1
            /\ \A i \in 1..(n - 1) : queue'[i] = queue[i + 1]
        BY <3>1, GetPlaces DEF TypeOK
      <3>3. queue[n] = None
        BY <2>6, <3>1
      <3>. HIDE DEF n
      <3>4. n # 1
        BY <3>1, <3>2, <3>3
      <3>5. n - 1 \in 1..(n - 1) /\ (n - 1) + 1 = n
        BY <2>7, <3>2, <3>4
      <3>6. queue'[n - 1] = None
        BY <3>2, <3>3, <3>5
      <3>7. queue' # <<>>
        BY <3>2, <3>5
      <3>. QED
        BY <3>1, <3>2, <3>6, <3>7
    <2>9. CASE CollectNone
      <3>1. ~stopping /\ stopping' /\ queue # <<>> /\ MQ!Get(None)
        BY <2>9 DEF CollectNone, VersionInv
      <3>2. /\ n >= 1 /\ None = queue[1] /\ Len(queue') = n - 1
        BY <3>1, GetPlaces DEF TypeOK
      <3>3. queue[n] = None
        BY <2>6, <3>1
      <3>. HIDE DEF n
      <3>4. 1 \in DOMAIN queue /\ n \in DOMAIN queue
        BY <2>7, <3>2
      <3>5. n = 1
        BY <3>2, <3>3, <3>4, Zenon DEF PlaceInv, Distinct
      <3>6. Len(queue') = 0
        BY <3>2, <3>5
      <3>7. queue' = <<>>
        BY <2>7, <3>6
      <3>. QED
        BY <3>1, <3>7
    <2>10. CASE UNCHANGED queueVars /\ ~CollectNone
      <3>1. queue' = queue /\ stopping' = stopping
        BY <2>10, EndFrame DEF queueVars
      <3>. QED
        BY <2>6, <3>1
    <2>. QED
      BY <1>2, <2>5, <2>8, <2>9, <2>10, QueueFrame
  <1>. QED
    BY <1>1, <1>2

LEMMA EndLastInvariant == Spec => []EndLast
  <1>1. Init => EndLast
    BY DEF Init, EndLast
  <1>. QED
    BY <1>1, EndLastStep, TypeCorrect, VersionInvariant, PlaceInvariant, ProgressInvariant,
       EndInvariant, PTL DEF Spec

\* A run without failures that is over has trained every sample, but for those the queue dropped
\* and fewer than required_samples that did not fill a batch, and every sample was counted.
THEOREM NothingLost == Spec => []CompleteRun
  <1>1. /\ TypeOK /\ VersionInv /\ PlaceInv /\ ProgressInv /\ EndAfterProcessor /\ EndLast
        /\ LossInv /\ DropsReported
        => CompleteRun
    <2>. SUFFICES ASSUME TypeOK, VersionInv, PlaceInv, ProgressInv, EndAfterProcessor, EndLast,
                         LossInv, DropsReported, tpc = "done", Crashes = {}
                  PROVE  /\ Cardinality(Missing) = dropped
                         /\ Cardinality(abandoned) < Required
                         /\ generated + droppedStale = Total
      BY DEF CompleteRun
    <2>1. stopping /\ batch = <<>> /\ mpc # "stream"
      BY DEF VersionInv, PlaceInv
    <2>2. ppc = "ended"
      BY <2>1 DEF EndAfterProcessor, ProcessorOver, ProgressInv
    <2>3. queue = <<>> /\ got = Total + 1 /\ Active = {}
      BY <2>1, <2>2 DEF EndLast, ProgressInv
    <2>4. Sample = 1..Total /\ Total \in Nat
      BY ConstantsAssumption DEF Sample
    <2>5. \A s \in Sample : s < got
      BY <2>3, <2>4
    <2>6. \A s \in Sample : task[s] = "gone"
      BY <2>3, <2>5 DEF ProgressInv, Active, Crashes, TypeOK, TaskState
    <2>7. PutOf(task) = Sample /\ CountedOf(task) = Sample
      BY <2>6 DEF PutOf, PutStates, CountedOf
    <2>8. Placed = trained \cup abandoned
      BY <2>1, <2>3 DEF Placed, QueuedSamples, BatchSamples
    <2>9. Lost = Missing
      BY <2>7, <2>8 DEF Lost, Missing
    <2>10. Cardinality(Sample) = Total
      BY <2>4, FS_Interval, ConstantsAssumption
    <2>11. processed = Total
      BY <2>7, <2>10 DEF ProgressInv
    <2>. QED
      BY <2>9, <2>11 DEF LossInv, DropsReported
  <1>. QED
    BY <1>1, TypeCorrect, VersionInvariant, PlaceInvariant, ProgressInvariant, EndInvariant,
       EndLastInvariant, LossInvariant, DropInvariant, PTL
=============================================================================
