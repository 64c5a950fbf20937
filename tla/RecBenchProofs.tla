--------------------------- MODULE RecBenchProofs ---------------------------
(***************************************************************************)
(* Proofs about RecBench, for any catalog, candidates, evidence and        *)
(* answers.  Reward: the two implementations accept exactly the complete   *)
(* rankings, and so classify and pay every answer alike although their     *)
(* error lists differ; what training calls faithful is what IsFaithful     *)
(* says; faithful answers are paid more than others, right ones more than  *)
(* wrong ones, and a positive more when it moves up.  Candidates: an       *)
(* instance is labelled as its list says.                                  *)
(***************************************************************************)
EXTENDS MCRecBench, FiniteSetTheorems, FunctionTheorems, SequenceTheorems, TLAPS

\* The ids of a sequence are no more than its length, and as many only if none repeats.
LEMMA IdSetSize ==
  ASSUME NEW S, NEW s \in Seq(S)
  PROVE  /\ IsFiniteSet(IdSet(s))
         /\ Cardinality(IdSet(s)) \in Nat
         /\ Cardinality(IdSet(s)) <= Len(s)
         /\ (\A i, j \in DOMAIN s : s[i] = s[j] => i = j) => Cardinality(IdSet(s)) = Len(s)
  <1>1. s \in Surjection(1..Len(s), IdSet(s))
    BY DEF Surjection, IdSet
  <1>2. IsFiniteSet(1..Len(s)) /\ Cardinality(1..Len(s)) = Len(s)
    <2>1. Len(s) \in Nat
      OBVIOUS
    <2>. QED
      BY <2>1, FS_Interval
  <1>3. /\ IsFiniteSet(IdSet(s))
        /\ Cardinality(IdSet(s)) <= Len(s)
        /\ Cardinality(IdSet(s)) = Len(s) <=> s \in Injection(1..Len(s), IdSet(s))
    BY <1>1, <1>2, FS_Surjection
  <1>4. (\A i, j \in DOMAIN s : s[i] = s[j] => i = j) => s \in Injection(1..Len(s), IdSet(s))
    BY <1>1 DEF Injection, IsInjective, Surjection
  <1>. QED
    BY <1>3, <1>4, FS_CardinalityType

LEMMA CandidateSize ==
  IsFiniteSet(CandidateSet) /\ Cardinality(CandidateSet) = Len(Candidates)
  BY RewardAssumption, IdSetSize DEF CandidateSet

\* What is left of the list of reward.py once the names are resolved.
LEMMA LocalConditions ==
  ASSUME NEW a
  PROVE  LocalValid(a) <=>
           /\ a.selected \in CandidateSet
           /\ a.ranking # <<>>
           /\ ~ (a.ranking # <<>> /\ a.ranking[1] # a.selected)
           /\ IdSet(a.ranking) \subseteq CandidateSet
           /\ Len(a.ranking) = Len(Candidates)
           /\ ~ Repeats(a.ranking)
           /\ IdSet(a.ranking) = CandidateSet
  <1>. DEFINE F == LocalFormat(a)
  <1>1. LocalRankingErrors \subseteq DOMAIN F
    BY DEF LocalRankingErrors, LocalFormat
  <1>2. LocalValid(a) <=> \A e \in LocalRankingErrors : ~ F[e]
    BY <1>1, Zenon DEF LocalValid, Raised
  <1>3. /\ F["selected_candidate_not_in_pool"] <=> a.selected \notin CandidateSet
        /\ F["empty_ranking"] <=> a.ranking = <<>>
        /\ F["selected_not_first"] <=> a.ranking # <<>> /\ a.ranking[1] # a.selected
        /\ F["ranking_contains_unknown_candidate"] <=> ~ IdSet(a.ranking) \subseteq CandidateSet
        /\ F["ranking_length_mismatch"] <=> Len(a.ranking) # Len(Candidates)
        /\ F["ranking_contains_duplicates"] <=> Repeats(a.ranking)
        /\ F["ranking_candidate_set_mismatch"] <=> IdSet(a.ranking) # CandidateSet
    BY DEF LocalFormat
  <1>. QED
    BY <1>2, <1>3, Zenon DEF LocalRankingErrors

\* The same for recbench_json.py.
LEMMA VerlConditions ==
  ASSUME NEW a
  PROVE  VerlValid(a) <=>
           /\ a.selected \in CandidateSet
           /\ ~ (a.ranking = <<>> \/ a.ranking[1] # a.selected)
           /\ IdSet(a.ranking) = CandidateSet
           /\ Len(a.ranking) = Len(Candidates)
           /\ ~ Repeats(a.ranking)
  <1>. DEFINE F == VerlFormat(a)
             G == VerlRankingErrors \ {"empty_ranking"}
  <1>1. /\ G \subseteq DOMAIN F
        /\ "empty_ranking" \notin DOMAIN F
    BY DEF VerlRankingErrors, VerlFormat
  <1>2. VerlValid(a) <=> \A e \in G : ~ F[e]
    BY <1>1, Zenon DEF VerlValid, Raised
  <1>3. /\ F["selected_candidate_not_in_pool"] <=> a.selected \notin CandidateSet
        /\ F["selected_not_first"] <=> (a.ranking = <<>> \/ a.ranking[1] # a.selected)
        /\ F["ranking_candidate_set_mismatch"] <=> IdSet(a.ranking) # CandidateSet
        /\ F["ranking_length_mismatch"] <=> Len(a.ranking) # Len(Candidates)
        /\ F["ranking_contains_duplicates"] <=> Repeats(a.ranking)
    BY DEF VerlFormat
  <1>4. G = {"selected_candidate_not_in_pool", "selected_not_first",
             "ranking_candidate_set_mismatch", "ranking_length_mismatch",
             "ranking_contains_duplicates"}
    BY DEF VerlRankingErrors
  <1>. HIDE DEF G
  <1>. QED
    BY <1>2, <1>3, <1>4, Zenon

\* A ranking as long as the candidates that has all of them has nothing else, and nothing twice.
LEMMA CompleteRanking ==
  ASSUME NEW a \in Parsed, IsRanking(a)
  PROVE  /\ IdSet(a.ranking) = CandidateSet
         /\ ~ Repeats(a.ranking)
         /\ a.selected \in CandidateSet
  <1>. DEFINE R == IdSet(a.ranking)
  <1>1. a.ranking \in Seq(Id)
    BY RewardAssumption
  <1>2. CandidateSet \subseteq R
    BY DEF IsRanking, IdSet
  <1>3. IsFiniteSet(R) /\ Cardinality(R) \in Nat /\ Cardinality(R) <= Len(a.ranking)
    BY <1>1, IdSetSize
  <1>4. Cardinality(CandidateSet) = Len(a.ranking)
    BY CandidateSize DEF IsRanking
  <1>5. Cardinality(CandidateSet) <= Cardinality(R)
        /\ (Cardinality(R) = Cardinality(CandidateSet) => R = CandidateSet)
    BY <1>2, <1>3, FS_Subset
  <1>6. Len(a.ranking) \in Nat
    BY <1>1
  <1>7. Cardinality(R) = Len(a.ranking) /\ R = CandidateSet
    BY <1>3, <1>4, <1>5, <1>6
  <1>8. a.selected \in R
    BY <1>1 DEF IsRanking, IdSet
  <1>. QED
    BY <1>7, <1>8 DEF Repeats

\* Both lists of errors accept a parsed answer exactly when its ranking is complete.
THEOREM ValidMeansComplete ==
  ASSUME NEW a \in Parsed
  PROVE  (LocalValid(a) <=> IsRanking(a)) /\ (VerlValid(a) <=> IsRanking(a))
  <1>1. ASSUME IsRanking(a) PROVE LocalValid(a) /\ VerlValid(a)
    BY <1>1, CompleteRanking, LocalConditions, VerlConditions DEF IsRanking
  <1>2. ASSUME LocalValid(a) \/ VerlValid(a) PROVE IsRanking(a)
    <2>1. /\ IdSet(a.ranking) = CandidateSet
          /\ Len(a.ranking) = Len(Candidates)
          /\ a.ranking # <<>> /\ a.ranking[1] = a.selected
      BY <1>2, LocalConditions, VerlConditions
    <2>. QED
      BY <2>1 DEF IsRanking, IdSet
  <1>. QED
    BY <1>1, <1>2

\* No ranking that repeats, omits or invents a candidate is ever paid for.
THEOREM OnlyPermutations == RSpec => []PermutationOnly
  <1>1. RInit => PermutationOnly
    BY ValidMeansComplete DEF RInit, PermutationOnly
  <1>2. PermutationOnly /\ [RNext]_rvars => PermutationOnly'
    BY DEF PermutationOnly, RNext, ScoreLocal, ScoreVerl, rvars
  <1>. QED
    BY <1>1, <1>2, PTL DEF RSpec

\* Only a list without errors is not penalised.
LEMMA PenaltyFree ==
  ASSUME NEW E, IsFiniteSet(E)
  PROVE  Penalised(E) >= Unit <=> E = {}
  <1>1. Cardinality(E) \in Nat /\ (Cardinality(E) = 0 <=> E = {})
    BY FS_CardinalityType, FS_EmptySet
  <1>. QED
    BY <1>1 DEF Penalised, Unit

LEMMA LocalErrorsFinite ==
  ASSUME NEW a
  PROVE  IsFiniteSet(Raised(LocalFormat(a)))
  <1>. DEFINE Names == <<"selected_candidate_not_in_pool", "empty_ranking", "selected_not_first",
                         "ranking_contains_unknown_candidate", "ranking_length_mismatch",
                         "ranking_contains_duplicates", "ranking_candidate_set_mismatch",
                         "invented_evidence_ref", "empty_evidence_refs">>
  <1>1. Names \in Seq(DOMAIN LocalFormat(a))
    BY DEF LocalFormat
  <1>2. IsFiniteSet(IdSet(Names))
    BY <1>1, IdSetSize
  <1>3. DOMAIN LocalFormat(a) = IdSet(Names)
    BY DEF LocalFormat, IdSet
  <1>. QED
    BY <1>2, <1>3, FS_Subset DEF Raised

LEMMA VerlErrorsFinite ==
  ASSUME NEW a
  PROVE  IsFiniteSet(Raised(VerlFormat(a)))
  <1>. DEFINE Names == <<"selected_candidate_not_in_pool", "selected_not_first",
                         "ranking_candidate_set_mismatch", "ranking_length_mismatch",
                         "ranking_contains_duplicates", "invented_evidence_ref",
                         "empty_evidence_refs">>
  <1>1. Names \in Seq(DOMAIN VerlFormat(a))
    BY DEF VerlFormat
  <1>2. IsFiniteSet(IdSet(Names))
    BY <1>1, IdSetSize
  <1>3. DOMAIN VerlFormat(a) = IdSet(Names)
    BY DEF VerlFormat, IdSet
  <1>. QED
    BY <1>2, <1>3, FS_Subset DEF Raised

\* One list of format errors is empty when the other is.
LEMMA CleanAlike ==
  ASSUME NEW a \in Parsed
  PROVE  Raised(LocalFormat(a)) = {} <=> Raised(VerlFormat(a)) = {}
  <1>. DEFINE L == LocalFormat(a)
             V == VerlFormat(a)
  <1>1. Raised(L) = {} <=>
          LocalValid(a) /\ ~ L["invented_evidence_ref"] /\ ~ L["empty_evidence_refs"]
    <2>1. DOMAIN L = LocalRankingErrors \cup {"invented_evidence_ref", "empty_evidence_refs"}
      BY DEF LocalFormat, LocalRankingErrors
    <2>. HIDE DEF L
    <2>. QED
      BY <2>1, Zenon DEF LocalValid, Raised, L
  <1>2. Raised(V) = {} <=>
          VerlValid(a) /\ ~ V["invented_evidence_ref"] /\ ~ V["empty_evidence_refs"]
    <2>1. DOMAIN V = (VerlRankingErrors \ {"empty_ranking"})
                       \cup {"invented_evidence_ref", "empty_evidence_refs"}
      BY DEF VerlFormat, VerlRankingErrors
    <2>. QED
      BY <2>1, Zenon DEF VerlValid, Raised
  <1>3. /\ L["invented_evidence_ref"] <=> V["invented_evidence_ref"]
        /\ L["empty_evidence_refs"] <=> V["empty_evidence_refs"]
    BY DEF LocalFormat, VerlFormat
  <1>. QED
    BY <1>1, <1>2, <1>3, ValidMeansComplete

\* The scores of one answer differ at most in the format and in the total.
LEMMA SameOutcome ==
  ASSUME NEW a \in Parsed \cup {Unparsed}
  PROVE  /\ LocalScore(a).outcome = VerlScore(a).outcome
         /\ LocalScore(a).recommendation = VerlScore(a).recommendation
  <1>1. CASE a = Unparsed
    BY <1>1 DEF LocalScore, VerlScore
  <1>2. CASE a # Unparsed
    <2>. DEFINE L == Raised(LocalFormat(a))
               V == Raised(VerlFormat(a))
    <2>1. a \in Parsed
      BY <1>2
    <2>2. LocalValid(a) <=> VerlValid(a)
      BY <2>1, ValidMeansComplete
    <2>3. Penalised(L) >= Unit <=> Penalised(V) >= Unit
      BY <2>1, PenaltyFree, LocalErrorsFinite, VerlErrorsFinite, CleanAlike
    <2>. HIDE DEF L, V
    <2>4. /\ Result(a, L, LocalValid(a)).outcome = Result(a, V, VerlValid(a)).outcome
          /\ Result(a, L, LocalValid(a)).recommendation = Result(a, V, VerlValid(a)).recommendation
      BY <2>2, <2>3 DEF Result, Outcome
    <2>. QED
      BY <1>2, <2>4 DEF LocalScore, VerlScore, L, V
  <1>. QED
    BY <1>1, <1>2

\* Evaluation and training classify every answer alike and pay the same for its ranking.
THEOREM Agreement == RSpec => []OutcomesAgree
  <1>. DEFINE IInv == /\ answer \in Parsed \cup {Unparsed}
                      /\ local \in {NotScored, LocalScore(answer)}
                      /\ verl \in {NotScored, VerlScore(answer)}
  <1>1. RInit => IInv
    BY DEF RInit
  <1>2. IInv /\ [RNext]_rvars => IInv'
    BY DEF RNext, ScoreLocal, ScoreVerl, rvars
  <1>3. IInv => OutcomesAgree
    BY SameOutcome DEF OutcomesAgree, Scored
  <1>. QED
    BY <1>1, <1>2, <1>3, PTL DEF RSpec

(***************************************************************************)
(* Sums.  A sum over a finite set is what a function on its subsets says,  *)
(* taking one element at a time away; that there is such a function, and   *)
(* that the element does not matter, is by contradiction from a set of     *)
(* least size.                                                             *)
(***************************************************************************)

Taken(S) == CHOOSE x \in S : TRUE

IsSum(F, f, S) ==
  f = [s \in SUBSET S |-> IF s = {} THEN 0 ELSE F[Taken(s)] + f[s \ {Taken(s)}]]

SumTable(F, S) == CHOOSE f : IsSum(F, f, S)
SumOf(F, S) == SumTable(F, S)[S]

LEMMA DcgIsSum == \A S : Dcg(S) = SumOf(Discount, S)
  BY Zenon DEF Dcg, MapThenSumSet, MapThenFoldSet, IsSum, Taken, SumTable, SumOf

LEMMA SumUnfolds ==
  ASSUME NEW F, NEW f, NEW S, IsSum(F, f, S)
  PROVE  /\ f[{}] = 0
         /\ \A s \in SUBSET S : s # {} =>
              /\ Taken(s) \in s
              /\ f[s] = F[Taken(s)] + f[s \ {Taken(s)}]
  <1>1. \A s \in SUBSET S : f[s] = IF s = {} THEN 0 ELSE F[Taken(s)] + f[s \ {Taken(s)}]
    BY Zenon DEF IsSum
  <1>2. \A s : s # {} => Taken(s) \in s
    BY DEF Taken
  <1>. QED
    BY <1>1, <1>2

\* Less one element.
LEMMA OneLess ==
  ASSUME NEW S, IsFiniteSet(S), NEW x \in S
  PROVE  /\ IsFiniteSet(S \ {x}) /\ Cardinality(S) \in Nat /\ Cardinality(S \ {x}) \in Nat
         /\ Cardinality(S \ {x}) = Cardinality(S) - 1
  BY FS_RemoveElement, FS_CardinalityType

LEMMA LeastNat ==
  ASSUME NEW B \in SUBSET Nat, B # {}
  PROVE  \E n \in B : \A m \in B : n <= m
  <1>1. PICK i \in B : \A j \in B : <<j, i>> \notin OpToRel(<, Nat)
    BY NatLessThanWellFounded, WFMin
  <1>2. ASSUME NEW j \in B PROVE i <= j
    <2>1. j < i => <<j, i>> \in OpToRel(<, Nat)
      BY DEF OpToRel
    <2>2. ~ (j < i)
      BY <1>1, <2>1, Zenon
    <2>. QED
      BY <2>2
  <1>. QED
    BY <1>2

\* Of the subsets in W, if there are any and they are finite, one is smallest.
LEMMA SmallestSet ==
  ASSUME NEW W, W # {}, \A s \in W : IsFiniteSet(s)
  PROVE  \E s \in W : \A t \in W : Cardinality(s) <= Cardinality(t)
  <1>. DEFINE B == {Cardinality(s) : s \in W}
  <1>1. B \in SUBSET Nat /\ B # {}
    BY FS_CardinalityType
  <1>2. PICK n \in B : \A m \in B : n <= m
    <2>. HIDE DEF B
    <2>. QED
      BY <1>1, LeastNat
  <1>. QED
    BY <1>2

LEMMA SumsAgree ==
  ASSUME NEW F, NEW f, NEW g, NEW S, NEW T, IsSum(F, f, S), IsSum(F, g, T),
         NEW U, IsFiniteSet(U), U \subseteq S, U \subseteq T
  PROVE  f[U] = g[U]
  <1>. DEFINE W == {s \in SUBSET U : f[s] # g[s]}
  <1>. SUFFICES ASSUME W # {} PROVE FALSE
    OBVIOUS
  <1>1. PICK s \in W : \A t \in W : Cardinality(s) <= Cardinality(t)
    <2>1. \A s \in W : IsFiniteSet(s)
      BY FS_Subset
    <2>. HIDE DEF W
    <2>. QED
      BY <2>1, SmallestSet
  <1>2. s \subseteq S /\ s \subseteq T /\ IsFiniteSet(s) /\ f[s] # g[s] /\ s \subseteq U
    BY FS_Subset
  <1>3. s # {}
    BY <1>2, SumUnfolds
  <1>. DEFINE x == Taken(s)
  <1>4. /\ x \in s
        /\ f[s] = F[x] + f[s \ {x}] /\ g[s] = F[x] + g[s \ {x}]
    <2>1. x \in s /\ f[s] = F[x] + f[s \ {x}]
      <3>1. \A t \in SUBSET S : t # {} => Taken(t) \in t /\ f[t] = F[Taken(t)] + f[t \ {Taken(t)}]
        BY SumUnfolds
      <3>. QED
        BY <1>2, <1>3, <3>1
    <2>2. g[s] = F[x] + g[s \ {x}]
      BY <1>2, <1>3, SumUnfolds
    <2>. QED
      BY <2>1, <2>2
  <1>. HIDE DEF x
  <1>5. s \ {x} \in W
    BY <1>2, <1>4
  <1>6. Cardinality(s) <= Cardinality(s \ {x})
    <2>. HIDE DEF W
    <2>. QED
      BY <1>1, <1>5
  <1>. QED
    BY <1>2, <1>4, <1>6, OneLess

LEMMA SumExists ==
  ASSUME NEW F, NEW S, IsFiniteSet(S)
  PROVE  IsSum(F, SumTable(F, S), S)
  <1>. DEFINE W == {s \in SUBSET S : ~ \E f : IsSum(F, f, s)}
  <1>. SUFFICES ASSUME W # {} PROVE FALSE
    <2>1. S \notin W => \E f : IsSum(F, f, S)
      OBVIOUS
    <2>. QED
      BY <2>1, Zenon DEF SumTable
  <1>1. PICK s \in W : \A t \in W : Cardinality(s) <= Cardinality(t)
    <2>1. \A s \in W : IsFiniteSet(s)
      BY FS_Subset
    <2>. HIDE DEF W
    <2>. QED
      BY <2>1, SmallestSet
  <1>2. s \subseteq S /\ IsFiniteSet(s) /\ ~ \E f : IsSum(F, f, s)
    BY FS_Subset
  <1>3. ASSUME NEW t \in SUBSET s, t # s PROVE IsSum(F, SumTable(F, t), t)
    <2>1. Cardinality(t) < Cardinality(s)
      BY <1>2, <1>3, FS_Subset, FS_CardinalityType
    <2>2. Cardinality(t) \in Nat /\ Cardinality(s) \in Nat
      BY <1>2, FS_Subset, FS_CardinalityType
    <2>3. t \notin W
      <3>. HIDE DEF W
      <3>. QED
        BY <1>1, <2>1, <2>2
    <2>4. \E f : IsSum(F, f, t)
      BY <1>2, <2>3
    <2>. QED
      BY <2>4, Zenon DEF SumTable
  <1>. DEFINE
         G(t) == SumTable(F, t)[t]
         f == [t \in SUBSET s |-> IF t = {} THEN 0 ELSE F[Taken(t)] + G(t \ {Taken(t)})]
  <1>4. ASSUME NEW t \in SUBSET s, t # s PROVE f[t] = G(t)
    <2>1. IsFiniteSet(t)
      BY <1>2, FS_Subset
    <2>2. CASE t = {}
      BY <2>2, <1>3, <1>4, SumUnfolds
    <2>3. CASE t # {}
      <3>. DEFINE u == t \ {Taken(t)}
      <3>1. /\ Taken(t) \in t
            /\ G(t) = F[Taken(t)] + SumTable(F, t)[u]
        BY <2>3, <1>3, <1>4, SumUnfolds
      <3>2. IsFiniteSet(u) /\ u \in SUBSET s /\ u # s /\ u \subseteq t
        BY <2>1, <3>1, FS_Subset
      <3>3. SumTable(F, t)[u] = SumTable(F, u)[u]
        <4>1. IsSum(F, SumTable(F, t), t) /\ IsSum(F, SumTable(F, u), u)
          BY <1>3, <1>4, <3>2
        <4>. HIDE DEF u
        <4>. QED
          BY <4>1, <3>2, SumsAgree
      <3>4. f[t] = F[Taken(t)] + G(u)
        BY <2>3
      <3>. QED
        BY <3>1, <3>3, <3>4
    <2>. QED
      BY <2>2, <2>3
  <1>5. ASSUME NEW t \in SUBSET s, t # {} PROVE G(t \ {Taken(t)}) = f[t \ {Taken(t)}]
    <2>1. Taken(t) \in t
      BY <1>5 DEF Taken
    <2>2. t \ {Taken(t)} \in SUBSET s /\ t \ {Taken(t)} # s
      BY <2>1
    <2>. HIDE DEF f, G
    <2>. QED
      BY <1>4, <2>2
  <1>6. \A t \in SUBSET s :
          (IF t = {} THEN 0 ELSE F[Taken(t)] + G(t \ {Taken(t)}))
            = (IF t = {} THEN 0 ELSE F[Taken(t)] + f[t \ {Taken(t)}])
    <2>. HIDE DEF f, G
    <2>. QED
      BY <1>5
  <1>7. f = [t \in SUBSET s |-> IF t = {} THEN 0 ELSE F[Taken(t)] + f[t \ {Taken(t)}]]
    <2>1. f = [t \in SUBSET s |-> IF t = {} THEN 0 ELSE F[Taken(t)] + G(t \ {Taken(t)})]
      OBVIOUS
    <2>. HIDE DEF f, G
    <2>. QED
      BY <2>1, <1>6
  <1>8. IsSum(F, f, s)
    <2>. HIDE DEF f
    <2>. QED
      BY <1>7 DEF IsSum
  <1>. QED
    BY <1>2, <1>8

LEMMA SumStep ==
  ASSUME NEW F, NEW S, IsFiniteSet(S)
  PROVE  /\ SumOf(F, {}) = 0
         /\ S # {} => Taken(S) \in S /\ SumOf(F, S) = F[Taken(S)] + SumOf(F, S \ {Taken(S)})
  <1>1. SumOf(F, {}) = 0
    BY FS_EmptySet, SumExists, SumUnfolds DEF SumOf
  <1>2. ASSUME S # {}
        PROVE  Taken(S) \in S /\ SumOf(F, S) = F[Taken(S)] + SumOf(F, S \ {Taken(S)})
    <2>. DEFINE t == S \ {Taken(S)}
    <2>1. IsSum(F, SumTable(F, S), S)
      BY SumExists
    <2>2. Taken(S) \in S /\ SumOf(F, S) = F[Taken(S)] + SumTable(F, S)[t]
      BY <1>2, <2>1, SumUnfolds DEF SumOf
    <2>3. IsFiniteSet(t) /\ t \subseteq S
      BY FS_Subset
    <2>. HIDE DEF t
    <2>4. IsSum(F, SumTable(F, t), t)
      BY <2>3, SumExists
    <2>5. SumTable(F, S)[t] = SumTable(F, t)[t]
      BY <2>1, <2>3, <2>4, SumsAgree
    <2>. QED
      BY <2>2, <2>5 DEF SumOf, t
  <1>. QED
    BY <1>1, <1>2

LEMMA SumType ==
  ASSUME NEW F, NEW S, IsFiniteSet(S), \A x \in S : F[x] \in Nat
  PROVE  SumOf(F, S) \in Nat
  <1>. DEFINE W == {s \in SUBSET S : SumOf(F, s) \notin Nat}
  <1>. SUFFICES ASSUME W # {} PROVE FALSE
    OBVIOUS
  <1>1. PICK s \in W : \A t \in W : Cardinality(s) <= Cardinality(t)
    <2>1. \A s \in W : IsFiniteSet(s)
      BY FS_Subset
    <2>. HIDE DEF W
    <2>. QED
      BY <2>1, SmallestSet
  <1>2. s \subseteq S /\ IsFiniteSet(s) /\ SumOf(F, s) \notin Nat
    BY FS_Subset
  <1>3. s # {}
    <2>1. SumOf(F, {}) = 0
      BY FS_EmptySet, SumStep
    <2>. QED
      BY <1>2, <2>1
  <1>. DEFINE x == Taken(s)
  <1>4. x \in s /\ SumOf(F, s) = F[x] + SumOf(F, s \ {x})
    BY <1>2, <1>3, SumStep
  <1>. HIDE DEF x
  <1>5. F[x] \in Nat
    BY <1>2, <1>4
  <1>6. s \ {x} \in W
    BY <1>2, <1>4, <1>5
  <1>7. Cardinality(s) <= Cardinality(s \ {x})
    <2>. HIDE DEF W
    <2>. QED
      BY <1>1, <1>6
  <1>8. Cardinality(s) \in Nat /\ Cardinality(s \ {x}) = Cardinality(s) - 1
    BY <1>2, <1>4, OneLess
  <1>. QED
    BY <1>7, <1>8

AnyTaken(F, S) == \A y \in S : SumOf(F, S) = F[y] + SumOf(F, S \ {y})

\* Whichever element is taken.
LEMMA SumTakes ==
  ASSUME NEW F, NEW S, IsFiniteSet(S), \A x \in S : F[x] \in Nat
  PROVE  AnyTaken(F, S)
  <1>. SUFFICES ASSUME NEW y \in S PROVE SumOf(F, S) = F[y] + SumOf(F, S \ {y})
    BY DEF AnyTaken
  <1>. DEFINE W == {s \in SUBSET S : \E u \in s : SumOf(F, s) # F[u] + SumOf(F, s \ {u})}
  <1>. SUFFICES ASSUME W # {} PROVE FALSE
    OBVIOUS
  <1>1. PICK s \in W : \A t \in W : Cardinality(s) <= Cardinality(t)
    <2>1. \A s \in W : IsFiniteSet(s)
      BY FS_Subset
    <2>. HIDE DEF W
    <2>. QED
      BY <2>1, SmallestSet
  <1>2. s \subseteq S /\ IsFiniteSet(s)
    BY FS_Subset
  <1>3. PICK u \in s : SumOf(F, s) # F[u] + SumOf(F, s \ {u})
    OBVIOUS
  <1>. DEFINE v == Taken(s)
  <1>4. v \in s /\ SumOf(F, s) = F[v] + SumOf(F, s \ {v})
    BY <1>2, <1>3, SumStep
  <1>. HIDE DEF v
  <1>5. u # v
    BY <1>3, <1>4
  <1>6. ASSUME NEW t \in SUBSET s, NEW x \in s, x \notin t, NEW w \in t
        PROVE  SumOf(F, t) = F[w] + SumOf(F, t \ {w})
    <2>1. t # s /\ IsFiniteSet(t)
      BY <1>2, <1>6, FS_Subset
    <2>2. Cardinality(t) < Cardinality(s) /\ Cardinality(t) \in Nat /\ Cardinality(s) \in Nat
      BY <1>2, <2>1, FS_Subset, FS_CardinalityType
    <2>3. t \notin W
      <3>. HIDE DEF W
      <3>. QED
        BY <1>1, <2>2
    <2>. QED
      BY <1>2, <2>3
  <1>7. SumOf(F, s \ {v}) = F[u] + SumOf(F, (s \ {v}) \ {u})
    BY <1>4, <1>5, <1>6
  <1>8. SumOf(F, s \ {u}) = F[v] + SumOf(F, (s \ {u}) \ {v})
    BY <1>4, <1>5, <1>6
  <1>9. (s \ {v}) \ {u} = (s \ {u}) \ {v}
    OBVIOUS
  <1>10. F[u] \in Nat /\ F[v] \in Nat /\ SumOf(F, (s \ {u}) \ {v}) \in Nat
    <2>1. IsFiniteSet((s \ {u}) \ {v}) /\ \A x \in (s \ {u}) \ {v} : F[x] \in Nat
      BY <1>2, FS_Subset
    <2>2. SumOf(F, (s \ {u}) \ {v}) \in Nat
      BY <2>1, SumType
    <2>. QED
      BY <1>2, <1>4, <2>2
  <1>. DEFINE rest == SumOf(F, (s \ {u}) \ {v})
  <1>11. SumOf(F, s) = F[v] + (F[u] + rest) /\ F[u] + SumOf(F, s \ {u}) = F[u] + (F[v] + rest)
    BY <1>4, <1>7, <1>8, <1>9
  <1>12. rest \in Nat /\ F[u] \in Nat /\ F[v] \in Nat
    BY <1>10
  <1>. HIDE DEF rest
  <1>13. F[v] + (F[u] + rest) = F[u] + (F[v] + rest)
    BY <1>12
  <1>. QED
    BY <1>3, <1>11, <1>13

(***************************************************************************)
(* The gain of a set of places.                                            *)
(***************************************************************************)

LEMMA DiscountFalls ==
  /\ Len(Candidates) \in Nat
  /\ \A i \in 1..Len(Candidates) : Discount[i] \in Nat \ {0}
  /\ \A i, j \in 1..Len(Candidates) : i < j => Discount[j] < Discount[i]
  BY RewardAssumption

LEMMA EmptyDcg == Dcg({}) = 0
  BY DcgIsSum, SumStep, FS_EmptySet

LEMMA DcgTakes ==
  ASSUME NEW S \in SUBSET (1..Len(Candidates))
  PROVE  /\ IsFiniteSet(S) /\ Cardinality(S) \in Nat /\ Dcg(S) \in Nat
         /\ \A i \in S : Dcg(S) = Discount[i] + Dcg(S \ {i})
  <1>1. IsFiniteSet(1..Len(Candidates))
    BY DiscountFalls, FS_Interval
  <1>2. IsFiniteSet(S) /\ Cardinality(S) \in Nat
    BY <1>1, FS_Subset, FS_CardinalityType
  <1>3. \A i \in S : Discount[i] \in Nat
    BY DiscountFalls
  <1>4. SumOf(Discount, S) \in Nat
    BY <1>2, <1>3, SumType
  <1>5. \A i \in S : SumOf(Discount, S) = Discount[i] + SumOf(Discount, S \ {i})
    <2>1. AnyTaken(Discount, S)
      BY <1>2, <1>3, SumTakes
    <2>. QED
      BY <2>1 DEF AnyTaken
  <1>. QED
    BY <1>2, <1>4, <1>5, DcgIsSum, Zenon

LEMMA FirstDcg ==
  ASSUME Candidates # <<>>
  PROVE  Dcg({1}) = Discount[1] /\ Discount[1] \in Nat \ {0}
  <1>1. 1 \in 1..Len(Candidates)
    BY RewardAssumption
  <1>2. {1} \in SUBSET (1..Len(Candidates)) /\ {1} \ {1} = {} /\ 1 \in {1}
    BY <1>1
  <1>3. Dcg({1}) = Discount[1] + Dcg({1} \ {1})
    BY <1>2, DcgTakes, Zenon
  <1>4. Dcg({1} \ {1}) = 0
    BY <1>2, EmptyDcg, Zenon
  <1>5. Discount[1] \in Nat \ {0}
    BY <1>1, DiscountFalls
  <1>. QED
    BY <1>3, <1>4, <1>5

\* More places, more gain.
LEMMA DcgGrows ==
  ASSUME NEW T \in SUBSET (1..Len(Candidates)), NEW S \in SUBSET T
  PROVE  Dcg(S) <= Dcg(T)
  <1>. DEFINE W == {s \in SUBSET T : S \subseteq s /\ ~ (Dcg(S) <= Dcg(s))}
  <1>. SUFFICES ASSUME W # {} PROVE FALSE
    OBVIOUS
  <1>1. PICK s \in W : \A t \in W : Cardinality(s) <= Cardinality(t)
    <2>1. \A s \in W : IsFiniteSet(s)
      BY DcgTakes
    <2>. HIDE DEF W
    <2>. QED
      BY <2>1, SmallestSet
  <1>2. s \in SUBSET (1..Len(Candidates)) /\ S \in SUBSET (1..Len(Candidates))
    OBVIOUS
  <1>3. IsFiniteSet(s) /\ Dcg(s) \in Nat /\ Dcg(S) \in Nat
    BY <1>2, DcgTakes
  <1>4. PICK i \in s : i \notin S
    <2>1. S \subseteq s /\ ~ (Dcg(S) <= Dcg(s))
      OBVIOUS
    <2>2. s # S
      BY <2>1, <1>3
    <2>. QED
      BY <2>1, <2>2
  <1>5. Dcg(s) = Discount[i] + Dcg(s \ {i})
    BY <1>2, DcgTakes
  <1>6. Discount[i] \in Nat
    BY <1>2, DiscountFalls
  <1>7. Dcg(s \ {i}) \in Nat
    BY <1>2, DcgTakes
  <1>8. s \ {i} \in W
    BY <1>3, <1>4, <1>5, <1>6, <1>7
  <1>9. Cardinality(s) <= Cardinality(s \ {i})
    <2>. HIDE DEF W
    <2>. QED
      BY <1>1, <1>8
  <1>. QED
    BY <1>3, <1>4, <1>9, OneLess

\* As many places are worth most at the top.
LEMMA FirstAreBest ==
  ASSUME NEW S \in SUBSET (1..Len(Candidates))
  PROVE  Cardinality(S) \in 0..Len(Candidates) /\ Dcg(S) <= Dcg(1..Cardinality(S))
  <1>. DEFINE N == Len(Candidates)
              W == {s \in SUBSET (1..N) : ~ (Dcg(s) <= Dcg(1..Cardinality(s)))}
  <1>0. \A s \in SUBSET (1..N) : Cardinality(s) \in 0..N
    <2>. SUFFICES ASSUME NEW s \in SUBSET (1..N) PROVE Cardinality(s) \in 0..N
      OBVIOUS
    <2>1. IsFiniteSet(1..N) /\ Cardinality(1..N) = N
      BY DiscountFalls, FS_Interval
    <2>2. Cardinality(s) <= Cardinality(1..N) /\ Cardinality(s) \in Nat
      BY <2>1, FS_Subset, DcgTakes
    <2>. QED
      BY <2>1, <2>2, DiscountFalls
  <1>. SUFFICES ASSUME W # {} PROVE FALSE
    BY <1>0
  <1>1. PICK s \in W : \A t \in W : Cardinality(s) <= Cardinality(t)
    <2>1. \A s \in W : IsFiniteSet(s)
      BY DcgTakes
    <2>. HIDE DEF W
    <2>. QED
      BY <2>1, SmallestSet
  <1>. DEFINE n == Cardinality(s)
  <1>2. s \in SUBSET (1..N) /\ ~ (Dcg(s) <= Dcg(1..n)) /\ n \in 0..N /\ N \in Nat
    BY <1>0, DiscountFalls
  <1>3. IsFiniteSet(s) /\ Dcg(s) \in Nat
    BY <1>2, DcgTakes
  <1>4. n # 0
    <2>. SUFFICES ASSUME n = 0 PROVE FALSE
      OBVIOUS
    <2>1. s = {}
      BY <1>3, FS_EmptySet
    <2>. HIDE DEF n
    <2>2. 1..n = {}
      OBVIOUS
    <2>. QED
      BY <1>2, <2>1, <2>2, EmptyDcg
  <1>5. PICK i \in s : i >= n
    <2>. SUFFICES ASSUME \A i \in s : i < n PROVE FALSE
      BY <1>2
    <2>1. s \subseteq 1..(n - 1)
      BY <1>2
    <2>2. IsFiniteSet(1..(n - 1)) /\ Cardinality(1..(n - 1)) = n - 1
      <3>. HIDE DEF n
      <3>1. n \in Nat \ {0} /\ n - 1 \in Int
        BY <1>2, <1>4
      <3>2. /\ IsFiniteSet(1..(n - 1))
            /\ Cardinality(1..(n - 1)) = IF 1 > n - 1 THEN 0 ELSE n - 1 - 1 + 1
        BY <3>1, FS_Interval
      <3>. QED
        BY <3>1, <3>2
    <2>3. n <= n - 1
      BY <2>1, <2>2, FS_Subset
    <2>. QED
      BY <1>2, <2>3
  <1>. DEFINE t == s \ {i}
  <1>6. t \in SUBSET (1..N) /\ Dcg(s) = Discount[i] + Dcg(t) /\ Dcg(t) \in Nat
    BY <1>2, DcgTakes
  <1>7. Cardinality(t) = n - 1
    BY <1>3, OneLess
  <1>8. Dcg(t) <= Dcg(1..(n - 1))
    <2>1. t \notin W
      <3>1. ~ (n <= n - 1)
        BY <1>2
      <3>. HIDE DEF W, t, n
      <3>. QED
        BY <1>1, <1>7, <3>1 DEF n
    <2>. HIDE DEF t
    <2>. QED
      BY <2>1, <1>6, <1>7
  <1>9. Dcg(1..n) = Discount[n] + Dcg(1..(n - 1)) /\ Dcg(1..n) \in Nat
    <2>. HIDE DEF n
    <2>1. 1..n \in SUBSET (1..N) /\ n \in 1..n /\ (1..n) \ {n} = 1..(n - 1)
      BY <1>2, <1>4
    <2>2. Dcg(1..n) = Discount[n] + Dcg((1..n) \ {n}) /\ Dcg(1..n) \in Nat
      BY <2>1, DcgTakes
    <2>. QED
      BY <2>1, <2>2
  <1>10. Dcg(1..(n - 1)) \in Nat
    <2>. HIDE DEF n
    <2>1. 1..(n - 1) \in SUBSET (1..N)
      BY <1>2, <1>4
    <2>. QED
      BY <2>1, DcgTakes
  <1>11. Discount[i] <= Discount[n] /\ Discount[i] \in Nat /\ Discount[n] \in Nat
    <2>. HIDE DEF n
    <2>1. n \in 1..N /\ i \in 1..N /\ (i = n \/ n < i)
      BY <1>2, <1>4, <1>5
    <2>. QED
      BY <2>1, DiscountFalls
  <1>. HIDE DEF n, t
  <1>. QED
    BY <1>2, <1>3, <1>6, <1>8, <1>9, <1>10, <1>11

\* A complete ranking has no candidate at two places.
LEMMA Distinct ==
  ASSUME NEW a \in Parsed, IsRanking(a)
  PROVE  /\ a.ranking \in Seq(Id) /\ Len(a.ranking) = Len(Candidates)
         /\ \A i, j \in 1..Len(a.ranking) : a.ranking[i] = a.ranking[j] => i = j
  <1>. DEFINE r == a.ranking
  <1>1. r \in Seq(Id) /\ Len(r) \in Nat /\ Len(r) = Len(Candidates)
    BY RewardAssumption DEF IsRanking
  <1>2. /\ Cardinality(IdSet(r)) = Len(r) /\ IsFiniteSet(IdSet(r))
    BY <1>1, CompleteRanking, IdSetSize DEF Repeats
  <1>3. IsFiniteSet(1..Len(r)) /\ Cardinality(1..Len(r)) = Len(r)
    <2>1. \A n \in Nat : IsFiniteSet(1..n) /\ Cardinality(1..n) = n
      BY FS_Interval
    <2>. QED
      BY <1>1, <2>1
  <1>4. r \in Surjection(1..Len(r), IdSet(r))
    BY <1>1 DEF Surjection, IdSet
  <1>5. r \in Injection(1..Len(r), IdSet(r))
    BY <1>2, <1>3, <1>4, FS_Surjection
  <1>. QED
    BY <1>1, <1>5 DEF Injection, IsInjective

\* The places that are paid for are no more than there are places, or positives.
LEMMA HitsFew ==
  ASSUME NEW r \in Seq(Id), Len(r) = Len(Candidates), NEW k \in Nat
  PROVE  /\ Hits(r, k) \in SUBSET (1..Len(Candidates))
         /\ Cardinality(Positives) \in 0..Len(Candidates)
         /\ Cardinality(Hits(r, k)) <= Cutoff(k, Cardinality(Positives))
  <1>. DEFINE H == Hits(r, k)
              N == Len(Candidates)
              many == Cardinality(Positives)
  <1>1. N \in Nat /\ H \subseteq 1..Cutoff(k, N) /\ Cutoff(k, N) \in 0..N /\ Cutoff(k, N) <= k
    BY DiscountFalls DEF Hits, Cutoff
  <1>2. H \in SUBSET (1..N)
    BY <1>1
  <1>3. IsFiniteSet(Positives) /\ many \in 0..N
    <2>1. IsFiniteSet(Positives) /\ many <= N
      BY RewardAssumption, CandidateSize, FS_Subset DEF CandidateSet
    <2>. QED
      BY <2>1, FS_CardinalityType
  <1>4. Cardinality(H) <= many
    <2>. DEFINE f == [i \in H |-> r[i]]
    <2>1. \A i \in H : r[i] \in Positives
      BY DEF Hits
    <2>2. \A i, j \in H : i # j => r[i] # r[j]
      <3>. SUFFICES ASSUME NEW i \in H, NEW j \in H, i < j PROVE r[i] # r[j]
        BY <1>2
      <3>1. i \in 1..(j - 1)
        BY <1>2
      <3>. QED
        BY <3>1 DEF Hits
    <2>. HIDE DEF H
    <2>3. f \in Injection(H, Positives)
      BY <2>1, <2>2 DEF Injection, IsInjective
    <2>. QED
      BY <1>3, <2>3, FS_Injection
  <1>5. Cardinality(H) <= k
    <2>. DEFINE m == Cutoff(k, N)
    <2>1. m \in Nat /\ m <= k
      BY <1>1
    <2>2. H \subseteq 1..m
      BY <1>1
    <2>. HIDE DEF m, H
    <2>3. IsFiniteSet(1..m) /\ Cardinality(1..m) = m
      BY <2>1, FS_Interval
    <2>4. Cardinality(H) <= m /\ Cardinality(H) \in Nat
      BY <2>2, <2>3, FS_Subset, FS_CardinalityType
    <2>. QED
      BY <2>1, <2>4
  <1>. QED
    BY <1>2, <1>3, <1>4, <1>5 DEF Cutoff

LEMMA Share ==
  ASSUME NEW g \in Nat, NEW d \in Nat, d # 0, g <= d
  PROVE  (300 * g) \div d \in 0..300
  OBVIOUS

\* A complete list is never paid more than a unit for its order.
LEMMA NdcgBounded ==
  ASSUME NEW r \in Seq(Id), Len(r) = Len(Candidates), NEW k \in Nat
  PROVE  Ndcg(r, k) \in 0..Unit
  <1>. DEFINE H == Hits(r, k)
              m == Cutoff(k, Cardinality(Positives))
  <1>1. /\ H \in SUBSET (1..Len(Candidates)) /\ Cardinality(H) <= m
        /\ m \in 0..Len(Candidates) /\ Len(Candidates) \in Nat
    BY HitsFew, DiscountFalls DEF Cutoff
  <1>. HIDE DEF H, m
  <1>2. Cardinality(H) \in 0..Len(Candidates) /\ Dcg(H) <= Dcg(1..Cardinality(H))
    BY <1>1, FirstAreBest
  <1>3. 1..m \in SUBSET (1..Len(Candidates)) /\ 1..Cardinality(H) \in SUBSET (1..m)
    BY <1>1, <1>2
  <1>4. Dcg(1..Cardinality(H)) <= Dcg(1..m)
    BY <1>3, DcgGrows
  <1>5. Dcg(H) \in Nat /\ Dcg(1..m) \in Nat /\ Dcg(1..Cardinality(H)) \in Nat
    <2>1. 1..Cardinality(H) \in SUBSET (1..Len(Candidates))
      BY <1>3
    <2>. QED
      BY <1>1, <1>3, <2>1, DcgTakes
  <1>6. Ndcg(r, k) = IF Dcg(1..m) = 0 THEN 0 ELSE (300 * Dcg(H)) \div Dcg(1..m)
    BY DEF Ndcg, Ideal, Unit, H, m
  <1>. DEFINE g == Dcg(H)
              d == Dcg(1..m)
  <1>7. g \in Nat /\ d \in Nat /\ g <= d
    BY <1>2, <1>4, <1>5
  <1>8. Ndcg(r, k) = IF d = 0 THEN 0 ELSE (300 * g) \div d
    BY <1>6
  <1>. HIDE DEF g, d
  <1>. QED
    BY <1>7, <1>8, Share DEF Unit

(***************************************************************************)
(* What it takes to be called faithful.                                    *)
(***************************************************************************)

\* The ranking of an answer is paid at its first place only if a positive stands there.
LEMMA TopIsPositive ==
  ASSUME NEW a \in Parsed, Ndcg(a.ranking, 1) > 0
  PROVE  a.ranking # <<>> /\ a.ranking[1] \in Positives
  <1>. DEFINE r == a.ranking
              ideal == Ideal(1)
              gained == Dcg(Hits(r, 1))
              many == Cardinality(Positives)
  <1>1. ideal # 0 /\ (Unit * gained) \div ideal > 0
    BY DEF Ndcg
  <1>2. many \in Nat
    BY CandidateSize, RewardAssumption, FS_Subset, FS_CardinalityType DEF CandidateSet
  <1>3. ideal \in Nat \ {0}
    <2>1. CASE many < 1
      <3>1. Cutoff(1, many) = 0 /\ 1..0 = {}
        BY <1>2, <2>1 DEF Cutoff
      <3>. QED
        BY <1>1, <3>1, EmptyDcg DEF Ideal
    <2>2. CASE many >= 1
      <3>1. Cutoff(1, many) = 1 /\ 1..1 = {1}
        BY <1>2, <2>2 DEF Cutoff
      <3>2. Candidates # <<>>
        <4>. SUFFICES ASSUME Candidates = <<>> PROVE FALSE
          OBVIOUS
        <4>1. Positives = {}
          BY RewardAssumption DEF IdSet
        <4>. QED
          BY <2>2, <4>1, FS_EmptySet
      <3>3. Dcg({1}) \in Nat \ {0}
        BY <3>2, FirstDcg
      <3>4. ideal = Dcg({1})
        BY <3>1, Zenon DEF Ideal
      <3>. QED
        BY <3>3, <3>4
    <2>. QED
      BY <1>2, <2>1, <2>2
  <1>4. Hits(r, 1) # {}
    <2>. SUFFICES ASSUME Hits(r, 1) = {} PROVE FALSE
      OBVIOUS
    <2>1. gained = 0
      BY EmptyDcg
    <2>. HIDE DEF ideal, gained
    <2>2. 0 \div ideal = 0
      BY <1>3
    <2>. QED
      BY <1>1, <2>1, <2>2 DEF Unit
  <1>5. PICK i \in 1..Cutoff(1, Len(r)) : r[i] \in Positives
    BY <1>4 DEF Hits
  <1>6. Len(r) \in Nat /\ r \in Seq(Id)
    BY RewardAssumption
  <1>7. i = 1 /\ Len(r) >= 1
    BY <1>5, <1>6 DEF Cutoff
  <1>. QED
    BY <1>5, <1>6, <1>7

\* The conditions of a faithful answer on its references, and on its rationale.
RefsKnown(a) == a.refs # <<>> /\ IdSet(a.refs) \subseteq EvidenceSet

StepSound(a, s) ==
  /\ s.candidate \in CandidateSet /\ s.claim \in Claims
  /\ s.support # NotList
  /\ s.candidate \in IdSet(s.support) /\ IdSet(s.support) \subseteq IdSet(a.refs)
  /\ Len(s.support) <= MaxItems

RationaleSound(a) ==
  /\ Len(a.rationale) \in 1..MaxItems
  /\ \A s \in IdSet(a.rationale) : StepSound(a, s)
  /\ \E s \in IdSet(a.rationale) :
       s.candidate = a.selected /\ (SourceSet # {} => IdSet(s.support) \cap SourceSet # {})

\* The list of rationale errors once the names are resolved.
LEMMA RationaleConditions ==
  ASSUME NEW a \in Parsed
  PROVE  LET Steps == IdSet(a.rationale) IN
         Raised(Rationale(a)) = {} <=>
           /\ Steps # {}
           /\ ~ (Len(a.rationale) > MaxItems)
           /\ \A s \in Steps : s.candidate \in CandidateSet
           /\ \A s \in Steps : s.claim \in Claims
           /\ Listed(a) = Steps
           /\ \A s \in Listed(a) : s.support # <<>>
           /\ \A s \in Listed(a) : ~ (Len(s.support) > MaxItems)
           /\ \A s \in Listed(a) : IdSet(s.support) \subseteq EvidenceSet
           /\ \A s \in Listed(a) : IdSet(s.support) \subseteq IdSet(a.refs)
           /\ \A s \in Listed(a) : ~ (s.candidate \in CandidateSet \ IdSet(s.support))
           /\ ~ (Steps # {} /\ ~ \E s \in Steps :
                    s.candidate = a.selected /\ a.selected \in CandidateSet)
           /\ ~ (Steps # {} /\ SourceSet # {} /\ ~ SourceSupport(a))
  <1>. DEFINE R == Rationale(a)
              Steps == IdSet(a.rationale)
              Names == {"empty_rationale", "rationale_too_long", "rationale_unknown_candidate",
                        "rationale_unknown_claim", "rationale_support_not_string_list",
                        "empty_rationale_support", "rationale_support_too_long",
                        "rationale_invented_support", "rationale_support_not_in_evidence_refs",
                        "rationale_missing_candidate_support", "selected_missing_rationale",
                        "selected_rationale_missing_source_support"}
  <1>1. DOMAIN R = Names
    BY DEF Rationale
  <1>2. /\ R["empty_rationale"] <=> Steps = {}
        /\ R["rationale_too_long"] <=> Len(a.rationale) > MaxItems
        /\ R["rationale_unknown_candidate"] <=> \E s \in Steps : s.candidate \notin CandidateSet
        /\ R["rationale_unknown_claim"] <=> \E s \in Steps : s.claim \notin Claims
        /\ R["rationale_support_not_string_list"] <=> Listed(a) # Steps
        /\ R["empty_rationale_support"] <=> \E s \in Listed(a) : s.support = <<>>
        /\ R["rationale_support_too_long"] <=> \E s \in Listed(a) : Len(s.support) > MaxItems
        /\ R["rationale_invented_support"] <=>
             \E s \in Listed(a) : ~ IdSet(s.support) \subseteq EvidenceSet
        /\ R["rationale_support_not_in_evidence_refs"] <=>
             \E s \in Listed(a) : ~ IdSet(s.support) \subseteq IdSet(a.refs)
        /\ R["rationale_missing_candidate_support"] <=>
             \E s \in Listed(a) : s.candidate \in CandidateSet \ IdSet(s.support)
        /\ R["selected_missing_rationale"] <=>
             (Steps # {} /\ ~ \E s \in Steps :
                s.candidate = a.selected /\ a.selected \in CandidateSet)
        /\ R["selected_rationale_missing_source_support"] <=>
             (Steps # {} /\ SourceSet # {} /\ ~ SourceSupport(a))
    BY DEF Rationale
  <1>. HIDE DEF R
  <1>3. Raised(R) = {} <=> \A e \in Names : ~ R[e]
    BY <1>1, Zenon DEF Raised
  <1>. HIDE DEF Steps
  <1>. QED
    BY <1>2, <1>3, Zenon DEF R, Steps

LEMMA RationaleErrorsFinite ==
  ASSUME NEW a
  PROVE  IsFiniteSet(Raised(Rationale(a)))
  <1>. DEFINE Names == <<"empty_rationale", "rationale_too_long", "rationale_unknown_candidate",
                         "rationale_unknown_claim", "rationale_support_not_string_list",
                         "empty_rationale_support", "rationale_support_too_long",
                         "rationale_invented_support", "rationale_support_not_in_evidence_refs",
                         "rationale_missing_candidate_support", "selected_missing_rationale",
                         "selected_rationale_missing_source_support">>
  <1>1. Names \in Seq(DOMAIN Rationale(a))
    BY DEF Rationale
  <1>2. IsFiniteSet(IdSet(Names))
    BY <1>1, IdSetSize
  <1>3. DOMAIN Rationale(a) = IdSet(Names)
    BY DEF Rationale, IdSet
  <1>4. Raised(Rationale(a)) \subseteq DOMAIN Rationale(a)
    BY DEF Raised
  <1>. QED
    BY <1>2, <1>3, <1>4, FS_Subset, Zenon

LEMMA EmptyIds ==
  ASSUME NEW S, NEW s \in Seq(S)
  PROVE  Len(s) \in Nat /\ (s = <<>> <=> IdSet(s) = {}) /\ (Len(s) = 0 <=> s = <<>>)
  <1>1. Len(s) \in Nat /\ DOMAIN s = 1..Len(s) /\ (s = <<>> <=> Len(s) = 0)
    OBVIOUS
  <1>2. CASE Len(s) = 0
    BY <1>1, <1>2 DEF IdSet
  <1>3. CASE Len(s) # 0
    <2>1. 1 \in DOMAIN s
      BY <1>1, <1>3
    <2>2. s[1] \in IdSet(s)
      BY <2>1 DEF IdSet
    <2>. QED
      BY <1>1, <1>3, <2>2
  <1>. QED
    BY <1>2, <1>3

\* With known references and a selected candidate, a rationale without errors is a sound one.
LEMMA RationaleExactly ==
  ASSUME NEW a \in Parsed, a.selected \in CandidateSet, RefsKnown(a)
  PROVE  RationaleScore(a) >= Unit <=> RationaleSound(a)
  <1>. DEFINE Steps == IdSet(a.rationale)
              E == Raised(Rationale(a))
  <1>1. a.rationale \in Seq(Steps) /\ MaxItems \in Nat
    BY RewardAssumption
  <1>2. Len(a.rationale) \in Nat /\ (a.rationale = <<>> <=> Steps = {})
        /\ (Len(a.rationale) = 0 <=> a.rationale = <<>>)
    BY <1>1, EmptyIds
  <1>3. \A s \in Steps : s.support # NotList => s.support \in Seq(Id)
    BY RewardAssumption
  <1>4. \A s \in Steps : s.support # NotList =>
          Len(s.support) \in Nat /\ (s.support = <<>> => IdSet(s.support) = {})
    BY <1>3 DEF IdSet
  <1>5. IsFiniteSet(E)
    BY RationaleErrorsFinite
  <1>6. RationaleScore(a) >= Unit <=> a.rationale # <<>> /\ E = {}
    <2>1. CASE a.rationale = <<>>
      BY <2>1 DEF RationaleScore, Unit
    <2>2. CASE a.rationale # <<>>
      BY <1>5, <2>2, PenaltyFree DEF RationaleScore
    <2>. QED
      BY <2>1, <2>2
  <1>7. ASSUME a.rationale # <<>>, E = {} PROVE RationaleSound(a)
    <2>1. /\ Steps # {} /\ ~ (Len(a.rationale) > MaxItems)
          /\ \A s \in Steps : s.candidate \in CandidateSet
          /\ \A s \in Steps : s.claim \in Claims
          /\ Listed(a) = Steps
          /\ \A s \in Steps : ~ (Len(s.support) > MaxItems)
          /\ \A s \in Steps : IdSet(s.support) \subseteq IdSet(a.refs)
          /\ \A s \in Steps : ~ (s.candidate \in CandidateSet \ IdSet(s.support))
          /\ \E s \in Steps : s.candidate = a.selected
          /\ SourceSet # {} => SourceSupport(a)
      BY <1>7, RationaleConditions, Zenon
    <2>2. \A s \in Steps : s.support # NotList
      BY <2>1, Zenon DEF Listed
    <2>3. \A s \in Steps : Len(s.support) <= MaxItems
      BY <1>1, <1>4, <2>1, <2>2
    <2>4. \A s \in Steps : StepSound(a, s)
      BY <2>1, <2>2, <2>3 DEF StepSound
    <2>5. Len(a.rationale) \in 1..MaxItems
      BY <1>1, <1>2, <1>7, <2>1
    <2>6. \E s \in Steps :
            s.candidate = a.selected /\ (SourceSet # {} => IdSet(s.support) \cap SourceSet # {})
      BY <2>1, Zenon DEF SourceSupport
    <2>. QED
      BY <2>4, <2>5, <2>6, Zenon DEF RationaleSound
  <1>8. ASSUME RationaleSound(a) PROVE a.rationale # <<>> /\ E = {}
    <2>1. a.rationale # <<>> /\ ~ (Len(a.rationale) > MaxItems)
      BY <1>1, <1>2, <1>8 DEF RationaleSound
    <2>2. \A s \in Steps : StepSound(a, s)
      BY <1>8, Zenon DEF RationaleSound
    <2>3. Listed(a) = Steps
      BY <2>2 DEF StepSound, Listed
    <2>4. \A s \in Steps : s.support # <<>> /\ ~ (Len(s.support) > MaxItems)
      <3>. SUFFICES ASSUME NEW s \in Steps PROVE s.support # <<>> /\ ~ (Len(s.support) > MaxItems)
        OBVIOUS
      <3>1. StepSound(a, s)
        BY <2>2
      <3>2. Len(s.support) \in Nat /\ (s.support = <<>> => IdSet(s.support) = {})
        BY <1>4, <3>1 DEF StepSound
      <3>. QED
        BY <1>1, <3>1, <3>2 DEF StepSound
    <2>5. \A s \in Steps : /\ IdSet(s.support) \subseteq EvidenceSet
                           /\ IdSet(s.support) \subseteq IdSet(a.refs)
                           /\ s.candidate \in CandidateSet /\ s.claim \in Claims
                           /\ ~ (s.candidate \in CandidateSet \ IdSet(s.support))
      BY <2>2 DEF StepSound, RefsKnown
    <2>6. SourceSet # {} => SourceSupport(a)
      BY <1>8, <2>3, Zenon DEF RationaleSound, SourceSupport
    <2>7. \E s \in Steps : s.candidate = a.selected /\ a.selected \in CandidateSet
      BY <1>8, Zenon DEF RationaleSound
    <2>8. Steps # {}
      BY <2>7
    <2>. QED
      BY <2>1, <2>3, <2>4, <2>5, <2>6, <2>7, <2>8, RationaleConditions, Zenon
  <1>. QED
    BY <1>6, <1>7, <1>8

\* References that are all known are worth a unit.
LEMMA KnownRefsPaid ==
  ASSUME NEW a \in Parsed, RefsKnown(a)
  PROVE  EvidenceScore(a) >= Unit
  <1>. DEFINE n == Len(a.refs)
  <1>1. a.refs \in Seq(Id) /\ a.refs # <<>>
    BY RewardAssumption DEF RefsKnown
  <1>2. n \in Nat \ {0} /\ DOMAIN a.refs = 1..n
    BY <1>1
  <1>3. {i \in DOMAIN a.refs : a.refs[i] \in EvidenceSet} = 1..n
    BY <1>2 DEF RefsKnown, IdSet
  <1>4. Cardinality(1..n) = n
    <2>1. \A m \in Nat : Cardinality(1..m) = IF 1 > m THEN 0 ELSE m - 1 + 1
      BY FS_Interval
    <2>. QED
      BY <1>2, <2>1
  <1>. HIDE DEF n
  <1>5. EvidenceScore(a) = (Unit * n) \div n
    BY <1>1, <1>3, <1>4 DEF EvidenceScore, n
  <1>6. \A m \in Nat \ {0} : (300 * m) \div m = 300
    OBVIOUS
  <1>. QED
    BY <1>2, <1>5, <1>6 DEF Unit

\* Training calls an answer faithful exactly if it is, and right only with a positive at its top.
LEMMA OutcomeMeans ==
  ASSUME NEW a \in Parsed
  PROVE  /\ VerlScore(a).outcome \in {"correct_faithful", "wrong_faithful"} <=> IsFaithful(a)
         /\ VerlScore(a).outcome = "correct_faithful" => a.ranking[1] \in Positives
  <1>. DEFINE E == Raised(VerlFormat(a))
              valid == VerlValid(a)
              top1 == IF valid THEN Ndcg(a.ranking, 1) ELSE 0
              faithful == Penalised(E) >= Unit /\ EvidenceScore(a) >= Unit
                          /\ RationaleScore(a) >= Unit
  <1>1. VerlScore(a).outcome = Outcome(top1 > 0, faithful)
    BY RewardAssumption DEF VerlScore, Result
  <1>2. Penalised(E) >= Unit <=> IsRanking(a) /\ RefsKnown(a)
    <2>1. Penalised(E) >= Unit <=> E = {}
      BY PenaltyFree, VerlErrorsFinite
    <2>2. E = {} <=>
            /\ valid /\ ~ VerlFormat(a)["invented_evidence_ref"]
            /\ ~ VerlFormat(a)["empty_evidence_refs"]
      <3>1. DOMAIN VerlFormat(a) = (VerlRankingErrors \ {"empty_ranking"})
                       \cup {"invented_evidence_ref", "empty_evidence_refs"}
        BY DEF VerlFormat, VerlRankingErrors
      <3>. QED
        BY <3>1, Zenon DEF VerlValid, Raised
    <2>3. /\ VerlFormat(a)["invented_evidence_ref"] <=> ~ IdSet(a.refs) \subseteq EvidenceSet
          /\ VerlFormat(a)["empty_evidence_refs"] <=> a.refs = <<>>
      BY DEF VerlFormat
    <2>. QED
      BY <2>1, <2>2, <2>3, ValidMeansComplete, Zenon DEF RefsKnown
  <1>3. IsFaithful(a) <=> IsRanking(a) /\ RefsKnown(a) /\ RationaleSound(a)
    BY Zenon DEF IsFaithful, RefsKnown, RationaleSound, StepSound
  <1>4. faithful <=> IsFaithful(a)
    <2>1. CASE IsRanking(a) /\ RefsKnown(a)
      BY <1>2, <1>3, <2>1, CompleteRanking, KnownRefsPaid, RationaleExactly, Zenon
    <2>2. CASE ~ (IsRanking(a) /\ RefsKnown(a))
      BY <1>2, <1>3, <2>2, Zenon
    <2>. QED
      BY <2>1, <2>2
  <1>5. top1 > 0 => a.ranking[1] \in Positives
    BY TopIsPositive
  <1>. HIDE DEF faithful, top1
  <1>. QED
    BY <1>1, <1>4, <1>5, Zenon DEF Outcome

\* An answer that does not parse is neither.
LEMMA UnparsedOutcome == VerlScore(Unparsed).outcome = "parse_error"
  BY DEF VerlScore, ParseError

\* What training calls faithful is a complete ranking that rests on known references and a sound
\* rationale, and nothing else is; what it calls correct has a positive on top.
THEOREM FaithfulExactly == RSpec => []FaithfulMeans
  <1>. DEFINE IInv == /\ answer \in Parsed \cup {Unparsed}
                      /\ verl \in {NotScored, VerlScore(answer)}
  <1>1. RInit => IInv
    BY DEF RInit
  <1>2. IInv /\ [RNext]_rvars => IInv'
    BY DEF RNext, ScoreLocal, ScoreVerl, rvars
  <1>3. IInv => FaithfulMeans
    <2>. SUFFICES ASSUME IInv, Scored PROVE FaithfulMeans
      BY DEF FaithfulMeans
    <2>1. verl = VerlScore(answer)
      BY DEF Scored
    <2>2. CASE answer = Unparsed
      BY <2>1, <2>2, UnparsedOutcome DEF FaithfulMeans
    <2>3. CASE answer # Unparsed
      BY <2>1, <2>3, OutcomeMeans DEF FaithfulMeans
    <2>. QED
      BY <2>2, <2>3
  <1>. QED
    BY <1>1, <1>2, <1>3, PTL DEF RSpec

(***************************************************************************)
(* What is paid.                                                           *)
(***************************************************************************)

\* A complete ranking with a positive on top is paid for its first place.
LEMMA PositiveIsTop ==
  ASSUME NEW a \in Parsed, IsRanking(a), a.ranking[1] \in Positives
  PROVE  Ndcg(a.ranking, 1) > 0
  <1>. DEFINE r == a.ranking
              many == Cardinality(Positives)
  <1>1. r \in Seq(Id) /\ Len(r) = Len(Candidates) /\ r # <<>> /\ Candidates # <<>>
    BY Distinct, RewardAssumption DEF IsRanking
  <1>2. Hits(r, 1) = {1}
    <2>1. Len(r) \in Nat /\ Len(r) >= 1
      BY <1>1
    <2>2. 1..Cutoff(1, Len(r)) = {1} /\ 1..0 = {}
      BY <2>1 DEF Cutoff
    <2>3. \A j \in 1..(1 - 1) : r[j] # r[1]
      OBVIOUS
    <2>. QED
      BY <2>2, <2>3 DEF Hits
  <1>3. many \in Nat /\ many >= 1
    <2>1. IsFiniteSet(Positives)
      BY RewardAssumption, CandidateSize, FS_Subset DEF CandidateSet
    <2>2. many \in Nat /\ many # 0
      BY <2>1, FS_CardinalityType, FS_EmptySet
    <2>. QED
      BY <2>2
  <1>4. Cutoff(1, many) = 1 /\ 1..1 = {1}
    BY <1>3 DEF Cutoff
  <1>. DEFINE d == Discount[1]
  <1>5. Ideal(1) = d /\ Dcg(Hits(r, 1)) = d /\ d \in Nat \ {0}
    BY <1>1, <1>2, <1>4, FirstDcg DEF Ideal
  <1>. HIDE DEF d
  <1>6. Ndcg(r, 1) = (300 * d) \div d
    BY <1>5 DEF Ndcg, Unit
  <1>7. \A m \in Nat \ {0} : (300 * m) \div m = 300
    OBVIOUS
  <1>. QED
    BY <1>5, <1>6, <1>7

\* What is faithful and right is called so.
LEMMA RightIsCorrect ==
  ASSUME NEW a \in Parsed
  PROVE  VerlScore(a).outcome = "correct_faithful" <=>
           IsFaithful(a) /\ a.ranking[1] \in Positives
  <1>. DEFINE top1 == IF VerlValid(a) THEN Ndcg(a.ranking, 1) ELSE 0
              faithful == /\ Penalised(Raised(VerlFormat(a))) >= Unit
                          /\ EvidenceScore(a) >= Unit /\ RationaleScore(a) >= Unit
  <1>1. VerlScore(a).outcome = Outcome(top1 > 0, faithful)
    BY RewardAssumption DEF VerlScore, Result
  <1>2. ASSUME IsFaithful(a), a.ranking[1] \in Positives PROVE top1 > 0
    <2>1. IsRanking(a)
      BY <1>2 DEF IsFaithful
    <2>. QED
      BY <1>2, <2>1, ValidMeansComplete, PositiveIsTop
  <1>3. VerlScore(a).outcome \in {"correct_faithful", "wrong_faithful"} <=> IsFaithful(a)
    BY OutcomeMeans, Zenon
  <1>4. VerlScore(a).outcome = "correct_faithful" => a.ranking[1] \in Positives
    BY OutcomeMeans, Zenon
  <1>. HIDE DEF top1, faithful
  <1>5. VerlScore(a).outcome = "wrong_faithful" => ~ (top1 > 0)
    BY <1>1 DEF Outcome
  <1>. QED
    BY <1>2, <1>3, <1>4, <1>5

LEMMA PenaltyBounded ==
  ASSUME NEW E, IsFiniteSet(E)
  PROVE  Penalised(E) \in 0..Unit
  <1>. DEFINE n == Cardinality(E)
  <1>1. n \in Nat
    BY FS_CardinalityType
  <1>2. Penalised(E) = IF n > 5 THEN 0 ELSE 300 - n * 60
    BY DEF Penalised, Unit
  <1>. HIDE DEF n
  <1>. QED
    BY <1>1, <1>2 DEF Unit

LEMMA EvidenceBounded ==
  ASSUME NEW a \in Parsed
  PROVE  EvidenceScore(a) \in 0..Unit
  <1>. DEFINE n == Len(a.refs)
              known == {i \in DOMAIN a.refs : a.refs[i] \in EvidenceSet}
              g == Cardinality(known)
  <1>1. a.refs \in Seq(Id) /\ n \in Nat /\ (n = 0 <=> a.refs = <<>>) /\ DOMAIN a.refs = 1..n
    BY RewardAssumption
  <1>2. IsFiniteSet(1..n) /\ Cardinality(1..n) = n
    <2>. HIDE DEF n
    <2>. QED
      BY <1>1, FS_Interval
  <1>3. g \in Nat /\ g <= n
    BY <1>1, <1>2, FS_Subset, FS_CardinalityType
  <1>4. EvidenceScore(a) = IF n = 0 THEN 0 ELSE (300 * g) \div n
    BY <1>1 DEF EvidenceScore, Unit
  <1>. HIDE DEF n, g
  <1>. QED
    BY <1>1, <1>3, <1>4, Share DEF Unit

LEMMA RationaleBounded ==
  ASSUME NEW a \in Parsed
  PROVE  RationaleScore(a) \in 0..Unit
  <1>1. Penalised(Raised(Rationale(a))) \in 0..Unit
    BY RationaleErrorsFinite, PenaltyBounded
  <1>. QED
    BY <1>1 DEF RationaleScore, Unit

\* The score of an answer by its outcome, and what it is worth besides.
LEMMA ScoreIs ==
  ASSUME NEW a \in Parsed
  PROVE  LET o == VerlScore(a).outcome IN
         \E w \in 0..480 :
           /\ VerlScore(a).score = Hybrid(Geometric(o), w)
           /\ o \in {"correct_faithful", "wrong_faithful"} => w > 0
  <1>. DEFINE E == Raised(VerlFormat(a))
              valid == VerlValid(a)
              n == IF valid THEN Ndcg(a.ranking, Depth) ELSE 0
              top1 == IF valid THEN Ndcg(a.ranking, 1) ELSE 0
              p == Penalised(E)
              q == EvidenceScore(a)
              t == RationaleScore(a)
              faithful == p >= Unit /\ q >= Unit /\ t >= Unit
              o == Outcome(top1 > 0, faithful)
              w == n + (p + q + t) \div 5
  <1>1. n \in 0..300
    <2>1. CASE valid
      <3>1. a.ranking \in Seq(Id) /\ Len(a.ranking) = Len(Candidates)
        BY <2>1, ValidMeansComplete, Distinct
      <3>2. Depth \in Nat
        BY RewardAssumption DEF Depth
      <3>. QED
        BY <2>1, <3>1, <3>2, NdcgBounded DEF Unit
    <2>. QED
      BY <2>1
  <1>2. p \in 0..300 /\ q \in 0..300 /\ t \in 0..300
    BY VerlErrorsFinite, PenaltyBounded, EvidenceBounded, RationaleBounded DEF Unit
  <1>3. VerlScore(a).outcome = o /\ VerlScore(a).score = Hybrid(Geometric(o), w)
    BY RewardAssumption DEF VerlScore, Result
  <1>4. o \in {"correct_faithful", "wrong_faithful"} => faithful
    <2>. HIDE DEF faithful, top1
    <2>. QED
      BY DEF Outcome
  <1>. HIDE DEF n, p, q, t
  <1>5. w \in 0..480 /\ (faithful => w > 0)
    BY <1>1, <1>2 DEF Unit
  <1>. HIDE DEF o, w, faithful
  <1>. QED
    BY <1>3, <1>4, <1>5

\* The sign of a score, and what its size tells.
LEMMA PriceOrder ==
  ASSUME NEW a \in Parsed
  PROVE  LET s == VerlScore(a).score
             o == VerlScore(a).outcome
             B == BaselineUnfaithful * Unit
         IN  /\ o \in {"correct_faithful", "wrong_faithful"} <=> s > 0
             /\ o = "correct_faithful" <=> s >= B
             /\ s > ParseError.score
  <1>. DEFINE s == VerlScore(a).score
              o == VerlScore(a).outcome
  <1>1. PICK w \in 0..480 : /\ s = Hybrid(Geometric(o), w)
                            /\ o \in {"correct_faithful", "wrong_faithful"} => w > 0
    BY ScoreIs
  <1>2. /\ HybridWeight \in Nat /\ BaselineCorrect \in Nat /\ BaselineUnfaithful \in Nat
        /\ HybridWeight > 0
        /\ HybridWeight * 480 <= BaselineCorrect * 300
        /\ HybridWeight * 480 < BaselineUnfaithful * 300
    BY RewardAssumption, DefaultWeights DEF OutcomeFirst, Unit
  <1>3. s = Geometric(o) * 300 + HybridWeight * w
    BY <1>1 DEF Hybrid, Unit
  <1>4. Geometric(o) = IF o = "correct_faithful" THEN BaselineUnfaithful
                       ELSE IF o = "wrong_faithful" THEN 0 ELSE - BaselineCorrect
    BY DEF Geometric
  <1>5. ParseError.score = (- BaselineCorrect) * 300 + HybridWeight * (- 150)
    BY DEF ParseError, Hybrid, Unit
  <1>. DEFINE v == HybridWeight * w
  <1>6. v \in Nat /\ v <= HybridWeight * 480 /\ (w > 0 => v > 0)
    BY <1>2
  <1>. HIDE DEF s, o, v
  <1>7. s = Geometric(o) * 300 + v
    BY <1>3 DEF v
  <1>8. CASE o = "correct_faithful"
    BY <1>1, <1>2, <1>4, <1>5, <1>6, <1>7, <1>8 DEF s, o, Unit
  <1>9. CASE o = "wrong_faithful"
    BY <1>1, <1>2, <1>4, <1>5, <1>6, <1>7, <1>9 DEF s, o, Unit
  <1>10. CASE o \notin {"correct_faithful", "wrong_faithful"}
    BY <1>1, <1>2, <1>4, <1>5, <1>6, <1>7, <1>10 DEF s, o, Unit
  <1>. QED
    BY <1>8, <1>9, <1>10

\* A place that a swap leaves keeps what stands there.
LEMMA SwapMovesTwo ==
  ASSUME NEW r \in Seq(Id), NEW i \in 1..(Len(r) - 1)
  PROVE  LET t == Swapped(r, i) IN
         /\ t \in Seq(Id) /\ Len(t) = Len(r)
         /\ t[i] = r[i + 1] /\ t[i + 1] = r[i]
         /\ \A j \in 1..Len(r) : j # i /\ j # i + 1 => t[j] = r[j]
  BY DEF Swapped

LEMMA HitsOfDistinct ==
  ASSUME NEW r \in Seq(Id), \A i, j \in 1..Len(r) : r[i] = r[j] => i = j, NEW k \in Nat
  PROVE  Hits(r, k) = {i \in 1..Cutoff(k, Len(r)) : r[i] \in Positives}
  <1>. SUFFICES ASSUME NEW i \in 1..Cutoff(k, Len(r)), NEW j \in 1..(i - 1) PROVE r[j] # r[i]
    BY DEF Hits
  <1>1. Cutoff(k, Len(r)) <= Len(r) /\ Cutoff(k, Len(r)) \in Nat
    BY DEF Cutoff
  <1>2. i \in 1..Len(r) /\ j \in 1..Len(r) /\ i # j
    BY <1>1
  <1>. QED
    BY <1>2

\* A positive that moves up by a place within the cutoff is worth more.
LEMMA SwapPays ==
  ASSUME NEW a \in Parsed, IsRanking(a), NEW i \in 1..(Len(a.ranking) - 1), i <= Depth,
         a.ranking[i] \notin Positives, a.ranking[i + 1] \in Positives
  PROVE  Dcg(Hits(Swapped(a.ranking, i), Depth)) > Dcg(Hits(a.ranking, Depth))
  <1>. DEFINE r == a.ranking
              t == Swapped(r, i)
              N == Len(Candidates)
              m == Cutoff(Depth, N)
              H == {j \in 1..m : r[j] \in Positives}
              G == {j \in 1..m : t[j] \in Positives}
              A == H \ {i + 1}
  <1>1. r \in Seq(Id) /\ Len(r) = N /\ \A j, l \in 1..N : r[j] = r[l] => j = l
    BY Distinct
  <1>2. N \in Nat /\ i \in 1..(N - 1) /\ Depth \in Nat
    BY <1>1, DiscountFalls, RewardAssumption DEF Depth
  <1>3. m \in 0..N /\ i \in 1..m
    BY <1>2 DEF Cutoff
  <1>4. /\ t \in Seq(Id) /\ Len(t) = N
        /\ t[i] = r[i + 1] /\ t[i + 1] = r[i]
        /\ \A j \in 1..N : j # i /\ j # i + 1 => t[j] = r[j]
    BY <1>1, SwapMovesTwo
  <1>5. \A j, l \in 1..N : t[j] = t[l] => j = l
    <2>. HIDE DEF t, r, N
    <2>1. i \in 1..N /\ i + 1 \in 1..N /\ i # i + 1
      BY <1>2
    <2>. QED
      BY <1>1, <1>4, <2>1
  <1>. HIDE DEF t
  <1>6. Hits(r, Depth) = H
    BY <1>1, <1>2, HitsOfDistinct
  <1>7. Hits(t, Depth) = G
    BY <1>4, <1>5, <1>2, HitsOfDistinct
  <1>8. i \notin H /\ i \in G /\ i + 1 \notin G
    BY <1>2, <1>3, <1>4
  <1>9. \A j \in 1..m : j # i /\ j # i + 1 => (j \in G <=> j \in H)
    <2>1. \A j \in 1..m : j \in 1..N
      BY <1>2, <1>3
    <2>. QED
      BY <2>1, <1>4
  <1>10. G \ {i} = A
    <2>. HIDE DEF r
    <2>. QED
      BY <1>8, <1>9
  <1>11. G \in SUBSET (1..N) /\ H \in SUBSET (1..N) /\ A \in SUBSET (1..N)
    BY <1>2, <1>3
  <1>. HIDE DEF G, H
  <1>12. Dcg(G) = Discount[i] + Dcg(A) /\ Dcg(A) \in Nat
    <2>1. Dcg(G) = Discount[i] + Dcg(G \ {i})
      BY <1>8, <1>11, DcgTakes
    <2>. QED
      BY <2>1, <1>10, <1>11, DcgTakes
  <1>13. Dcg(H) = IF i + 1 \in H THEN Discount[i + 1] + Dcg(A) ELSE Dcg(A)
    <2>1. CASE i + 1 \in H
      BY <2>1, <1>11, DcgTakes
    <2>2. CASE i + 1 \notin H
      <3>1. A = H
        BY <2>2
      <3>. QED
        BY <2>2, <3>1
    <2>. QED
      BY <2>1, <2>2
  <1>14. Discount[i] \in Nat \ {0} /\ Discount[i + 1] \in Nat /\ Discount[i + 1] < Discount[i]
    <2>1. i \in 1..N /\ i + 1 \in 1..N /\ i < i + 1
      BY <1>2
    <2>. HIDE DEF r
    <2>. QED
      BY <2>1, DiscountFalls
  <1>. HIDE DEF A
  <1>15. Dcg(G) > Dcg(H)
    BY <1>12, <1>13, <1>14
  <1>16. Swapped(a.ranking, i) = t
    BY DEF t
  <1>. QED
    BY <1>6, <1>7, <1>15, <1>16, Zenon

\* With weights that put the outcome first: faithful answers are paid more than nothing and others
\* not, right ones at least their baseline and others less, those that parse more than those that
\* do not, and moving a positive up by a place pays.
THEOREM PaidRightly == MCSpec => []PaidInOrder
  <1>. DEFINE IInv == /\ answer \in Parsed \cup {Unparsed}
                      /\ verl \in {NotScored, VerlScore(answer)}
  <1>1. MCInit => IInv
    BY DEF MCInit, RInit, NoAnswer
  <1>2. IInv /\ [MCNext]_<<part, rvars, vars>> => IInv'
    BY DEF MCNext, RNext, ScoreLocal, ScoreVerl, rvars
  <1>3. IInv => RewardOrder
    <2>. SUFFICES ASSUME IInv, Scored PROVE RewardOrder
      BY DEF RewardOrder
    <2>1. verl = VerlScore(answer)
      BY DEF Scored
    <2>2. CASE answer = Unparsed
      <3>1. verl.score = (- BaselineCorrect) * 300 + HybridWeight * (- 150)
        BY <2>1, <2>2 DEF VerlScore, ParseError, Hybrid, Unit
      <3>2. /\ HybridWeight \in Nat /\ BaselineCorrect \in Nat /\ BaselineUnfaithful \in Nat
            /\ HybridWeight > 0
        BY RewardAssumption, DefaultWeights DEF OutcomeFirst, Unit
      <3>3. ~ (verl.score > 0) /\ ~ (verl.score >= BaselineUnfaithful * Unit)
        BY <3>1, <3>2 DEF Unit
      <3>. QED
        BY <2>2, <3>3 DEF RewardOrder
    <2>3. CASE answer # Unparsed
      <3>1. answer \in Parsed
        BY <2>3
      <3>2. /\ verl.outcome \in {"correct_faithful", "wrong_faithful"} <=> verl.score > 0
            /\ verl.outcome = "correct_faithful" <=> verl.score >= BaselineUnfaithful * Unit
            /\ verl.score > ParseError.score
        BY <2>1, <3>1, PriceOrder
      <3>3. verl.outcome \in {"correct_faithful", "wrong_faithful"} <=> IsFaithful(answer)
        BY <2>1, <3>1, OutcomeMeans
      <3>4. verl.outcome = "correct_faithful" <=>
              IsFaithful(answer) /\ answer.ranking[1] \in Positives
        BY <2>1, <3>1, RightIsCorrect
      <3>. QED
        BY <2>3, <3>2, <3>3, <3>4, Zenon DEF RewardOrder
    <2>. QED
      BY <2>2, <2>3
  <1>4. IInv => RankSensitive
    BY SwapPays DEF RankSensitive
  <1>. QED
    BY <1>1, <1>2, <1>3, <1>4, PTL DEF MCSpec, PaidInOrder

(***************************************************************************)
(* The candidates of an instance.                                          *)
(***************************************************************************)

LEMMA CatalogSize == IsFiniteSet(Items) /\ Cardinality(Items) = Size
  <1>1. Size \in Nat /\ Size >= 1
    BY CandidatesAssumption
  <1>. QED
    BY <1>1, FS_Interval DEF Items

LEMMA TogetherSize ==
  ASSUME NEW S, NEW T, IsFiniteSet(S), IsFiniteSet(T), S \cap T = {}
  PROVE  IsFiniteSet(S \cup T) /\ Cardinality(S \cup T) = Cardinality(S) + Cardinality(T)
  <1>1. Cardinality(S) \in Nat /\ Cardinality(T) \in Nat
    BY FS_CardinalityType
  <1>2. /\ IsFiniteSet(S \cup T)
        /\ Cardinality(S \cup T) = Cardinality(S) + Cardinality(T) - Cardinality({})
    BY FS_Union
  <1>. QED
    BY <1>1, <1>2, FS_EmptySet

LEMMA LeastOfTwo ==
  ASSUME NEW m \in Int, NEW n \in Int
  PROVE  /\ Min({m, n}) = IF m <= n THEN m ELSE n
         /\ Max({m, n}) = IF m <= n THEN n ELSE m
  BY DEF Min, Max

LEMMA LeastOfThree ==
  ASSUME NEW l \in Int, NEW m \in Int, NEW n \in Int
  PROVE  /\ Min({l, m, n}) \in {l, m, n}
         /\ Min({l, m, n}) <= l /\ Min({l, m, n}) <= m /\ Min({l, m, n}) <= n
  <1>1. \E y \in {l, m, n} : \A z \in {l, m, n} : y <= z
    OBVIOUS
  <1>2. /\ Min({l, m, n}) \in {l, m, n}
        /\ \A y \in {l, m, n} : Min({l, m, n}) <= y
    BY <1>1 DEF Min
  <1>. QED
    BY <1>2

\* The first n elements of a sequence without repetition are n.
LEMMA FirstOnes ==
  ASSUME NEW S, NEW s \in Seq(S), IsInjective(s), NEW n \in 0 .. Len(s)
  PROVE  /\ SubSeq(s, 1, n) \in Seq(S) /\ Len(SubSeq(s, 1, n)) = n
         /\ \A i \in 1 .. n : SubSeq(s, 1, n)[i] = s[i]
         /\ IsInjective(SubSeq(s, 1, n))
         /\ ToSet(SubSeq(s, 1, n)) = {s[i] : i \in 1 .. n}
         /\ IsFiniteSet(ToSet(SubSeq(s, 1, n))) /\ Cardinality(ToSet(SubSeq(s, 1, n))) = n
  <1>. DEFINE t == SubSeq(s, 1, n)
  <1>1. t \in Seq(S) /\ Len(t) = n /\ \A i \in 1 .. n : t[i] = s[i]
    OBVIOUS
  <1>2. DOMAIN t = 1 .. n /\ DOMAIN s = 1 .. Len(s)
    BY <1>1
  <1>. HIDE DEF t
  <1>3. IsInjective(t)
    BY <1>1, <1>2 DEF IsInjective
  <1>4. ToSet(t) = {s[i] : i \in 1 .. n}
    BY <1>1, <1>2 DEF ToSet
  <1>5. t \in [1 .. n -> ToSet(t)]
    BY <1>1, <1>2 DEF ToSet
  <1>6. t \in Surjection(1 .. n, ToSet(t)) /\ t \in Injection(1 .. n, ToSet(t))
    BY <1>2, <1>3, <1>5 DEF Surjection, Injection, IsInjective, ToSet
  <1>7. IsFiniteSet(1 .. n) /\ Cardinality(1 .. n) = n
    BY FS_Interval
  <1>8. IsFiniteSet(ToSet(t)) /\ Cardinality(ToSet(t)) = n
    BY <1>6, <1>7, FS_Surjection
  <1>. QED
    BY <1>1, <1>3, <1>4, <1>8 DEF t

\* A sequence made of a set has every element of it.
LEMMA MadeOf ==
  ASSUME NEW S, IsFiniteSet(S), NEW s \in SetToSeqs(S)
  PROVE  s \in Seq(S) /\ Len(s) = Cardinality(S) /\ IsInjective(s) /\ ToSet(s) = S
  <1>. DEFINE n == Cardinality(S)
  <1>1. n \in Nat
    BY FS_CardinalityType
  <1>2. s \in [1 .. n -> S] /\ \A i, j \in 1 .. n : i # j => s[i] # s[j]
    BY DEF SetToSeqs
  <1>. HIDE DEF n
  <1>3. s \in Seq(S) /\ Len(s) = n /\ DOMAIN s = 1 .. n
    BY <1>1, <1>2
  <1>4. IsInjective(s) /\ s \in Injection(1 .. n, S)
    BY <1>2, <1>3 DEF IsInjective, Injection
  <1>5. IsFiniteSet(1 .. n) /\ Cardinality(1 .. n) = n
    BY <1>1, FS_Interval
  <1>6. s \in Surjection(1 .. n, S)
    BY <1>4, <1>5, FS_Injection DEF n
  <1>7. ToSet(s) = S
    BY <1>6, <1>3 DEF Surjection, ToSet
  <1>. QED
    BY <1>3, <1>4, <1>7 DEF n

\* How many of S are better than x: its place in the order.
Above(S, x) == {y \in S : Better(y, x)}

LEMMA Places ==
  ASSUME matches \in [Items -> Nat], NEW S \in SUBSET Items
  PROVE  /\ IsFiniteSet(S) /\ Cardinality(S) \in Nat
         /\ \A i \in S : Cardinality(Above(S, i)) \in 0 .. (Cardinality(S) - 1)
         /\ \A i, j \in S : Better(i, j) => Cardinality(Above(S, i)) < Cardinality(Above(S, j))
  <1>1. IsFiniteSet(S) /\ Cardinality(S) \in Nat
    BY CatalogSize, FS_Subset, FS_CardinalityType
  <1>2. \A i \in S : IsFiniteSet(Above(S, i)) /\ Cardinality(Above(S, i)) \in Nat
    BY <1>1, FS_Subset, FS_CardinalityType DEF Above
  <1>3. S \subseteq Nat /\ \A i \in S : matches[i] \in Nat
    BY DEF Items
  <1>4. ASSUME NEW i \in S PROVE Cardinality(Above(S, i)) < Cardinality(S)
    <2>1. Above(S, i) \subseteq S /\ i \in S /\ i \notin Above(S, i)
      BY <1>3 DEF Above, Better
    <2>. QED
      BY <2>1, <1>1, <1>2, FS_Subset
  <1>5. ASSUME NEW i \in S, NEW j \in S, Better(i, j)
        PROVE  Cardinality(Above(S, i)) < Cardinality(Above(S, j))
    <2>1. Above(S, i) \subseteq Above(S, j)
      <3>1. ASSUME NEW y \in S, Better(y, i) PROVE Better(y, j)
        <4>1. /\ y \in Nat /\ i \in Nat /\ j \in Nat
              /\ matches[y] \in Nat /\ matches[i] \in Nat /\ matches[j] \in Nat
          BY <1>3
        <4>. QED
          BY <4>1, <1>5, <3>1 DEF Better
      <3>. QED
        BY <3>1 DEF Above
    <2>2. i \in Above(S, j) /\ i \notin Above(S, i)
      BY <1>3, <1>5 DEF Above, Better
    <2>. QED
      BY <2>1, <2>2, <1>2, FS_Subset
  <1>. QED
    BY <1>1, <1>2, <1>4, <1>5

\* The items of any set can be put in order.
LEMMA CanBeSorted ==
  ASSUME matches \in [Items -> Nat], NEW S \in SUBSET Items
  PROVE  \E s \in SetToSeqs(S) : \A m, n \in DOMAIN s : m < n => Better(s[m], s[n])
  <1>. DEFINE size == Cardinality(S)
              place == [i \in S |-> Cardinality(Above(S, i)) + 1]
              s == [n \in 1 .. size |-> CHOOSE i \in S : place[i] = n]
  <1>1. /\ IsFiniteSet(S) /\ size \in Nat
        /\ \A i \in S : place[i] \in 1 .. size
        /\ \A i, j \in S : Better(i, j) => place[i] < place[j]
    <2>1. /\ IsFiniteSet(S) /\ size \in Nat
          /\ \A i \in S : Cardinality(Above(S, i)) \in 0 .. (size - 1)
          /\ \A i, j \in S :
               Better(i, j) => Cardinality(Above(S, i)) < Cardinality(Above(S, j))
      BY Places
    <2>2. \A i \in S : place[i] = Cardinality(Above(S, i)) + 1
      OBVIOUS
    <2>. HIDE DEF place
    <2>3. \A i, j \in S : Better(i, j) => place[i] < place[j]
      <3>1. ASSUME NEW i \in S, NEW j \in S, Better(i, j) PROVE place[i] < place[j]
        BY <2>1, <2>2, <3>1
      <3>. QED
        BY <3>1
    <2>. QED
      BY <2>1, <2>2, <2>3
  <1>. DEFINE total == \A i, j \in S : i = j \/ Better(i, j) \/ Better(j, i)
  <1>2. total
    BY DEF Items, Better
  <1>3. place \in [S -> 1 .. size]
    BY <1>1
  <1>. HIDE DEF place, size
  <1>4. place \in Injection(S, 1 .. size)
    BY <1>1, <1>2, <1>3 DEF Injection, IsInjective
  <1>5. IsFiniteSet(1 .. size) /\ Cardinality(1 .. size) = size
    BY <1>1, FS_Interval
  <1>6. place \in Surjection(S, 1 .. size)
    BY <1>4, <1>5, FS_Injection DEF size
  <1>7. \A n \in 1 .. size : \E i \in S : place[i] = n
    BY <1>6 DEF Surjection
  <1>8. \A n \in 1 .. size : s[n] \in S /\ place[s[n]] = n
    BY <1>7
  <1>9. s \in [1 .. size -> S] /\ DOMAIN s = 1 .. size
    BY <1>8
  <1>. HIDE DEF s
  <1>10. s \in SetToSeqs(S)
    BY <1>8, <1>9 DEF SetToSeqs, size
  <1>11. ASSUME NEW m \in 1 .. size, NEW n \in 1 .. size, m < n PROVE Better(s[m], s[n])
    <2>1. s[m] \in S /\ s[n] \in S /\ place[s[m]] < place[s[n]]
      BY <1>8, <1>11
    <2>2. ~ (place[s[n]] < place[s[m]]) /\ s[m] # s[n]
      BY <2>1, <1>1
    <2>3. ~ Better(s[n], s[m])
      BY <2>1, <2>2, <1>1
    <2>. QED
      BY <2>1, <2>2, <2>3, <1>2
  <1>. QED
    BY <1>9, <1>10, <1>11

\* A list of items: no item twice, those of the pool with most matches, the best of them first.
BestOf(pool, matched, list) ==
  /\ list \in Seq(pool) /\ IsInjective(list)
  /\ \A m, n \in DOMAIN list : m < n => matched[list[m]] >= matched[list[n]]
  /\ \A i \in ToSet(list), j \in pool \ ToSet(list) : matched[j] <= matched[i]

LEMMA NoneIsBest ==
  ASSUME NEW pool, NEW matched
  PROVE  BestOf(pool, matched, <<>>)
  <1>1. <<>> \in Seq(pool) /\ DOMAIN <<>> = {}
    OBVIOUS
  <1>. QED
    BY <1>1 DEF BestOf, IsInjective, ToSet

LEMMA HardChosen ==
  ASSUME matches \in [Items -> Nat]
  PROVE  BestOf(negative_pool, matches, HardNegatives)
  <1>. DEFINE found == {i \in negative_pool : matches[i] > 0}
              Sorted(s) == \A m, n \in DOMAIN s : m < n => Better(s[m], s[n])
              scored == CHOOSE s \in SetToSeqs(found) : Sorted(s)
              k == Min({hard_negatives, Len(scored)})
              h == SubSeq(scored, 1, k)
  <1>1. found \in SUBSET Items /\ IsFiniteSet(found)
    BY CatalogSize, FS_Subset DEF negative_pool
  <1>2. \E s \in SetToSeqs(found) : Sorted(s)
    BY <1>1, CanBeSorted
  <1>3. scored \in SetToSeqs(found) /\ Sorted(scored)
    BY <1>2
  <1>. HIDE DEF scored
  <1>4. /\ scored \in Seq(found) /\ IsInjective(scored) /\ ToSet(scored) = found
    BY <1>1, <1>3, MadeOf
  <1>5. k \in 0 .. Len(scored)
    BY <1>4, LeastOfTwo, CandidatesAssumption
  <1>. HIDE DEF k
  <1>6. /\ h \in Seq(found) /\ Len(h) = k /\ IsInjective(h)
        /\ \A i \in 1 .. k : h[i] = scored[i]
        /\ ToSet(h) = {scored[i] : i \in 1 .. k}
    BY <1>4, <1>5, FirstOnes
  <1>7. DOMAIN h = 1 .. k /\ DOMAIN scored = 1 .. Len(scored) /\ Len(scored) \in Nat
    BY <1>4, <1>6
  <1>. HIDE DEF h
  <1>8. \A i \in found : matches[i] \in Nat /\ matches[i] > 0 /\ i \in negative_pool
    BY <1>1 DEF negative_pool
  <1>9. \A m \in 1 .. Len(scored) : scored[m] \in found
    BY <1>4, <1>7 DEF ToSet
  <1>10. \A m, n \in 1 .. Len(scored) : m < n => matches[scored[m]] >= matches[scored[n]]
    BY <1>3, <1>7, <1>8, <1>9 DEF Better
  <1>. HIDE DEF Sorted
  <1>11. h \in Seq(negative_pool)
    <2>1. found \subseteq negative_pool
      OBVIOUS
    <2>. QED
      BY <1>6, <1>7, <1>9, <2>1, <1>5
  <1>12. \A m, n \in DOMAIN h : m < n => matches[h[m]] >= matches[h[n]]
    BY <1>5, <1>6, <1>7, <1>10
  <1>13. ASSUME NEW i \in ToSet(h), NEW j \in negative_pool \ ToSet(h)
         PROVE  matches[j] <= matches[i]
    <2>1. PICK m \in 1 .. k : i = scored[m]
      BY <1>6
    <2>2. m \in 1 .. Len(scored) /\ i \in found /\ matches[j] \in Nat
      BY <2>1, <1>5, <1>9 DEF negative_pool
    <2>3. CASE j \notin found
      BY <2>2, <2>3, <1>8
    <2>4. CASE j \in found
      <3>1. PICK n \in 1 .. Len(scored) : j = scored[n]
        BY <2>4, <1>4, <1>7 DEF ToSet
      <3>2. ~ (n <= k)
        BY <3>1, <1>6, <1>5
      <3>. QED
        BY <3>1, <3>2, <2>1, <2>2, <1>5, <1>10
    <2>. QED
      BY <2>3, <2>4
  <1>. QED
    BY <1>6, <1>11, <1>12, <1>13 DEF BestOf, HardNegatives, h, k, scored, Sorted

LEMMA LeastOne ==
  ASSUME NEW S \in SUBSET Nat, S # {}
  PROVE  Min(S) \in S
  <1>1. PICK i \in S : \A j \in S : <<j, i>> \notin OpToRel(<, Nat)
    BY NatLessThanWellFounded, WFMin
  <1>2. ASSUME NEW j \in S PROVE i <= j
    <2>1. j < i => <<j, i>> \in OpToRel(<, Nat)
      BY DEF OpToRel
    <2>2. ~ (j < i)
      BY <1>1, <2>1, Zenon
    <2>. QED
      BY <2>2
  <1>. QED
    BY <1>2 DEF Min

LEMMA ItemsFound ==
  ASSUME NEW k \in DOMAIN truths, truths \in Seq(Truths), Len(truths) <= MaxTruths
  PROVE  ItemFor(k) \in Items \cup Unknown
  <1>. DEFINE same == {j \in 1 .. k : truths[j] = truths[k]}
  <1>1. k \in 1 .. MaxTruths /\ MaxTruths \in Nat
    BY CandidatesAssumption
  <1>2. CASE truths[k].id \in Items
    BY <1>2 DEF ItemFor
  <1>3. CASE truths[k].id \notin Items /\ ByTitle(truths[k].title) # {}
    <2>1. (CHOOSE i \in ByTitle(truths[k].title) : TRUE) \in Items
      BY <1>3 DEF ByTitle
    <2>. QED
      BY <1>3, <2>1 DEF ItemFor
  <1>4. CASE truths[k].id \notin Items /\ ByTitle(truths[k].title) = {}
    <2>1. same \subseteq Nat /\ k \in same
      BY <1>1
    <2>2. Min(same) \in same
      <3>. HIDE DEF same
      <3>. QED
        BY <2>1, LeastOne
    <2>3. Min(same) \in 1 .. k
      BY <2>2
    <2>4. Min(same) \in 1 .. MaxTruths
      BY <2>3, <1>1
    <2>5. Size + Min(same) \in Unknown
      BY <2>4, <1>1, CandidatesAssumption DEF Unknown
    <2>. QED
      BY <1>4, <2>5 DEF ItemFor
  <1>. QED
    BY <1>2, <1>3, <1>4

\* Where a list of candidates is in its making.
CandidatesInv ==
  /\ title \in [Items -> Titles] /\ matches \in [Items -> Nat]
  /\ truths \in Seq(Truths) /\ Len(truths) <= MaxTruths
  /\ phase \in {"input", "positives", "hard", "random", "join", "attached"}
  /\ positives \subseteq Items \cup Unknown
  /\ selected \subseteq positives
  /\ IsFiniteSet(selected) /\ Cardinality(selected) <= num_candidates
  /\ phase \in {"input", "positives"} => selected = {}
  /\ BestOf(negative_pool, matches, hard)
  /\ phase \in {"input", "positives", "hard"} => hard = <<>>
  /\ random \subseteq Items \ Excluded
  /\ phase \in {"input", "positives", "hard", "random"} => random = {}
  /\ phase \in {"join", "attached"} =>
       Cardinality(random) = Min({random_needed, Cardinality(Items \ Excluded)})
  /\ candidates = IF phase = "attached" THEN selected \cup ToSet(KeptHard) \cup random ELSE {}

LEMMA CandidatesStart == Init => CandidatesInv
  <1>. SUFFICES ASSUME Init PROVE CandidatesInv
    OBVIOUS
  <1>1. /\ title \in [Items -> Titles] /\ matches \in [Items -> 0 .. MaxMatches]
        /\ phase = "input" /\ positives = {} /\ selected = {} /\ hard = <<>>
        /\ random = {} /\ candidates = {}
    BY DEF Init
  <1>2. matches \in [Items -> Nat]
    <2>1. 0 .. MaxMatches \subseteq Nat
      BY CandidatesAssumption
    <2>. QED
      BY <1>1, <2>1
  <1>3. truths \in Seq(Truths) /\ Len(truths) <= MaxTruths
    <2>1. PICK n \in 0 .. MaxTruths : truths \in [1 .. n -> Truths]
      BY DEF Init
    <2>2. n \in Nat /\ n <= MaxTruths
      BY CandidatesAssumption
    <2>. QED
      BY <2>1, <2>2
  <1>4. IsFiniteSet({}) /\ Cardinality({}) <= num_candidates
    BY FS_EmptySet, CandidatesAssumption
  <1>. QED
    BY <1>1, <1>2, <1>3, <1>4, NoneIsBest DEF CandidatesInv

LEMMA FindKeeps == CandidatesInv /\ FindPositives => CandidatesInv'
  <1>. SUFFICES ASSUME CandidatesInv, FindPositives PROVE CandidatesInv'
    OBVIOUS
  <1>1. PositiveItems \subseteq Items \cup Unknown
    BY ItemsFound DEF PositiveItems, CandidatesInv
  <1>2. /\ positives' = PositiveItems /\ phase' = "positives" /\ phase = "input"
        /\ title' = title /\ matches' = matches /\ truths' = truths
        /\ UNCHANGED <<selected, hard, random, candidates>>
    BY DEF FindPositives, input
  <1>3. BestOf(negative_pool', matches', <<>>)
    BY NoneIsBest
  <1>. QED
    BY <1>1, <1>2, <1>3 DEF CandidatesInv

LEMMA SelectKeeps == CandidatesInv /\ SelectPositives => CandidatesInv'
  <1>. SUFFICES ASSUME CandidatesInv, SelectPositives PROVE CandidatesInv'
    OBVIOUS
  <1>1. /\ phase = "positives" /\ phase' = "hard"
        /\ title' = title /\ matches' = matches /\ truths' = truths
        /\ UNCHANGED <<positives, hard, random, candidates>>
    BY DEF SelectPositives, input
  <1>2. IsFiniteSet(positives) /\ Cardinality(positives) \in Nat
    <2>1. Size + 1 \in Int /\ Size + MaxTruths \in Int
      BY CandidatesAssumption
    <2>2. IsFiniteSet(Unknown)
      BY <2>1, FS_Interval DEF Unknown
    <2>3. IsFiniteSet(Items \cup Unknown)
      BY <2>2, CatalogSize, FS_Union
    <2>. QED
      BY <2>3, FS_Subset, FS_CardinalityType DEF CandidatesInv
  <1>3. /\ selected' \subseteq positives
        /\ Cardinality(selected')
             = Min({positive_candidates, num_candidates, Cardinality(positives)})
    BY DEF SelectPositives, kSubset
  <1>4. IsFiniteSet(selected')
    BY <1>2, <1>3, FS_Subset
  <1>5. Cardinality(selected') <= num_candidates
    <2>1. positive_candidates \in Int /\ num_candidates \in Int /\ Cardinality(positives) \in Int
      BY <1>2, CandidatesAssumption
    <2>2. Min({positive_candidates, num_candidates, Cardinality(positives)}) <= num_candidates
      BY <2>1, LeastOfThree
    <2>. QED
      BY <1>3, <2>2
  <1>6. negative_pool' = negative_pool /\ Excluded' = Excluded
    BY <1>1 DEF negative_pool, Excluded
  <1>. QED
    BY <1>1, <1>3, <1>4, <1>5, <1>6 DEF CandidatesInv

LEMMA HardKeeps == CandidatesInv /\ ChooseHard => CandidatesInv'
  <1>. SUFFICES ASSUME CandidatesInv, ChooseHard PROVE CandidatesInv'
    OBVIOUS
  <1>1. /\ phase = "hard" /\ phase' = "random" /\ hard' = HardNegatives
        /\ title' = title /\ matches' = matches /\ truths' = truths
        /\ UNCHANGED <<positives, selected, random, candidates>>
    BY DEF ChooseHard, input
  <1>2. negative_pool' = negative_pool
    BY <1>1 DEF negative_pool
  <1>3. BestOf(negative_pool', matches', hard')
    BY <1>1, <1>2, HardChosen DEF CandidatesInv
  <1>. QED
    BY <1>1, <1>2, <1>3 DEF CandidatesInv

LEMMA RandomKeeps == CandidatesInv /\ ChooseRandom => CandidatesInv'
  <1>. SUFFICES ASSUME CandidatesInv, ChooseRandom PROVE CandidatesInv'
    OBVIOUS
  <1>1. /\ phase = "random" /\ phase' = "join"
        /\ title' = title /\ matches' = matches /\ truths' = truths
        /\ UNCHANGED <<positives, selected, hard, candidates>>
    BY DEF ChooseRandom, input
  <1>2. /\ random' \subseteq Items \ Excluded
        /\ Cardinality(random') = Min({random_needed, Cardinality(Items \ Excluded)})
    BY DEF ChooseRandom, kSubset
  <1>3. negative_pool' = negative_pool /\ Excluded' = Excluded /\ random_needed' = random_needed
    BY <1>1 DEF negative_pool, Excluded, random_needed
  <1>. QED
    BY <1>1, <1>2, <1>3 DEF CandidatesInv

LEMMA AttachKeeps == CandidatesInv /\ Attach => CandidatesInv'
  <1>. SUFFICES ASSUME CandidatesInv, Attach PROVE CandidatesInv'
    OBVIOUS
  <1>1. /\ phase = "join" /\ phase' = "attached"
        /\ candidates' = selected \cup ToSet(KeptHard) \cup random
        /\ title' = title /\ matches' = matches /\ truths' = truths
        /\ UNCHANGED <<positives, selected, hard, random>>
    BY DEF Attach, input
  <1>2. /\ negative_pool' = negative_pool /\ Excluded' = Excluded
        /\ random_needed' = random_needed /\ KeptHard' = KeptHard
    BY <1>1 DEF negative_pool, Excluded, random_needed, KeptHard
  <1>. QED
    BY <1>1, <1>2 DEF CandidatesInv

LEMMA CandidatesKept == CandidatesInv /\ [Next]_vars => CandidatesInv'
  <1>1. ASSUME CandidatesInv, UNCHANGED vars PROVE CandidatesInv'
    BY <1>1 DEF CandidatesInv, vars, input, negative_pool, Excluded, random_needed, KeptHard
  <1>. QED
    BY <1>1, FindKeeps, SelectKeeps, HardKeeps, RandomKeeps, AttachKeeps DEF Next

\* The lists of an instance that is finished.
LEMMA Finished ==
  ASSUME CandidatesInv, phase = "attached"
  PROVE  LET s == Cardinality(selected)
             kept == IF Len(hard) <= num_candidates - s THEN Len(hard) ELSE num_candidates - s
         IN
         /\ s \in Nat /\ s <= num_candidates /\ kept \in 0 .. Len(hard)
         /\ KeptHard = SubSeq(hard, 1, kept)
         /\ ToSet(hard) = {hard[i] : i \in 1 .. Len(hard)} /\ ToSet(hard) \subseteq negative_pool
         /\ ToSet(KeptHard) = {hard[i] : i \in 1 .. kept}
         /\ IsFiniteSet(ToSet(KeptHard)) /\ Cardinality(ToSet(KeptHard)) = kept
         /\ IsFiniteSet(random) /\ IsFiniteSet(negative_pool)
         /\ Cardinality(negative_pool) \in Nat /\ Len(hard) <= Cardinality(negative_pool)
         /\ Cardinality(random) \in Nat
         /\ Cardinality(random) =
              IF kept < Len(hard) THEN 0
              ELSE IF num_candidates - s <= Cardinality(negative_pool)
                   THEN num_candidates - s - Len(hard)
                   ELSE Cardinality(negative_pool) - Len(hard)
  <1>. DEFINE s == Cardinality(selected)
              h == Len(hard)
              kept == IF h <= num_candidates - s THEN h ELSE num_candidates - s
              pool == Cardinality(negative_pool)
  <1>1. s \in Nat /\ s <= num_candidates /\ num_candidates \in Nat
    BY FS_CardinalityType, CandidatesAssumption DEF CandidatesInv
  <1>2. hard \in Seq(negative_pool) /\ IsInjective(hard) /\ h \in Nat
    BY DEF CandidatesInv, BestOf
  <1>3. kept \in 0 .. h
    BY <1>1, <1>2
  <1>4. Min({h, num_candidates - s}) = kept
    BY <1>1, <1>2, LeastOfTwo
  <1>5. KeptHard = SubSeq(hard, 1, kept)
    BY <1>4 DEF KeptHard
  <1>6. /\ ToSet(KeptHard) = {hard[i] : i \in 1 .. kept}
        /\ IsFiniteSet(ToSet(KeptHard)) /\ Cardinality(ToSet(KeptHard)) = kept
    <2>. HIDE DEF kept
    <2>. QED
      BY <1>2, <1>3, <1>5, FirstOnes
  <1>7. /\ ToSet(hard) = {hard[i] : i \in 1 .. h} /\ ToSet(hard) \subseteq negative_pool
        /\ IsFiniteSet(ToSet(hard)) /\ Cardinality(ToSet(hard)) = h
    <2>1. SubSeq(hard, 1, h) = hard
      BY <1>2
    <2>2. h \in 0 .. Len(hard)
      BY <1>2
    <2>3. /\ ToSet(SubSeq(hard, 1, h)) = {hard[i] : i \in 1 .. h}
          /\ IsFiniteSet(ToSet(SubSeq(hard, 1, h)))
          /\ Cardinality(ToSet(SubSeq(hard, 1, h))) = h
      BY <1>2, <2>2, FirstOnes
    <2>4. ToSet(hard) \subseteq negative_pool
      BY <1>2 DEF ToSet
    <2>. QED
      BY <2>1, <2>3, <2>4
  <1>8. IsFiniteSet(negative_pool) /\ pool \in Nat
    BY CatalogSize, FS_Subset, FS_CardinalityType DEF negative_pool
  <1>9. h <= pool
    BY <1>7, <1>8, FS_Subset
  <1>10. Items \ Excluded = negative_pool \ ToSet(hard)
    BY DEF Excluded, negative_pool
  <1>11. Cardinality(Items \ Excluded) = pool - h /\ IsFiniteSet(Items \ Excluded)
    <2>1. negative_pool \cap ToSet(hard) = ToSet(hard)
      BY <1>7
    <2>2. /\ IsFiniteSet(negative_pool \ ToSet(hard))
          /\ Cardinality(negative_pool \ ToSet(hard))
               = pool - Cardinality(negative_pool \cap ToSet(hard))
      BY <1>8, FS_Difference
    <2>. QED
      BY <2>1, <2>2, <1>7, <1>10
  <1>12. random_needed = IF kept < h THEN 0 ELSE num_candidates - s - h
    <2>. DEFINE d == num_candidates - s - h
    <2>1. d \in Int /\ (kept < h <=> d < 0)
      BY <1>1, <1>2
    <2>2. random_needed = IF 0 <= d THEN d ELSE 0
      <3>1. random_needed = Max({0, d})
        BY DEF random_needed
      <3>. HIDE DEF d
      <3>. QED
        BY <2>1, <3>1, LeastOfTwo
    <2>. HIDE DEF kept
    <2>. QED
      BY <2>1, <2>2
  <1>13. Cardinality(random) = Min({random_needed, pool - h})
    BY <1>11 DEF CandidatesInv
  <1>14. Cardinality(random) = IF kept < h THEN 0
                               ELSE IF num_candidates - s <= pool THEN num_candidates - s - h
                               ELSE pool - h
    <2>1. random_needed \in Int /\ pool - h \in Int
      BY <1>1, <1>2, <1>8, <1>12
    <2>2. Cardinality(random) = IF random_needed <= pool - h THEN random_needed ELSE pool - h
      BY <1>13, <2>1, LeastOfTwo
    <2>. QED
      BY <2>2, <1>1, <1>2, <1>8, <1>9, <1>12
  <1>15. IsFiniteSet(random) /\ Cardinality(random) \in Nat
    BY <1>11, FS_Subset, FS_CardinalityType DEF CandidatesInv
  <1>. QED
    BY <1>1, <1>3, <1>5, <1>6, <1>7, <1>8, <1>9, <1>14, <1>15

LEMMA FinishedWell == CandidatesInv => OnlySelected /\ HardestFirst /\ PolicyAddsUp
  <1>. SUFFICES ASSUME CandidatesInv, attached PROVE OnlySelected /\ HardestFirst /\ PolicyAddsUp
    BY DEF OnlySelected, HardestFirst, PolicyAddsUp
  <1>. DEFINE s == Cardinality(selected)
              h == Len(hard)
              kept == IF h <= num_candidates - s THEN h ELSE num_candidates - s
              pool == Cardinality(negative_pool)
              Kept == ToSet(KeptHard)
  <1>1. /\ s \in Nat /\ s <= num_candidates /\ kept \in 0 .. h
        /\ ToSet(hard) = {hard[i] : i \in 1 .. h} /\ ToSet(hard) \subseteq negative_pool
        /\ Kept = {hard[i] : i \in 1 .. kept}
        /\ IsFiniteSet(Kept) /\ Cardinality(Kept) = kept
        /\ IsFiniteSet(random) /\ IsFiniteSet(negative_pool)
        /\ pool \in Nat /\ h <= pool /\ Cardinality(random) \in Nat
    BY Finished DEF attached
  <1>2. Cardinality(random) = IF kept < h THEN 0
                              ELSE IF num_candidates - s <= pool THEN num_candidates - s - h
                              ELSE pool - h
    BY Finished DEF attached
  <1>3. num_candidates \in Nat /\ h \in Nat
    BY CandidatesAssumption DEF CandidatesInv, BestOf
  <1>4. /\ candidates = selected \cup Kept \cup random
        /\ selected \subseteq positives /\ IsFiniteSet(selected)
        /\ random \cap positives = {} /\ random \cap ToSet(hard) = {}
        /\ BestOf(negative_pool, matches, hard)
    BY DEF CandidatesInv, attached, Excluded
  <1>5. Kept \subseteq ToSet(hard)
    BY <1>1
  <1>6. negative_pool \cap positives = {}
    BY DEF negative_pool
  <1>. HIDE DEF Kept
  <1>7. selected \cap Kept = {} /\ (selected \cup Kept) \cap random = {}
    BY <1>1, <1>4, <1>5, <1>6
  <1>8. Cardinality(candidates) = s + kept + Cardinality(random)
    <2>1. IsFiniteSet(selected \cup Kept) /\ Cardinality(selected \cup Kept) = s + kept
      BY <1>1, <1>4, <1>7, TogetherSize
    <2>2. Cardinality(candidates) = Cardinality(selected \cup Kept) + Cardinality(random)
      BY <1>1, <1>4, <1>7, <2>1, TogetherSize
    <2>. QED
      BY <2>1, <2>2
  <1>9. OnlySelected
    <2>1. negatives \cap positives = {}
      BY <1>1, <1>4, <1>5, <1>6 DEF negatives
    <2>2. Cardinality(candidates) = Min({num_candidates, s + pool})
      <3>1. Min({num_candidates, s + pool})
              = IF num_candidates <= s + pool THEN num_candidates ELSE s + pool
        BY <1>1, <1>3, LeastOfTwo
      <3>. QED
        BY <3>1, <1>1, <1>2, <1>3, <1>8
    <2>. QED
      BY <1>4, <2>1, <2>2 DEF OnlySelected
  <1>10. HardestFirst
    <2>. DEFINE taken == candidates \cap ToSet(hard)
    <2>1. taken = Kept
      BY <1>1, <1>4, <1>5, <1>6
    <2>2. random # {} => ToSet(hard) \subseteq candidates
      <3>. SUFFICES ASSUME random # {} PROVE ToSet(hard) \subseteq candidates
        OBVIOUS
      <3>1. Cardinality(random) # 0
        BY <1>1, FS_EmptySet
      <3>2. kept = h
        BY <3>1, <1>1, <1>2, <1>3
      <3>3. Kept = ToSet(hard)
        BY <3>2, <1>1
      <3>. QED
        BY <3>3, <1>4
    <2>3. ASSUME NEW i \in Kept, NEW j \in negative_pool \ Kept PROVE matches[j] <= matches[i]
      <3>1. PICK m \in 1 .. kept : i = hard[m]
        BY <1>1
      <3>2. CASE j \notin ToSet(hard)
        BY <1>4, <1>5, <2>3, <3>2 DEF BestOf
      <3>3. CASE j \in ToSet(hard)
        <4>1. PICK n \in 1 .. h : j = hard[n]
          BY <1>1, <3>3
        <4>2. ~ (n <= kept)
          BY <4>1, <1>1, <2>3
        <4>3. m \in 1 .. h /\ m < n
          BY <4>2, <1>1, <1>3
        <4>4. m \in DOMAIN hard /\ n \in DOMAIN hard
          BY <4>3, <1>4 DEF BestOf
        <4>. QED
          BY <4>1, <4>3, <4>4, <3>1, <1>4 DEF BestOf
      <3>. QED
        BY <3>2, <3>3
    <2>. QED
      BY <2>1, <2>2, <2>3 DEF HardestFirst
  <1>11. PolicyAddsUp
    <2>1. {i \in candidates : i \in ToSet(hard)} = Kept
      BY <1>1, <1>4, <1>5, <1>6
    <2>2. kept \in Nat /\ Cardinality(Kept) = kept
      BY <1>1, <1>3
    <2>. HIDE DEF kept
    <2>3. Cardinality(candidates) - s - Cardinality(Kept) = Cardinality(random)
      BY <2>2, <1>1, <1>8
    <2>. QED
      BY <2>1, <2>3 DEF PolicyAddsUp
  <1>. QED
    BY <1>9, <1>10, <1>11

LEMMA CandidatesTyped == CandidatesInv => TypeOK
  <1>. SUFFICES ASSUME CandidatesInv PROVE TypeOK
    OBVIOUS
  <1>1. /\ positives \subseteq Items \cup Unknown /\ selected \subseteq positives
        /\ random \subseteq Items
    BY DEF CandidatesInv
  <1>2. hard \in Seq(negative_pool) /\ IsInjective(hard)
    BY DEF CandidatesInv, BestOf
  <1>3. ToSet(hard) \subseteq Items
    BY <1>2 DEF ToSet, negative_pool
  <1>4. candidates \subseteq Items \cup Unknown
    <2>1. CASE phase # "attached"
      BY <2>1 DEF CandidatesInv
    <2>2. CASE phase = "attached"
      <3>1. ToSet(KeptHard) \subseteq ToSet(hard)
        BY <2>2, Finished
      <3>2. candidates = selected \cup ToSet(KeptHard) \cup random
        BY <2>2 DEF CandidatesInv
      <3>. QED
        BY <3>1, <3>2, <1>1, <1>3
    <2>. QED
      BY <2>1, <2>2
  <1>. QED
    BY <1>1, <1>2, <1>3, <1>4 DEF TypeOK

RecBenchInv == IF part = "candidates" THEN CandidatesInv ELSE NoRecord

\* The invariant of the candidates; while the reward takes the steps they stay as they started.
THEOREM CandidatesInvariant == MCSpec => []RecBenchInv
  <1>1. MCInit => RecBenchInv
    BY CandidatesStart DEF MCInit, RecBenchInv
  <1>2. ASSUME RecBenchInv, [MCNext]_<<part, rvars, vars>> PROVE RecBenchInv'
    <2>1. part' = part
      BY <1>2 DEF MCNext
    <2>2. CASE part = "candidates"
      <3>1. [Next]_vars
        BY <1>2, <2>2 DEF MCNext
      <3>. QED
        BY <1>2, <2>1, <2>2, <3>1, CandidatesKept DEF RecBenchInv
    <2>3. CASE part # "candidates"
      <3>1. UNCHANGED vars
        BY <1>2, <2>3 DEF MCNext
      <3>. QED
        BY <1>2, <2>1, <2>3, <3>1 DEF RecBenchInv, NoRecord, vars, input
    <2>. QED
      BY <2>2, <2>3
  <1>. QED
    BY <1>1, <1>2, PTL DEF MCSpec

\* Whatever the catalog and the record: every selected positive is in the list, nothing else the
\* record names is, the hard negatives are the best matches and go before random ones, and the
\* counts of the metadata are those of the list.
THEOREM CandidatesAreRight == MCSpec => []RightlyLabelled
  <1>1. ASSUME RecBenchInv PROVE RightlyLabelled
    <2>1. CASE part = "candidates"
      BY <1>1, <2>1, CandidatesTyped, FinishedWell DEF RecBenchInv, RightlyLabelled
    <2>2. CASE part # "candidates"
      <3>1. /\ phase = "input" /\ positives = {} /\ selected = {} /\ hard = <<>>
            /\ random = {} /\ candidates = {}
        BY <1>1, <2>2 DEF RecBenchInv, NoRecord
      <3>2. TypeOK
        BY <3>1 DEF TypeOK, ToSet, IsInjective
      <3>. QED
        BY <3>1, <3>2 DEF RightlyLabelled, OnlySelected, HardestFirst, PolicyAddsUp, attached
    <2>. QED
      BY <2>1, <2>2
  <1>. QED
    BY <1>1, CandidatesInvariant, PTL
=============================================================================
