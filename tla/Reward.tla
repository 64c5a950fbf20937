------------------------------- MODULE Reward -------------------------------
(***************************************************************************)
(* The RecBench reward: how an answer of the policy is validated and       *)
(* scored.  It exists twice, in faithrec/reward.py (evaluation and the     *)
(* teacher's filter) and in verl/utils/reward_score/recbench_json.py (what *)
(* training optimises), and the two lists of format errors differ.         *)
(*                                                                         *)
(* An answer is what parsing makes of the text, Unparsed when it raises.   *)
(* Scores are integers, in units of 1/Unit; a discount is a weight of its  *)
(* rank, in any unit.                                                      *)
(***************************************************************************)
EXTENDS Integers, Sequences, FiniteSets, FiniteSetsExt

CONSTANTS
  Id,          (* candidate and evidence ids, known or invented *)
  Candidates,  (* candidate_ids, a sequence *)
  Positives,   (* positive_candidate_ids, a set *)
  Evidence,    (* evidence_ids, a set *)
  Sources,     (* source_evidence_ids, a set *)
  Claims,      (* ALLOWED_RATIONALE_CLAIMS *)
  NotList,     (* a support that is not a list of strings *)
  Parsed,      (* answers whose parsing succeeds *)
  Unparsed,    (* an answer whose parsing raises ValueError *)
  K,           (* k, the reward cutoff *)
  Discount,    (* 1 / log2(rank + 1) of every rank *)
  MaxItems,    (* rationale steps, and support entries, allowed: 5 in the code *)
  BaselineCorrect, BaselineUnfaithful,  (* in units *)
  HybridWeight                          (* in units *)

IdSet(s) == {s[i] : i \in DOMAIN s}

\* Parsing raises unless the ranking and the references are lists of strings and the rationale is
\* a list; a support that is no list of strings is NotList.  A claim is a value that may be a member
\* of a set: for a list or an object compute_score raises TypeError (recbench_json.py:106,
\* reward.py:165) and returns no score at all; such answers are left out.
ASSUME RewardAssumption ==
  /\ K \in Nat
  /\ MaxItems \in Nat
  /\ BaselineCorrect \in Nat /\ BaselineUnfaithful \in Nat /\ HybridWeight \in Nat
  /\ Unparsed \notin Parsed
  /\ \A a \in Parsed :
       /\ a.ranking \in Seq(Id) /\ a.selected \in Id /\ a.refs \in Seq(Id)
       /\ a.rationale \in Seq(IdSet(a.rationale))
       /\ \A s \in IdSet(a.rationale) : s.support = NotList \/ s.support \in Seq(Id)
  /\ Candidates \in Seq(Id)
  /\ \A i, j \in DOMAIN Candidates : Candidates[i] = Candidates[j] => i = j
  /\ Positives \subseteq IdSet(Candidates)
  /\ \A i \in DOMAIN Candidates : Discount[i] \in Nat \ {0}
  /\ \A i, j \in DOMAIN Candidates : i < j => Discount[j] < Discount[i]

Unit == 300

CandidateSet == IdSet(Candidates)
EvidenceSet == Evidence \cup CandidateSet
SourceSet == IF Sources # {} THEN Sources ELSE Evidence \ CandidateSet

\* The names of the conditions that hold.
Raised(conditions) == {e \in DOMAIN conditions : conditions[e]}

Repeats(s) == Cardinality(IdSet(s)) # Len(s)

(***************************************************************************)
(* Validation                                                              *)
(***************************************************************************)

\* format_errors in reward.py.
LocalFormat(a) ==
  [selected_candidate_not_in_pool |-> a.selected \notin CandidateSet,
   empty_ranking |-> a.ranking = <<>>,
   selected_not_first |-> a.ranking # <<>> /\ a.ranking[1] # a.selected,
   ranking_contains_unknown_candidate |-> ~ IdSet(a.ranking) \subseteq CandidateSet,
   ranking_length_mismatch |-> Len(a.ranking) # Len(Candidates),
   ranking_contains_duplicates |-> Repeats(a.ranking),
   ranking_candidate_set_mismatch |-> IdSet(a.ranking) # CandidateSet,
   invented_evidence_ref |-> ~ IdSet(a.refs) \subseteq EvidenceSet,
   empty_evidence_refs |-> a.refs = <<>>]

LocalRankingErrors ==
  {"selected_candidate_not_in_pool", "empty_ranking", "selected_not_first",
   "ranking_contains_unknown_candidate", "ranking_length_mismatch",
   "ranking_contains_duplicates", "ranking_candidate_set_mismatch"}

\* The list in recbench_json.py: no error of its own for an empty ranking or an unknown candidate.
VerlFormat(a) ==
  [selected_candidate_not_in_pool |-> a.selected \notin CandidateSet,
   selected_not_first |-> a.ranking = <<>> \/ a.ranking[1] # a.selected,
   ranking_candidate_set_mismatch |-> IdSet(a.ranking) # CandidateSet,
   ranking_length_mismatch |-> Len(a.ranking) # Len(Candidates),
   ranking_contains_duplicates |-> Repeats(a.ranking),
   invented_evidence_ref |-> ~ IdSet(a.refs) \subseteq EvidenceSet,
   empty_evidence_refs |-> a.refs = <<>>]

\* Mutant: that the ranking is incomplete does not make it invalid.
VerlRankingErrorsShort ==
  {"selected_candidate_not_in_pool", "empty_ranking", "selected_not_first",
   "ranking_contains_duplicates"}

VerlRankingErrors ==
  {"selected_candidate_not_in_pool", "empty_ranking", "selected_not_first",
   "ranking_candidate_set_mismatch", "ranking_length_mismatch", "ranking_contains_duplicates"}

\* Steps whose support is a list; the checks of the support skip the others.
Listed(a) == {s \in IdSet(a.rationale) : s.support # NotList}

\* A step speaks for the selected candidate with evidence from the query or the history.
SourceSupport(a) ==
  \E s \in Listed(a) : s.candidate = a.selected /\ IdSet(s.support) \cap SourceSet # {}

\* rationale_errors, the same in both files.
Rationale(a) ==
  LET Steps == IdSet(a.rationale)
  IN
  [empty_rationale |-> Steps = {},
   rationale_too_long |-> Len(a.rationale) > MaxItems,
   rationale_unknown_candidate |-> \E s \in Steps : s.candidate \notin CandidateSet,
   rationale_unknown_claim |-> \E s \in Steps : s.claim \notin Claims,
   rationale_support_not_string_list |-> Listed(a) # Steps,
   empty_rationale_support |-> \E s \in Listed(a) : s.support = <<>>,
   rationale_support_too_long |-> \E s \in Listed(a) : Len(s.support) > MaxItems,
   rationale_invented_support |-> \E s \in Listed(a) : ~ IdSet(s.support) \subseteq EvidenceSet,
   rationale_support_not_in_evidence_refs |->
     \E s \in Listed(a) : ~ IdSet(s.support) \subseteq IdSet(a.refs),
   rationale_missing_candidate_support |->
     \E s \in Listed(a) : s.candidate \in CandidateSet \ IdSet(s.support),
   selected_missing_rationale |->
     Steps # {} /\ ~ \E s \in Steps : s.candidate = a.selected /\ a.selected \in CandidateSet,
   selected_rationale_missing_source_support |->
     Steps # {} /\ SourceSet # {} /\ ~ SourceSupport(a)]

(***************************************************************************)
(* Scores                                                                  *)
(***************************************************************************)

Cutoff(k, n) == IF k < n THEN k ELSE n

\* k = max(1, int(k))
Depth == IF K < 1 THEN 1 ELSE K

\* Positions of the first k at which a positive stands for the first time.
Hits(r, k) ==
  {i \in 1..Cutoff(k, Len(r)) : r[i] \in Positives /\ \A j \in 1..(i - 1) : r[j] # r[i]}

Dcg(positions) == MapThenSumSet(LAMBDA i : Discount[i], positions)

Ideal(k) == Dcg(1..Cutoff(k, Cardinality(Positives)))

Ndcg(r, k) == IF Ideal(k) = 0 THEN 0 ELSE (Unit * Dcg(Hits(r, k))) \div Ideal(k)

\* A fifth off for every error.  Mutant: the first error is free.
PenalisedLate(errors) ==
  LET n == Cardinality(errors)
  IN  IF n > 5 THEN 0 ELSE IF n <= 1 THEN Unit ELSE Unit - n * (Unit \div 5)
Penalised(errors) ==
  LET n == Cardinality(errors) IN IF n > 5 THEN 0 ELSE Unit - n * (Unit \div 5)

EvidenceScore(a) ==
  IF a.refs = <<>> THEN 0
  ELSE (Unit * Cardinality({i \in DOMAIN a.refs : a.refs[i] \in EvidenceSet})) \div Len(a.refs)

RationaleScore(a) == IF a.rationale = <<>> THEN 0 ELSE Penalised(Raised(Rationale(a)))

\* _faithrl_geometric_score.  Mutant: a right choice is paid whatever supports it.
OutcomeIgnoresFaith(correct, faithful) ==
  IF correct THEN "correct_faithful" ELSE IF faithful THEN "wrong_faithful" ELSE "unfaithful"
Outcome(correct, faithful) ==
  IF ~ faithful THEN "unfaithful" ELSE IF correct THEN "correct_faithful" ELSE "wrong_faithful"

Geometric(outcome) ==
  CASE outcome = "correct_faithful" -> BaselineUnfaithful
    [] outcome = "wrong_faithful" -> 0
    [] OTHER -> - BaselineCorrect

\* _select_score in the mode faithrl_hybrid that training uses, in units of 1/(Unit * Unit).
Hybrid(geometric, weighted) == geometric * Unit + HybridWeight * weighted

ParseError ==
  [outcome |-> "parse_error", recommendation |-> 0, format |-> 0, evidence |-> 0, rationale |-> 0,
   score |-> Hybrid(- BaselineCorrect, - (Unit \div 2))]

\* The hybrid weight matters, and what it weighs, a fifth of each of three scores beside that of the
\* recommendation, stays below what the outcome is paid: as in the defaults 0.5, 0.5 and 0.1.
OutcomeFirst ==
  LET most == HybridWeight * (Unit + (3 * Unit) \div 5)
  IN  HybridWeight > 0 /\ most <= BaselineCorrect * Unit /\ most < BaselineUnfaithful * Unit

\* What compute_score makes of an answer with these format errors, and whether its ranking is valid.
Result(a, errors, valid) ==
  LET recommendation == IF valid THEN Ndcg(a.ranking, Depth) ELSE 0
      top1 == IF valid THEN Ndcg(a.ranking, 1) ELSE 0
      format == Penalised(errors)
      evidence == EvidenceScore(a)
      rationale == RationaleScore(a)
      outcome == Outcome(top1 > 0, format >= Unit /\ evidence >= Unit /\ rationale >= Unit)
  IN [outcome |-> outcome, recommendation |-> recommendation, format |-> format,
      evidence |-> evidence, rationale |-> rationale,
      score |-> Hybrid(Geometric(outcome),
                       recommendation + (format + evidence + rationale) \div 5)]

LocalValid(a) == Raised(LocalFormat(a)) \cap LocalRankingErrors = {}
VerlValid(a) == Raised(VerlFormat(a)) \cap VerlRankingErrors = {}

LocalScore(a) ==
  IF a = Unparsed THEN ParseError ELSE Result(a, Raised(LocalFormat(a)), LocalValid(a))
VerlScore(a) ==
  IF a = Unparsed THEN ParseError ELSE Result(a, Raised(VerlFormat(a)), VerlValid(a))

(***************************************************************************)
(* Scoring: an answer is given, and either implementation scores it.       *)
(***************************************************************************)

VARIABLES
  answer,  (* the answer *)
  local,   (* what reward.py returned for it, if it has been called *)
  verl     (* what recbench_json.py returned for it, if it has been called *)

rvars == <<answer, local, verl>>

NotScored == [outcome |-> "none"]

RInit ==
  /\ answer \in Parsed \cup {Unparsed}
  /\ local = NotScored
  /\ verl = NotScored

ScoreLocal ==
  /\ local = NotScored
  /\ local' = LocalScore(answer)
  /\ UNCHANGED <<answer, verl>>

ScoreVerl ==
  /\ verl = NotScored
  /\ verl' = VerlScore(answer)
  /\ UNCHANGED <<answer, local>>

RNext == ScoreLocal \/ ScoreVerl

RSpec == RInit /\ [][RNext]_rvars

(***************************************************************************)
(* Properties                                                              *)
(***************************************************************************)

Scored == local # NotScored /\ verl # NotScored

\* A complete ranking: every candidate once, the selected one first.
IsRanking(a) ==
  /\ Len(a.ranking) = Len(Candidates)
  /\ \A c \in CandidateSet : \E i \in DOMAIN a.ranking : a.ranking[i] = c
  /\ a.ranking # <<>> /\ a.ranking[1] = a.selected

\* Validation accepts exactly the complete rankings, whichever list of errors it goes through:
\* no ranking that repeats, omits or invents a candidate is paid for.
PermutationOnly ==
  answer # Unparsed =>
    /\ LocalValid(answer) <=> IsRanking(answer)
    /\ VerlValid(answer) <=> IsRanking(answer)

\* The two implementations classify every answer alike and pay the same for its ranking, although
\* they count different format errors.
OutcomesAgree ==
  Scored => local.outcome = verl.outcome /\ local.recommendation = verl.recommendation

\* What an answer must be to be called faithful: a complete ranking, references to known evidence
\* only, and a rationale in which each step rests on references the answer lists, its own candidate
\* among them, one step speaking for the selected candidate from a source of the query.
IsFaithful(a) ==
  /\ IsRanking(a)
  /\ a.refs # <<>> /\ IdSet(a.refs) \subseteq EvidenceSet
  /\ Len(a.rationale) \in 1..MaxItems
  /\ \A s \in IdSet(a.rationale) :
       /\ s.candidate \in CandidateSet /\ s.claim \in Claims
       /\ s.support # NotList
       /\ s.candidate \in IdSet(s.support) /\ IdSet(s.support) \subseteq IdSet(a.refs)
       /\ Len(s.support) <= MaxItems
  /\ \E s \in IdSet(a.rationale) :
       s.candidate = a.selected /\ (SourceSet # {} => IdSet(s.support) \cap SourceSet # {})

FaithfulMeans ==
  Scored =>
    /\ verl.outcome \in {"correct_faithful", "wrong_faithful"}
         <=> answer # Unparsed /\ IsFaithful(answer)
    /\ verl.outcome = "correct_faithful" => answer.ranking[1] \in Positives

\* In the mode of the training configuration the sign of the score tells the faithful answers from
\* the others, a right one is worth more than any wrong one, and failing to parse is worst.
RewardOrder ==
  Scored =>
    LET faithful == answer # Unparsed /\ IsFaithful(answer)
        right == faithful /\ answer.ranking[1] \in Positives
    IN  /\ faithful <=> verl.score > 0
        /\ right <=> verl.score >= BaselineUnfaithful * Unit
        /\ answer # Unparsed => verl.score > ParseError.score

\* A positive that moves up by one place within the cutoff is worth more.
Swapped(r, i) == [r EXCEPT ![i] = r[i + 1], ![i + 1] = r[i]]
RankSensitive ==
  answer # Unparsed /\ IsRanking(answer) =>
    \A i \in 1..(Len(answer.ranking) - 1) :
      i <= Depth /\ answer.ranking[i] \notin Positives /\ answer.ranking[i + 1] \in Positives
        => Dcg(Hits(Swapped(answer.ranking, i), Depth)) > Dcg(Hits(answer.ranking, Depth))

\* The test of the two implementations: they return the same scores.
VerlMatchesLocal == Scored => verl = local
=============================================================================
