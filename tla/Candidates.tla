----------------------------- MODULE Candidates -----------------------------
(***************************************************************************)
(* The candidates of a recommendation instance                             *)
(* (src/faithrec/recbench.py, attach_candidates): the items the record     *)
(* names as ground truth are looked up in the catalog, some are selected,  *)
(* and hard and random negatives fill the list.                            *)
(*                                                                         *)
(* An item is a number, its place in the catalog; items named by a record  *)
(* that the catalog has not are the numbers above.  The loaders do not     *)
(* look at titles, so two items of the catalog may share one.  Positives   *)
(* and candidates are shuffled before anything reads them, so these lists  *)
(* without repetition are sets.                                            *)
(***************************************************************************)
EXTENDS Integers, Sequences, FiniteSets, FiniteSetsExt, SequencesExt

CONSTANTS
  Size,          \* items in the catalog
  Titles,
  MaxTruths,     \* most items a record names
  MaxMatches,    \* most conditions of the query that an item's text contains
  num_candidates, positive_candidates, hard_negatives

ASSUME CandidatesAssumption ==
  /\ Size \in Nat \ {0} /\ MaxTruths \in Nat /\ MaxMatches \in Nat
  /\ num_candidates \in 1 .. 26 /\ positive_candidates \in Nat \ {0}
  /\ hard_negatives \in Nat

Items == 1 .. Size
Unknown == Size + 1 .. Size + MaxTruths  \* the items no catalog item stands for

\* A ground truth: its title, and the id the record gives for the first ones
\* of a movie (NoId for the others, and for books).
NoId == 0
Truths == [id : {NoId} \cup Items, title : Titles]

VARIABLES
  phase,      \* "input", "positives", "hard", "random", "attached"
  title,      \* of each item
  matches,    \* of each item, with the conditions of the query
  truths,     \* the ground truth of the record
  positives,  \* all_positives, the items that stand for it
  selected,   \* selected_positives
  hard,       \* hard negatives, best first
  random,     \* random_negatives
  candidates

input == <<title, matches, truths>>
vars == <<phase, input, positives, selected, hard, random, candidates>>

----------------------------------------------------------------------------
\* by_title keeps the first item of each title.
ByTitle(t) == {i \in Items : title[i] = t /\ \A j \in Items : title[j] = t => i <= j}

\* The item for the k-th ground truth: by its id, by its title, or an item
\* made up from what the record says.
ItemFor(k) ==
  LET truth == truths[k]
      same == {j \in 1 .. k : truths[j] = truth} IN
  IF truth.id \in Items THEN truth.id
  ELSE IF ByTitle(truth.title) # {} THEN CHOOSE i \in ByTitle(truth.title) : TRUE
  ELSE Size + Min(same)

\* _positive_items: each once, however many ground truths it stands for.
PositiveItems == {ItemFor(k) : k \in DOMAIN truths}

negative_pool == Items \ positives

Init ==
  /\ phase = "input"
  /\ title \in [Items -> Titles]
  /\ matches \in [Items -> 0 .. MaxMatches]
  /\ truths \in UNION {[1 .. n -> Truths] : n \in 0 .. MaxTruths}
  /\ \A k \in 2 .. Len(truths) : truths[k].id # NoId => truths[k - 1].id # NoId
  /\ positives = {} /\ selected = {} /\ hard = <<>> /\ random = {} /\ candidates = {}

FindPositives ==
  /\ phase = "input"
  /\ positives' = PositiveItems
  /\ phase' = "positives"
  /\ UNCHANGED <<input, selected, hard, random, candidates>>

\* The positives are shuffled, and the first ones selected.
SelectPositives ==
  /\ phase = "positives"
  /\ \E k \in {Min({positive_candidates, num_candidates, Cardinality(positives)})} :
       selected' \in kSubset(k, positives)
  /\ phase' = "hard"
  /\ UNCHANGED <<input, positives, hard, random, candidates>>

\* _hard_negative_items: a stable sort by the number of matches.
Better(i, j) == matches[i] > matches[j] \/ (matches[i] = matches[j] /\ i < j)

HardNegatives ==
  LET found == {i \in negative_pool : matches[i] > 0}
      scored == CHOOSE s \in SetToSeqs(found) :
                  \A m, n \in DOMAIN s : m < n => Better(s[m], s[n])
  IN SubSeq(scored, 1, Min({hard_negatives, Len(scored)}))

ChooseHard ==
  /\ phase = "hard"
  /\ hard' = HardNegatives
  /\ phase' = "random"
  /\ UNCHANGED <<input, positives, selected, random, candidates>>

random_needed == Max({0, num_candidates - Cardinality(selected) - Len(hard)})

ExcludedSelected ==  \* mutant: only the selected positives are excluded
  selected \cup ToSet(hard)

\* _sample_negative_items: draws that are refused while they repeat or are
\* excluded, and when there were too many of them, what remains.
Excluded == positives \cup ToSet(hard)

ChooseRandom ==
  /\ phase = "random"
  /\ LET pool == Items \ Excluded IN
       \E k \in {Min({random_needed, Cardinality(pool)})} : random' \in kSubset(k, pool)
  /\ phase' = "join"
  /\ UNCHANGED <<input, positives, selected, hard, candidates>>

\* selected[:num_candidates] of the positives, the hard ones and the random
\* ones: only hard ones can be too many.
KeptHard == SubSeq(hard, 1, Min({Len(hard), num_candidates - Cardinality(selected)}))

Attach ==
  /\ phase = "join"
  /\ candidates' = selected \cup ToSet(KeptHard) \cup random
  /\ phase' = "attached"
  /\ UNCHANGED <<input, positives, selected, hard, random>>

Next == FindPositives \/ SelectPositives \/ ChooseHard \/ ChooseRandom \/ Attach

Spec == Init /\ [][Next]_vars

attached == phase = "attached"
negatives == candidates \ selected

----------------------------------------------------------------------------
(* Properties.                                                             *)

TypeOK ==
  /\ positives \subseteq Items \cup Unknown /\ selected \subseteq positives
  /\ ToSet(hard) \cup random \subseteq Items /\ IsInjective(hard)
  /\ candidates \subseteq Items \cup Unknown

\* The list holds every selected positive, no item that the record names as
\* ground truth besides, and num_candidates items unless there are not so
\* many to choose from.
OnlySelected ==
  attached =>
    /\ selected \subseteq candidates
    /\ negatives \cap positives = {}
    /\ Cardinality(candidates)
         = Min({num_candidates, Cardinality(selected) + Cardinality(negative_pool)})

\* A negative is random only beside all the hard ones asked for, and no item
\* matches the query better than a hard negative that was taken without being
\* one itself.
HardestFirst ==
  attached =>
    LET taken == candidates \cap ToSet(hard) IN
    /\ random # {} => ToSet(hard) \subseteq candidates
    /\ \A i \in taken, j \in negative_pool \ taken : matches[j] <= matches[i]

\* metadata["candidate_policy"] counts what is in the list: the hard ones by
\* their mark and the rest by subtraction.
PolicyAddsUp ==
  attached =>
    Cardinality(candidates) - Cardinality(selected)
      - Cardinality({i \in candidates : i \in ToSet(hard)}) = Cardinality(random)

\* README.md:9 speaks of one positive item and random negatives: no negative
\* has the title of a ground truth.
TrulyNegative ==
  attached =>
    \A i \in negatives, k \in DOMAIN truths : title[i] # truths[k].title

\* README.md:49 speaks of rows whose positive item cannot be placed into the
\* candidate set: what is placed is an item of the catalog.
PlacedFromCatalog == attached => selected \subseteq Items
=============================================================================
