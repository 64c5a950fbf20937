----------------------------- MODULE MCRecBench -----------------------------
(***************************************************************************)
(* TLC instances of the two parts of RecBench.  Reward: three candidates   *)
(* of which two are positive, a stray one, one evidence id and an          *)
(* invented one, with rationales chosen so that every error occurs alone   *)
(* and with others.  Candidates: four items over two titles and lists of   *)
(* three.  The variable part names the one that takes the steps of a       *)
(* behaviour.                                                              *)
(***************************************************************************)
EXTENDS Reward, Candidates

CONSTANTS c1, c2, c3, stray, source, invented, allowed, banned, title1, title2

ASSUME DefaultWeights == OutcomeFirst

VARIABLE part

MCId == {c1, c2, c3, stray, source, invented}
MCCandidates == <<c1, c2, c3>>
MCPositives == {c1, c2}
MCEvidence == {source}
MCClaims == {allowed}
MCDiscount == <<1000, 631, 500>>

Supports ==
  {NotList, <<>>, <<c1>>, <<source>>, <<c1, source>>, <<source, c3>>, <<c1, source, invented>>,
   <<c1, source, source, source>>}
Good == [candidate |-> c1, claim |-> allowed, support |-> <<c1, source>>]
Step == [candidate : {c1, c3, stray}, claim : {allowed}, support : Supports]
        \cup {[Good EXCEPT !.claim = banned]}
Rationales ==
  {<<>>, <<Good, Good, Good, Good>>} \cup {<<s>> : s \in Step} \cup {<<s, Good>> : s \in Step}

MCParsed ==
  [ranking : BoundedSeq({c1, c2, c3, stray}, 3), selected : {c1, c3, stray},
   refs : BoundedSeq({c1, source, invented}, 2) \cup {<<c1, c3, source>>}, rationale : Rationales]

NoAnswer == answer = Unparsed /\ local = NotScored /\ verl = NotScored
NoRecord ==
  /\ phase = "input" /\ title = <<>> /\ matches = <<>> /\ truths = <<>> /\ positives = {}
  /\ selected = {} /\ hard = <<>> /\ random = {} /\ candidates = {}

MCInit ==
  \/ part = "reward" /\ RInit /\ NoRecord
  \/ part = "candidates" /\ Init /\ NoAnswer

MCNext ==
  /\ UNCHANGED part
  /\ \/ part = "reward" /\ RNext /\ UNCHANGED vars
     \/ part = "candidates" /\ Next /\ UNCHANGED rvars

MCSpec == MCInit /\ [][MCNext]_<<part, rvars, vars>>

-----------------------------------------------------------------------------
(* What is checked of the candidates of an instance. *)

\* The list holds every selected positive, no other item the record names, and is as long as asked
\* for if there are items enough; a negative is random only beside all the hard ones, the best
\* matches, and the counts of the metadata, made by subtraction, are those of the list.
RightlyLabelled ==
  TypeOK /\ OnlySelected /\ HardestFirst /\ PolicyAddsUp

\* A faithful answer is paid more than any other, a right one more than a wrong one, and a positive
\* that moves up by one place more than before.
PaidInOrder == RewardOrder /\ RankSensitive
=============================================================================
