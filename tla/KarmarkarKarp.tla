--------------------------- MODULE KarmarkarKarp ---------------------------
(***************************************************************************)
(* The largest differencing method of verl/utils/seqlen_balancing.py:      *)
(* karmarkar_karp, which deals the samples of a batch to k partitions (the *)
(* data parallel ranks, or the micro-batches of one rank) so that their    *)
(* workloads are close.                                                    *)
(*                                                                         *)
(* Every sample (or, with equal_size, every k samples of similar workload) *)
(* starts as a state: k parts in decreasing order.  The heap yields the    *)
(* two states of largest spread, the second is joined to the first in      *)
(* reverse order, its largest part to the smallest, and the result goes    *)
(* back, until one state is left.                                          *)
(*                                                                         *)
(* A part is the set of its items, which the code lists, and the sum the   *)
(* code keeps along with it.  Where the code breaks a tie between parts of *)
(* one sum and one size by their lists, either order is possible here.     *)
(***************************************************************************)
EXTENDS Integers, FiniteSets

CONSTANTS
  MaxItems,     \* bound on the length of seqlen_list
  MaxParts,     \* bound on k_partitions
  Workloads     \* the values seqlen_list may hold

ASSUME ItemsAssumption == MaxItems \in Nat \ {0}
ASSUME PartsAssumption == MaxParts \in Nat \ {0}
ASSUME WorkloadsAssumption == Workloads \subseteq Nat

VARIABLES
  workload,     \* seqlen_list: the value of each item
  k,            \* k_partitions
  equal_size,   \* must the partitions have one size?
  states_pq     \* the heap, as the set of the states it holds

vars == <<workload, k, equal_size, states_pq>>

----------------------------------------------------------------------------
(* Parts: class Set.                                                       *)

Items == DOMAIN workload
Parts == 1 .. k

Empty == [items |-> {}, sum |-> 0]
Single(x) == [items |-> {x}, sum |-> workload[x]]
Join(p, q) == [items |-> p.items \cup q.items, sum |-> p.sum + q.sum]

Smaller(p, q) ==
  \/ p.sum < q.sum
  \/ p.sum = q.sum /\ Cardinality(p.items) < Cardinality(q.items)

(* States: class State.                                                    *)

\* The states that sorting the parts of s, the largest first, may give.
Decreasing(s, p) == \A i, j \in Parts : i < j => ~ Smaller(s[p[i]], s[p[j]])
Arrangements == {p \in [Parts -> Parts] : \A j \in Parts : \E i \in Parts : p[i] = j}
Sortings(s) ==
  {[i \in Parts |-> s[p[i]]] : p \in {q \in Arrangements : Decreasing(s, q)}}

Spread(s) == s[1].sum - s[k].sum

ItemsOf(s) == UNION {s[i].items : i \in Parts}

\* Mutant: the largest of t goes to the largest of s.
MergedInOrder(s, t) == [i \in Parts |-> Join(s[i], t[i])]

\* State.merge before it sorts: the largest of t goes to the smallest of s.
Merged(s, t) == [i \in Parts |-> Join(s[i], t[k + 1 - i])]

\* The heap's order: the largest spread first, then the largest part.
Before(s, t) ==
  \/ Spread(s) > Spread(t)
  \/ Spread(s) = Spread(t) /\ Smaller(t[1], s[1])

Top(heap) == {s \in heap : \A t \in heap : ~ Before(t, s)}

----------------------------------------------------------------------------
(* The algorithm.                                                          *)

Alone(x) == [i \in Parts |-> IF i = 1 THEN Single(x) ELSE Empty]

\* sorted_seqlen_list: by workload, then by position.
Lower(x, y) == workload[x] < workload[y] \/ (workload[x] = workload[y] /\ x < y)
Rank(x) == Cardinality({y \in Items : Lower(y, x)})
Sorted(r) == CHOOSE x \in Items : Rank(x) = r

\* The g-th k items of the sorted list, the largest first.
Block(g) == [i \in Parts |-> Single(Sorted(g * k + k - i))]

Push ==
  IF equal_size
  THEN states_pq = {Block(g) : g \in 0 .. (Cardinality(Items) \div k) - 1}
  ELSE states_pq = {Alone(x) : x \in Items}

Init ==
  /\ \E n \in 1 .. MaxItems :
       /\ workload \in [0 .. n - 1 -> Workloads]
       /\ k \in 1 .. n /\ k <= MaxParts
       /\ equal_size \in BOOLEAN
       /\ equal_size => n % k = 0
  /\ Push

Merge ==
  \E s \in Top(states_pq) : \E t \in Top(states_pq \ {s}) :
    \E m \in {Merged(s, t)} : \E u \in Sortings(m) :
      /\ states_pq' = (states_pq \ {s, t}) \cup {u}
      /\ UNCHANGED <<workload, k, equal_size>>

Next == Merge

Spec == Init /\ [][Next]_vars

Done == Cardinality(states_pq) = 1

----------------------------------------------------------------------------
(* Properties.                                                             *)

Part == [items : SUBSET Items, sum : Nat]

\* The heap holds states of k parts over the items of the list.
TypeOK ==
  /\ \E n \in 1 .. MaxItems : workload \in [0 .. n - 1 -> Workloads] /\ k \in 1 .. n
  /\ equal_size \in BOOLEAN
  /\ states_pq \subseteq [Parts -> Part]

\* No item is lost or dealt twice, at any time: the parts of all the states
\* in the heap are disjoint and hold every item.  The check
\* seen_idx == set(range(n)) of get_seqlen_balanced_partitions sees a lost
\* item but not one that two partitions hold.
EachItemOnce ==
  /\ UNION {ItemsOf(s) : s \in states_pq} = Items
  /\ \A s, t \in states_pq : \A i, j \in Parts :
       (s # t \/ i # j) => s[i].items \cap t[j].items = {}

\* With at least k items none of the k partitions stays empty, though
\* nothing in the loop looks at it: get_seqlen_balanced_partitions asserts
\* it, and a rank or a micro-batch without a sample would stop the step.
NoneEmpty ==
  Done => \A s \in states_pq : \A i \in Parts : s[i].items # {}

\* With equal_size every partition has n / k items, the assertion at the
\* end of karmarkar_karp: what the dispatch of equal chunks relies on.
EqualSizes ==
  Done /\ equal_size =>
    \A s \in states_pq : \A i \in Parts :
       Cardinality(s[i].items) * k = Cardinality(Items)

\* The heaviest and the lightest partition never differ by more than the
\* heaviest single item, in a state on the heap as in the result.
Balanced ==
  \A s \in states_pq : \E x \in Items : Spread(s) <= workload[x]
============================================================================
