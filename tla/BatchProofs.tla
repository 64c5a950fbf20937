---------------------------- MODULE BatchProofs ----------------------------
(***************************************************************************)
(* Proofs about what happens to a batch on its way to the workers and      *)
(* back. The first part is about the largest differencing method, for      *)
(* every list of workloads, every number of partitions up to its length,   *)
(* and every order of ties: the result is a partition (EachItemOnce) into  *)
(* parts none of which is empty (NoneEmpty), of one size if asked for      *)
(* (EqualSizes), and whose workloads differ by at most the heaviest item   *)
(* (Balanced).                                                             *)
(*                                                                         *)
(* What makes it work is the shape of the states on the heap (Shaped):     *)
(* their parts are in decreasing order, the empty ones last, and a state   *)
(* that has an empty part has no part of two items.  Joining two of them   *)
(* in opposite orders then fills empty parts first, and the differences of *)
(* the two cancel.                                                         *)
(*                                                                         *)
(* The second part is about a call of a worker group of any size with a    *)
(* batch of any size (AnswersReturn).  What is put together again, the     *)
(* answers that are collected and those that the ranks of a context        *)
(* parallel group gather, are slices of one sequence, cut where the        *)
(* workers that have one follow each other (Cut), and the ranks of a       *)
(* worker name it (RanksOf, WorkerOf).                                     *)
(*                                                                         *)
(* The third part is about the micro-batches of one rank, for every list   *)
(* of lengths, limit and size of the groups: the outputs come back in      *)
(* order (OutputsReturn), and no micro-batch is too heavy (LoadsHold).     *)
(* The method runs on the workloads of the groups, so the first part holds *)
(* of its steps; what is added is that sums of workloads are those of the  *)
(* samples (SumOf, which unfolds one element at a time), that a sort by    *)
(* rank gives every element once (Sorts), and that the rows of the         *)
(* micro-batches name every sample once (Flat).                            *)
(***************************************************************************)
EXTENDS MCBatches, SequenceTheorems, FunctionTheorems, FiniteSetTheorems, NaturalsInduction,
        WellFoundedInduction, TLAPS

InOrder(s) == \A i, j \in Parts : i < j => s[i].sum >= s[j].sum
EmptiesLast(s) == \A i, j \in Parts : i < j /\ s[i].items = {} => s[j].items = {}
EmptyIsLight(s) == \A i \in Parts : s[i].items = {} => s[i].sum = 0
Sparse(s) ==
  (\E i \in Parts : s[i].items = {}) =>
     \A i \in Parts : \A x, y \in s[i].items : x = y
OneSize(s) == equal_size => \E c \in Nat : \A i \in Parts : Cardinality(s[i].items) = c
SmallSpread(s) == \E x \in Items : Spread(s) <= workload[x]
Disjoint(s, t) == \A i, j \in Parts : s[i].items \cap t[j].items = {}
InnerDisjoint(s) == \A i, j \in Parts : i # j => s[i].items \cap s[j].items = {}

Shaped(s) ==
  /\ InOrder(s) /\ EmptiesLast(s) /\ EmptyIsLight(s) /\ Sparse(s)
  /\ OneSize(s) /\ SmallSpread(s)

\* A list of any length and any workloads, and any number of partitions up to its length.
Parameters == \E n \in Nat \ {0} : workload \in [0 .. n - 1 -> Nat] /\ k \in 1 .. n

Typed == Parameters /\ equal_size \in BOOLEAN /\ states_pq \subseteq [Parts -> Part]

IInv ==
  /\ Typed
  /\ IsFiniteSet(states_pq)
  /\ EachItemOnce
  /\ \A s \in states_pq : Shaped(s)

----------------------------------------------------------------------------
(* Numbers.                                                                *)

LEMMA Sizes ==
  ASSUME Parameters
  PROVE  \E n \in Nat :
           /\ Items = 0 .. n - 1 /\ IsFiniteSet(Items) /\ Cardinality(Items) = n
           /\ k \in 1 .. n /\ k \in Nat /\ n >= 1
           /\ \A x \in Items : workload[x] \in Nat
  <1>1. PICK n \in Nat \ {0} : workload \in [0 .. n - 1 -> Nat] /\ k \in 1 .. n
    BY DEF Parameters
  <1>2. n \in Nat /\ n >= 1
    BY <1>1
  <1>3. Items = 0 .. n - 1
    BY <1>1 DEF Items
  <1>4. IsFiniteSet(Items) /\ Cardinality(Items) = n
    BY <1>2, <1>3, FS_Interval
  <1>5. \A x \in Items : workload[x] \in Nat
    BY <1>1, <1>3
  <1>. QED
    BY <1>1, <1>2, <1>3, <1>4, <1>5

LEMMA Multiples ==
  ASSUME NEW a \in Nat, NEW b \in Nat, NEW m \in Nat, a <= b
  PROVE  a * m \in Nat /\ b * m \in Nat /\ a * m <= b * m
         /\ (a + 1) * m = a * m + m
  BY Z3

LEMMA Division ==
  ASSUME NEW a \in Nat, NEW m \in Nat, m >= 1
  PROVE  a \div m \in Nat /\ a % m \in 0 .. m - 1 /\ a = (a \div m) * m + (a % m)
  <1>1. a \div m \in Nat
    BY Z3
  <1>2. a % m \in 0 .. m - 1
    BY Z3
  <1>3. a = (a \div m) * m + (a % m)
    BY Z3
  <1>. QED
    BY <1>1, <1>2, <1>3

\* A number has one quotient and one remainder.
LEMMA OneQuotient ==
  ASSUME NEW m \in Nat, m >= 1, NEW a \in Nat, NEW b \in Nat,
         NEW q \in 0 .. m - 1, NEW r \in 0 .. m - 1,
         a * m + q = b * m + r
  PROVE  a = b /\ q = r
  <1>1. ~ a < b
    <2>. SUFFICES ASSUME a < b PROVE FALSE
      OBVIOUS
    <2>1. a + 1 \in Nat /\ a + 1 <= b
      OBVIOUS
    <2>2. (a + 1) * m <= b * m /\ (a + 1) * m = a * m + m /\ a * m \in Nat /\ b * m \in Nat
      BY <2>1, Multiples
    <2>. QED
      BY <2>2
  <1>2. ~ b < a
    <2>. SUFFICES ASSUME b < a PROVE FALSE
      OBVIOUS
    <2>1. b + 1 \in Nat /\ b + 1 <= a
      OBVIOUS
    <2>2. (b + 1) * m <= a * m /\ (b + 1) * m = b * m + m /\ a * m \in Nat /\ b * m \in Nat
      BY <2>1, Multiples
    <2>. QED
      BY <2>2
  <1>3. a = b /\ a * m \in Nat
    BY <1>1, <1>2, Multiples
  <1>. QED
    BY <1>3

----------------------------------------------------------------------------
(* The sorted list.                                                        *)

LEMMA RankGrows ==
  ASSUME Parameters, NEW x \in Items, NEW y \in Items
  PROVE  /\ Rank(x) \in Nat /\ Rank(x) < Cardinality(Items)
         /\ Lower(x, y) => Rank(x) < Rank(y)
  <1>. DEFINE below(z) == {w \in Items : Lower(w, z)}
  <1>1. PICK n \in Nat :
          /\ Items = 0 .. n - 1 /\ IsFiniteSet(Items) /\ Cardinality(Items) = n
          /\ k \in 1 .. n /\ k \in Nat /\ n >= 1
          /\ \A z \in Items : workload[z] \in Nat
    BY Sizes
  <1>2. \A z \in Items : IsFiniteSet(below(z)) /\ Rank(z) = Cardinality(below(z)) /\ Rank(z) \in Nat
    BY <1>1, FS_Subset, FS_CardinalityType DEF Rank
  <1>3. \A z \in Items : z \in Int /\ workload[z] \in Int
    BY <1>1
  <1>4. x \notin below(x)
    BY <1>3 DEF Lower
  <1>5. Rank(x) < Cardinality(Items)
    <2>1. below(x) \in SUBSET Items /\ below(x) # Items
      BY <1>4
    <2>2. Cardinality(below(x)) <= Cardinality(Items) /\ Cardinality(Items) # Cardinality(below(x))
      BY <1>1, <2>1, FS_Subset
    <2>. QED
      BY <1>1, <1>2, <2>2
  <1>6. ASSUME Lower(x, y) PROVE Rank(x) < Rank(y)
    <2>1. below(x) \subseteq below(y)
      BY <1>3, <1>6 DEF Lower
    <2>2. x \in below(y)
      BY <1>6
    <2>3. below(x) \in SUBSET below(y) /\ below(x) # below(y)
      BY <1>4, <2>1, <2>2
    <2>4. Cardinality(below(x)) <= Cardinality(below(y))
          /\ Cardinality(below(y)) # Cardinality(below(x))
      BY <1>2, <2>3, FS_Subset
    <2>. QED
      BY <1>2, <2>4
  <1>. QED
    BY <1>2, <1>5, <1>6

\* Every position of the sorted list holds one item, and every item has one.
LEMMA SortedList ==
  ASSUME Parameters
  PROVE  /\ \A r \in Items : Sorted(r) \in Items /\ Rank(Sorted(r)) = r
         /\ \A x \in Items : Rank(x) \in Items /\ Sorted(Rank(x)) = x
  <1>1. PICK n \in Nat :
          /\ Items = 0 .. n - 1 /\ IsFiniteSet(Items) /\ Cardinality(Items) = n
          /\ k \in 1 .. n /\ k \in Nat /\ n >= 1
          /\ \A z \in Items : workload[z] \in Nat
    BY Sizes
  <1>. DEFINE rank == [x \in Items |-> Rank(x)]
  <1>2. \A x \in Items : Rank(x) \in Items
    BY <1>1, RankGrows
  <1>3. ASSUME NEW x \in Items, NEW y \in Items, Rank(x) = Rank(y) PROVE x = y
    <2>1. ~ Lower(x, y) /\ ~ Lower(y, x)
      BY <1>3, RankGrows
    <2>2. x \in Int /\ y \in Int /\ workload[x] \in Int /\ workload[y] \in Int
      BY <1>1
    <2>. QED
      BY <2>1, <2>2 DEF Lower
  <1>4. rank \in [Items -> Items]
    BY <1>2
  <1>5. rank \in Injection(Items, Items)
    BY <1>3, <1>4 DEF Injection, IsInjective
  <1>6. rank \in Surjection(Items, Items)
    BY <1>1, <1>5, FS_Injection
  <1>7. \A r \in Items : \E x \in Items : Rank(x) = r
    BY <1>6 DEF Surjection
  <1>8. \A r \in Items : Sorted(r) \in Items /\ Rank(Sorted(r)) = r
    BY <1>7 DEF Sorted
  <1>9. \A x \in Items : Sorted(Rank(x)) = x
    BY <1>2, <1>3, <1>8
  <1>. QED
    BY <1>2, <1>8, <1>9

\* It is in increasing order.
LEMMA SortedUp ==
  ASSUME Parameters, NEW q \in Items, NEW r \in Items, q <= r
  PROVE  workload[Sorted(q)] <= workload[Sorted(r)]
  <1>. DEFINE x == Sorted(q)
              y == Sorted(r)
  <1>1. x \in Items /\ y \in Items /\ Rank(x) = q /\ Rank(y) = r
    BY SortedList
  <1>2. ~ Lower(y, x)
    <2>1. Lower(y, x) => r < q
      BY <1>1, RankGrows
    <2>2. q \in Int /\ r \in Int
      BY Sizes
    <2>. QED
      BY <2>1, <2>2
  <1>3. workload[x] \in Nat /\ workload[y] \in Nat
    BY <1>1, Sizes
  <1>. QED
    BY <1>2, <1>3 DEF Lower

----------------------------------------------------------------------------
(* The heap the loop begins with.                                          *)

Blocks == 0 .. (Cardinality(Items) \div k) - 1

\* With equal_size the blocks cut the sorted list without a rest.
LEMMA BlockPlaces ==
  ASSUME Parameters, Cardinality(Items) % k = 0
  PROVE  /\ Blocks \subseteq Nat
         /\ \A g \in Blocks, i \in Parts : g * k \in Nat /\ g * k + k - i \in Items
         /\ \A r \in Items : \E g \in Blocks, i \in Parts : r = g * k + k - i
         /\ \A g, h \in Blocks, i, j \in Parts :
              g * k + k - i = h * k + k - j => g = h /\ i = j
  <1>1. PICK n \in Nat :
          /\ Items = 0 .. n - 1 /\ IsFiniteSet(Items) /\ Cardinality(Items) = n
          /\ k \in 1 .. n /\ k \in Nat /\ n >= 1
          /\ \A z \in Items : workload[z] \in Nat
    BY Sizes
  <1>. DEFINE m == n \div k
  <1>2. m \in Nat /\ n = m * k
    <2>2. n = m * k + (n % k) /\ m \in Nat
      BY <1>1, Division
    <2>3. m * k \in Nat
      BY <1>1, <2>2, Multiples
    <2>. QED
      BY <1>1, <2>2, <2>3
  <1>3. Blocks = 0 .. m - 1
    BY <1>1 DEF Blocks
  <1>. HIDE DEF m
  <1>4. ASSUME NEW g \in Blocks, NEW i \in Parts
        PROVE  g * k \in Nat /\ g * k + k - i \in Items
    <2>1. g \in Nat /\ g + 1 \in Nat /\ g + 1 <= m
      BY <1>2, <1>3
    <2>2. g * k \in Nat /\ (g + 1) * k = g * k + k
      BY <1>1, <2>1, Multiples
    <2>3. (g + 1) * k <= m * k
      BY <1>1, <1>2, <2>1, Multiples
    <2>4. g * k + k <= n
      BY <1>2, <2>2, <2>3
    <2>. QED
      BY <1>1, <2>2, <2>4 DEF Parts
  <1>5. ASSUME NEW r \in Items
        PROVE  \E g \in Blocks, i \in Parts : r = g * k + k - i
    <2>. DEFINE g == r \div k
                q == r % k
    <2>2. g \in Nat /\ q \in 0 .. k - 1 /\ r = g * k + q
      <3>1. r \in Nat
        BY <1>1
      <3>2. k \in Nat /\ k >= 1
        BY <1>1
      <3>. QED
        BY <3>1, <3>2, Division
    <2>. HIDE DEF g, q
    <2>3. g * k \in Nat
      BY <1>1, <2>2, Multiples
    <2>4. g < m
      <3>. SUFFICES ASSUME m <= g PROVE FALSE
        BY <1>2, <2>2
      <3>1. m * k <= g * k
        BY <1>1, <1>2, <2>2, Multiples
      <3>. QED
        BY <1>1, <1>2, <2>2, <2>3, <3>1
    <2>5. g \in Blocks
      BY <1>2, <1>3, <2>2, <2>4
    <2>6. k - q \in Parts
      BY <1>1, <2>2 DEF Parts
    <2>7. r = g * k + k - (k - q)
      BY <1>1, <2>2, <2>3
    <2>. QED
      BY <2>5, <2>6, <2>7
  <1>6. ASSUME NEW g \in Blocks, NEW h \in Blocks, NEW i \in Parts, NEW j \in Parts,
               g * k + k - i = h * k + k - j
        PROVE  g = h /\ i = j
    <2>1. g * k \in Nat /\ h * k \in Nat /\ g \in Nat /\ h \in Nat
      BY <1>3, <1>4, <1>2
    <2>. DEFINE q == k - i
                r == k - j
    <2>2. q \in 0 .. k - 1 /\ r \in 0 .. k - 1 /\ k \in Nat /\ k >= 1
      BY <1>1 DEF Parts
    <2>3. g * k + q = h * k + r
      BY <1>1, <1>6, <2>1 DEF Parts
    <2>4. q = r => i = j
      BY <1>1 DEF Parts
    <2>. HIDE DEF q, r
    <2>. QED
      BY <2>1, <2>2, <2>3, <2>4, OneQuotient
  <1>7. Blocks \subseteq Nat
    BY <1>2, <1>3
  <1>. QED
    BY <1>4, <1>5, <1>6, <1>7

\* One item in the first part.
LEMMA AloneShaped ==
  ASSUME Parameters, NEW x \in Items, ~equal_size
  PROVE  Alone(x) \in [Parts -> Part] /\ Shaped(Alone(x)) /\ InnerDisjoint(Alone(x))
  <1>. DEFINE s == Alone(x)
  <1>1. k \in Nat /\ k >= 1 /\ workload[x] \in Nat
    BY Sizes
  <1>2. \A i \in Parts :
          /\ i \in Int /\ 1 <= i
          /\ i = 1 => s[i].items = {x} /\ s[i].sum = workload[x]
          /\ i # 1 => s[i].items = {} /\ s[i].sum = 0
    BY <1>1 DEF Alone, Single, Empty, Parts
  <1>3. s \in [Parts -> Part]
    BY <1>1 DEF Alone, Single, Empty, Part
  <1>4. InOrder(s)
    BY <1>1, <1>2 DEF InOrder
  <1>5. EmptiesLast(s) /\ EmptyIsLight(s) /\ Sparse(s) /\ InnerDisjoint(s)
    BY <1>2 DEF EmptiesLast, EmptyIsLight, Sparse, InnerDisjoint
  <1>6. SmallSpread(s)
    <2>1. 1 \in Parts /\ k \in Parts
      BY <1>1 DEF Parts
    <2>2. Spread(s) <= workload[x]
      BY <1>1, <1>2, <2>1 DEF Spread
    <2>. QED
      BY <2>2 DEF SmallSpread
  <1>. QED
    BY <1>3, <1>4, <1>5, <1>6 DEF Shaped, OneSize

\* k items, the largest first.
LEMMA BlockShaped ==
  ASSUME Parameters, Cardinality(Items) % k = 0, NEW g \in Blocks
  PROVE  Block(g) \in [Parts -> Part] /\ Shaped(Block(g)) /\ InnerDisjoint(Block(g))
  <1>. DEFINE s == Block(g)
              place(i) == g * k + k - i
  <1>1. k \in Nat /\ k >= 1 /\ (\A z \in Items : workload[z] \in Nat /\ z \in Int)
    BY Sizes
  <1>2. \A i \in Parts : i \in Int /\ place(i) \in Items
    BY <1>1, BlockPlaces DEF Parts
  <1>3. \A i \in Parts :
          s[i].items = {Sorted(place(i))} /\ s[i].sum = workload[Sorted(place(i))]
    BY DEF Block, Single
  <1>4. \A i \in Parts : Sorted(place(i)) \in Items
    BY <1>2, SortedList
  <1>5. s \in [Parts -> Part]
    BY <1>1, <1>4 DEF Block, Single, Part
  <1>6. \A i, j \in Parts : i < j => place(j) <= place(i)
    <2>1. g * k \in Nat
      BY BlockPlaces, <1>1 DEF Parts
    <2>. QED
      BY <1>1, <1>2, <2>1
  <1>7. InOrder(s)
    BY <1>2, <1>3, <1>6, SortedUp DEF InOrder
  <1>8. InnerDisjoint(s)
    <2>1. \A i, j \in Parts : place(i) = place(j) => i = j
      BY BlockPlaces
    <2>2. \A i, j \in Parts : Sorted(place(i)) = Sorted(place(j)) => place(i) = place(j)
      BY <1>2, SortedList
    <2>. QED
      BY <1>3, <2>1, <2>2 DEF InnerDisjoint
  <1>9. EmptiesLast(s) /\ EmptyIsLight(s) /\ Sparse(s)
    BY <1>3 DEF EmptiesLast, EmptyIsLight, Sparse
  <1>10. OneSize(s)
    <2>1. \A i \in Parts : Cardinality(s[i].items) = 1
      BY <1>3, FS_Singleton
    <2>. QED
      BY <2>1 DEF OneSize
  <1>11. SmallSpread(s)
    <2>1. 1 \in Parts /\ k \in Parts
      BY <1>1 DEF Parts
    <2>2. s[1].sum \in Nat /\ s[k].sum \in Nat /\ s[1].sum = workload[Sorted(place(1))]
      BY <1>1, <1>3, <1>4, <2>1
    <2>. QED
      BY <1>4, <2>1, <2>2 DEF SmallSpread, Spread
  <1>. QED
    BY <1>5, <1>7, <1>8, <1>9, <1>10, <1>11 DEF Shaped

Pushes ==
  /\ Parameters /\ equal_size \in BOOLEAN
  /\ equal_size => Cardinality(Items) % k = 0
  /\ Push

LEMMA Pushed == Pushes => IInv
  <1>. SUFFICES ASSUME Pushes PROVE IInv
    OBVIOUS
  <1>1. Parameters /\ equal_size \in BOOLEAN
    BY DEF Pushes
  <1>2. Push /\ (equal_size => Cardinality(Items) % k = 0)
    BY DEF Pushes
  <1>3. CASE equal_size
    <2>1. states_pq = {Block(g) : g \in Blocks}
      BY <1>2, <1>3 DEF Push, Blocks
    <2>. DEFINE place(g, i) == g * k + k - i
    <2>2. \A g \in Blocks, i \in Parts :
            Block(g)[i].items = {Sorted(place(g, i))} /\ place(g, i) \in Items
      BY <1>1, <1>2, <1>3, BlockPlaces DEF Block, Single
    <2>3. \A s \in states_pq : s \in [Parts -> Part] /\ Shaped(s)
      BY <1>1, <1>2, <1>3, <2>1, BlockShaped
    <2>4. UNION {ItemsOf(s) : s \in states_pq} = Items
      <3>1. \A s \in states_pq : ItemsOf(s) \subseteq Items
        BY <2>3 DEF ItemsOf, Part
      <3>2. ASSUME NEW x \in Items PROVE \E s \in states_pq : x \in ItemsOf(s)
        <4>1. Rank(x) \in Items /\ Sorted(Rank(x)) = x
          BY <1>1, SortedList
        <4>2. PICK g \in Blocks, i \in Parts : Rank(x) = place(g, i)
          BY <1>1, <1>2, <1>3, <4>1, BlockPlaces
        <4>3. x \in Block(g)[i].items
          BY <2>2, <4>1, <4>2
        <4>. QED
          BY <2>1, <4>3 DEF ItemsOf
      <3>. QED
        BY <3>1, <3>2
    <2>5. ASSUME NEW s \in states_pq, NEW t \in states_pq, NEW i \in Parts, NEW j \in Parts,
                 s # t \/ i # j
          PROVE  s[i].items \cap t[j].items = {}
      <3>1. PICK g \in Blocks, h \in Blocks : s = Block(g) /\ t = Block(h)
        BY <2>1
      <3>2. place(g, i) # place(h, j)
        BY <1>1, <1>2, <1>3, <2>5, <3>1, BlockPlaces
      <3>3. Sorted(place(g, i)) # Sorted(place(h, j))
        BY <1>1, <2>2, <3>2, SortedList
      <3>. QED
        BY <2>2, <3>1, <3>3
    <2>6. IsFiniteSet(states_pq)
      <3>1. IsFiniteSet(Blocks)
        <4>1. k \in Nat /\ k >= 1 /\ Cardinality(Items) \in Nat
          BY <1>1, Sizes
        <4>2. Cardinality(Items) \div k \in Nat
          BY <4>1, Division
        <4>. QED
          BY <4>2, FS_Interval DEF Blocks
      <3>2. [g \in Blocks |-> Block(g)] \in Surjection(Blocks, states_pq)
        BY <2>1 DEF Surjection
      <3>. QED
        BY <3>1, <3>2, FS_Surjection
    <2>. QED
      BY <1>1, <2>3, <2>4, <2>5, <2>6 DEF IInv, Typed, EachItemOnce
  <1>4. CASE ~equal_size
    <2>1. states_pq = {Alone(x) : x \in Items}
      BY <1>2, <1>4 DEF Push
    <2>2. \A s \in states_pq : s \in [Parts -> Part] /\ Shaped(s) /\ InnerDisjoint(s)
      BY <1>1, <1>4, <2>1, AloneShaped
    <2>3. \A x \in Items : \A i \in Parts : Alone(x)[i].items = IF i = 1 THEN {x} ELSE {}
      BY DEF Alone, Single, Empty
    <2>4. UNION {ItemsOf(s) : s \in states_pq} = Items
      <3>1. \A s \in states_pq : ItemsOf(s) \subseteq Items
        BY <2>2 DEF ItemsOf, Part
      <3>2. 1 \in Parts
        BY <1>1, Sizes DEF Parts
      <3>3. ASSUME NEW x \in Items PROVE x \in ItemsOf(Alone(x))
        <4>1. x \in Alone(x)[1].items
          BY <2>3, <3>2
        <4>. QED
          BY <3>2, <4>1 DEF ItemsOf
      <3>. QED
        BY <2>1, <3>1, <3>3
    <2>5. ASSUME NEW s \in states_pq, NEW t \in states_pq, NEW i \in Parts, NEW j \in Parts,
                 s # t \/ i # j
          PROVE  s[i].items \cap t[j].items = {}
      <3>1. PICK x \in Items, y \in Items : s = Alone(x) /\ t = Alone(y)
        BY <2>1
      <3>2. CASE s = t
        BY <2>2, <2>5, <3>2 DEF InnerDisjoint
      <3>3. CASE s # t
        <4>1. s[i].items \subseteq {x} /\ t[j].items \subseteq {y}
          BY <2>3, <3>1
        <4>2. x # y
          BY <3>1, <3>3
        <4>. QED
          BY <4>1, <4>2
      <3>. QED
        BY <3>2, <3>3
    <2>6. IsFiniteSet(states_pq)
      <3>1. [x \in Items |-> Alone(x)] \in Surjection(Items, states_pq)
        BY <2>1 DEF Surjection
      <3>. QED
        BY <1>1, <3>1, Sizes, FS_Surjection
    <2>. QED
      BY <1>1, <2>2, <2>4, <2>5, <2>6 DEF IInv, Typed, EachItemOnce
  <1>. QED
    BY <1>1, <1>3, <1>4

LEMMA Initially == Init => IInv
  <1>. SUFFICES ASSUME Init PROVE Pushes
    BY Pushed
  <1>1. PICK n \in 1 .. MaxItems :
          /\ workload \in [0 .. n - 1 -> Workloads] /\ k \in 1 .. n /\ equal_size \in BOOLEAN
          /\ equal_size => n % k = 0
    BY DEF Init
  <1>2. n \in Nat \ {0} /\ Items = 0 .. n - 1
    BY <1>1, ItemsAssumption DEF Items
  <1>3. workload \in [0 .. n - 1 -> Nat]
    BY <1>1, WorkloadsAssumption
  <1>4. Cardinality(Items) = n
    BY <1>2, FS_Interval
  <1>. QED
    BY <1>1, <1>2, <1>3, <1>4 DEF Init, Pushes, Parameters

----------------------------------------------------------------------------
(* Joining two states and sorting the result.                              *)

\* An arrangement of the parts repeats none.
LEMMA ArrangementInjective ==
  ASSUME Parameters, NEW p \in Arrangements
  PROVE  p \in [Parts -> Parts] /\ \A i, j \in Parts : p[i] = p[j] => i = j
  <1>1. p \in Surjection(Parts, Parts)
    BY DEF Arrangements, Surjection
  <1>2. IsFiniteSet(Parts)
    BY Sizes, FS_Interval DEF Parts
  <1>3. p \in Injection(Parts, Parts)
    BY <1>1, <1>2, FS_SurjSameCardinalityImpliesInj
  <1>. QED
    BY <1>1, <1>3 DEF Injection, IsInjective, Surjection

\* Part i of s is joined to part k + 1 - i of t.
LEMMA Mirrored ==
  ASSUME Parameters
  PROVE  /\ \A i \in Parts : i \in Int /\ k + 1 - i \in Parts
         /\ \A i, j \in Parts :
              /\ i < j <=> k + 1 - j < k + 1 - i
              /\ k + 1 - i = k + 1 - j => i = j
         /\ \A j \in Parts : \E i \in Parts : k + 1 - i = j
  <1>1. k \in Nat
    BY Sizes
  <1>2. \A i \in Parts : i \in Int /\ k + 1 - i \in Parts /\ k + 1 - (k + 1 - i) = i
    BY <1>1 DEF Parts
  <1>3. \A i, j \in Parts :
          /\ i < j <=> k + 1 - j < k + 1 - i
          /\ k + 1 - i = k + 1 - j => i = j
    BY <1>1 DEF Parts
  <1>. QED
    BY <1>2, <1>3

LEMMA MergedShape ==
  ASSUME Parameters, NEW s \in [Parts -> Part], NEW t \in [Parts -> Part],
         Shaped(s), Shaped(t), InnerDisjoint(s), InnerDisjoint(t), Disjoint(s, t)
  PROVE  LET m == Merged(s, t) IN
         /\ m \in [Parts -> Part]
         /\ EmptyIsLight(m) /\ Sparse(m) /\ OneSize(m) /\ InnerDisjoint(m)
         /\ ItemsOf(m) = ItemsOf(s) \cup ItemsOf(t)
  <1>. DEFINE m == Merged(s, t)
              other(i) == k + 1 - i
  <1>1. \A i \in Parts :
          /\ other(i) \in Parts
          /\ m[i].items = s[i].items \cup t[other(i)].items
          /\ m[i].sum = s[i].sum + t[other(i)].sum
    BY Mirrored DEF Merged, Join
  <1>2. m \in [Parts -> Part]
    BY Mirrored DEF Merged, Join, Part
  <1>3. EmptyIsLight(m)
    BY <1>1 DEF Shaped, EmptyIsLight
  <1>4. Sparse(m)
    <2>. SUFFICES ASSUME NEW e \in Parts, m[e].items = {},
                         NEW i \in Parts, NEW x \in m[i].items, NEW y \in m[i].items
                  PROVE  x = y
      BY DEF Sparse
    <2>1. s[e].items = {} /\ t[other(e)].items = {}
      BY <1>1
    <2>2. \A a, b \in s[i].items : a = b
      BY <2>1 DEF Shaped, Sparse
    <2>3. \A a, b \in t[other(i)].items : a = b
      BY <1>1, <2>1 DEF Shaped, Sparse
    <2>4. CASE i = e
      BY <1>1, <2>1, <2>4
    <2>5. CASE e < i
      <3>1. s[i].items = {}
        BY <2>1, <2>5 DEF Shaped, EmptiesLast
      <3>. QED
        BY <1>1, <2>3, <3>1
    <2>6. CASE i < e
      <3>1. other(e) < other(i)
        BY <2>6, Mirrored
      <3>2. t[other(i)].items = {}
        BY <1>1, <2>1, <3>1 DEF Shaped, EmptiesLast
      <3>. QED
        BY <1>1, <2>2, <3>2
    <2>. QED
      BY <2>4, <2>5, <2>6, Mirrored
  <1>5. OneSize(m)
    <2>. SUFFICES ASSUME equal_size
                  PROVE  \E c \in Nat : \A i \in Parts : Cardinality(m[i].items) = c
      BY DEF OneSize
    <2>1. PICK c \in Nat : \A i \in Parts : Cardinality(s[i].items) = c
      BY DEF Shaped, OneSize
    <2>2. PICK d \in Nat : \A i \in Parts : Cardinality(t[i].items) = d
      BY DEF Shaped, OneSize
    <2>3. \A i \in Parts : IsFiniteSet(s[i].items) /\ IsFiniteSet(t[i].items)
      BY Sizes, FS_Subset DEF Part
    <2>4. ASSUME NEW i \in Parts PROVE Cardinality(m[i].items) = c + d
      <3>1. s[i].items \cap t[other(i)].items = {}
        BY <1>1 DEF Disjoint
      <3>2. IsFiniteSet(s[i].items) /\ IsFiniteSet(t[other(i)].items)
        BY <1>1, <2>3
      <3>3. Cardinality(s[i].items \cup t[other(i)].items) =
              Cardinality(s[i].items) + Cardinality(t[other(i)].items)
              - Cardinality(s[i].items \cap t[other(i)].items)
        BY <3>2, FS_Union
      <3>4. Cardinality(s[i].items \cap t[other(i)].items) = 0
        BY <3>1, FS_EmptySet
      <3>5. m[i].items = s[i].items \cup t[other(i)].items
        BY <1>1
      <3>6. Cardinality(s[i].items) = c /\ Cardinality(t[other(i)].items) = d
        BY <1>1, <2>1, <2>2
      <3>. QED
        BY <3>3, <3>4, <3>5, <3>6
    <2>. QED
      BY <2>4
  <1>6. InnerDisjoint(m)
    <2>. SUFFICES ASSUME NEW i \in Parts, NEW j \in Parts, i # j
                  PROVE  m[i].items \cap m[j].items = {}
      BY DEF InnerDisjoint
    <2>1. other(i) # other(j)
      BY Mirrored
    <2>2. s[i].items \cap s[j].items = {} /\ t[other(i)].items \cap t[other(j)].items = {}
      BY <1>1, <2>1 DEF InnerDisjoint
    <2>3. s[i].items \cap t[other(j)].items = {} /\ s[j].items \cap t[other(i)].items = {}
      BY <1>1 DEF Disjoint
    <2>. QED
      BY <1>1, <2>2, <2>3
  <1>7. ItemsOf(m) = ItemsOf(s) \cup ItemsOf(t)
    <2>1. ItemsOf(m) \subseteq ItemsOf(s) \cup ItemsOf(t)
      BY <1>1 DEF ItemsOf
    <2>2. ItemsOf(s) \subseteq ItemsOf(m)
      BY <1>1 DEF ItemsOf
    <2>3. ASSUME NEW j \in Parts PROVE t[j].items \subseteq ItemsOf(m)
      <3>1. PICK i \in Parts : other(i) = j
        BY Mirrored
      <3>2. t[j].items \subseteq m[i].items
        BY <1>1, <3>1
      <3>. QED
        BY <3>2 DEF ItemsOf
    <2>4. ItemsOf(t) \subseteq ItemsOf(m)
      BY <2>3 DEF ItemsOf
    <2>. QED
      BY <2>1, <2>2, <2>4
  <1>. QED
    BY <1>2, <1>3, <1>4, <1>5, <1>6, <1>7

LEMMA SortedShape ==
  ASSUME Parameters, NEW m \in [Parts -> Part],
         EmptyIsLight(m), Sparse(m), OneSize(m), InnerDisjoint(m),
         NEW u \in Sortings(m)
  PROVE  /\ u \in [Parts -> Part]
         /\ InOrder(u) /\ EmptiesLast(u) /\ EmptyIsLight(u) /\ Sparse(u) /\ OneSize(u)
         /\ InnerDisjoint(u)
         /\ ItemsOf(u) = ItemsOf(m)
         /\ \A i \in Parts : \E a \in Parts : u[i] = m[a]
  <1>1. PICK p \in Arrangements : Decreasing(m, p) /\ u = [i \in Parts |-> m[p[i]]]
    BY DEF Sortings
  <1>2. p \in [Parts -> Parts] /\ \A i, j \in Parts : p[i] = p[j] => i = j
    BY ArrangementInjective
  <1>3. \A i \in Parts : p[i] \in Parts /\ u[i] = m[p[i]]
    BY <1>1, <1>2
  <1>4. u \in [Parts -> Part]
    BY <1>1, <1>2
  <1>5. \A i \in Parts : /\ u[i].sum \in Nat /\ IsFiniteSet(u[i].items)
                        /\ Cardinality(u[i].items) \in Nat
    BY <1>4, Sizes, FS_Subset, FS_CardinalityType DEF Part
  <1>6. ASSUME NEW i \in Parts, NEW j \in Parts, i < j
        PROVE  /\ u[i].sum >= u[j].sum
               /\ u[i].sum = u[j].sum => Cardinality(u[i].items) >= Cardinality(u[j].items)
    <2>1. ~ Smaller(u[i], u[j])
      BY <1>1, <1>3, <1>6 DEF Decreasing
    <2>. QED
      BY <1>5, <2>1 DEF Smaller
  <1>7. InOrder(u)
    BY <1>6 DEF InOrder
  <1>8. EmptyIsLight(u)
    BY <1>3 DEF EmptyIsLight
  <1>9. EmptiesLast(u)
    <2>. SUFFICES ASSUME NEW i \in Parts, NEW j \in Parts, i < j, u[i].items = {}
                  PROVE  u[j].items = {}
      BY DEF EmptiesLast
    <2>1. u[i].sum = 0 /\ Cardinality(u[i].items) = 0
      BY <1>8, FS_EmptySet DEF EmptyIsLight
    <2>2. u[i].sum >= u[j].sum /\ u[j].sum \in Nat
      BY <1>5, <1>6
    <2>3. u[i].sum = u[j].sum
      BY <2>1, <2>2
    <2>4. Cardinality(u[i].items) >= Cardinality(u[j].items)
      BY <1>6, <2>3
    <2>5. Cardinality(u[j].items) = 0
      BY <1>5, <2>1, <2>4
    <2>. QED
      BY <1>5, <2>5, FS_EmptySet
  <1>10. Sparse(u) /\ OneSize(u)
    BY <1>3 DEF Sparse, OneSize
  <1>11. InnerDisjoint(u)
    BY <1>2, <1>3 DEF InnerDisjoint
  <1>12. ItemsOf(u) = ItemsOf(m)
    <2>1. ItemsOf(u) \subseteq ItemsOf(m)
      BY <1>3 DEF ItemsOf
    <2>2. ASSUME NEW j \in Parts PROVE m[j].items \subseteq ItemsOf(u)
      <3>1. PICK i \in Parts : p[i] = j
        BY DEF Arrangements
      <3>2. m[j].items = u[i].items
        BY <1>3, <3>1
      <3>. QED
        BY <3>2 DEF ItemsOf
    <2>3. ItemsOf(m) \subseteq ItemsOf(u)
      BY <2>2 DEF ItemsOf
    <2>. QED
      BY <2>1, <2>3
  <1>. QED
    BY <1>3, <1>4, <1>7, <1>8, <1>9, <1>10, <1>11, <1>12

\* The differences of two states cancel: two sums of parts that were joined in
\* opposite orders differ by no more than the larger of the two spreads.
LEMMA SpreadShrinks ==
  ASSUME Parameters, NEW s \in [Parts -> Part], NEW t \in [Parts -> Part],
         InOrder(s), InOrder(t), NEW a \in Parts, NEW b \in Parts
  PROVE  LET difference == Merged(s, t)[a].sum - Merged(s, t)[b].sum IN
         difference <= Spread(s) \/ difference <= Spread(t)
  <1>1. k \in Nat /\ 1 \in Parts /\ k \in Parts /\ \A i \in Parts : i \in Int /\ 1 <= i /\ i <= k
    BY Sizes DEF Parts
  <1>2. \A i \in Parts : s[i].sum \in Nat /\ t[i].sum \in Nat
    BY DEF Part
  <1>3. \A i, j \in Parts : i <= j => s[i].sum >= s[j].sum /\ t[i].sum >= t[j].sum
    <2>. TAKE i \in Parts, j \in Parts
    <2>1. i < j => s[i].sum >= s[j].sum /\ t[i].sum >= t[j].sum
      BY DEF InOrder
    <2>. QED
      BY <1>1, <1>2, <2>1
  <1>4. \A i \in Parts : Merged(s, t)[i].sum = s[i].sum + t[k + 1 - i].sum /\ k + 1 - i \in Parts
    BY Mirrored DEF Merged, Join
  <1>5. \A i \in Parts :
          /\ s[i].sum <= s[1].sum /\ s[k].sum <= s[i].sum
          /\ t[i].sum <= t[1].sum /\ t[k].sum <= t[i].sum
    BY <1>1, <1>2, <1>3
  <1>6. CASE a <= b
    <2>1. t[k + 1 - a].sum <= t[k + 1 - b].sum
      <3>1. k + 1 - b <= k + 1 - a
        BY <1>1, <1>6
      <3>. QED
        BY <1>3, <1>4, <3>1
    <2>2. s[a].sum - s[b].sum <= Spread(s)
      BY <1>1, <1>2, <1>5 DEF Spread
    <2>3. Spread(s) \in Int /\ t[k + 1 - a].sum \in Nat /\ t[k + 1 - b].sum \in Nat
      BY <1>1, <1>2, <1>4 DEF Spread
    <2>. QED
      BY <1>2, <1>4, <2>1, <2>2, <2>3
  <1>7. CASE b <= a
    <2>1. s[a].sum <= s[b].sum
      BY <1>3, <1>7
    <2>2. t[k + 1 - a].sum - t[k + 1 - b].sum <= Spread(t)
      BY <1>1, <1>2, <1>4, <1>5 DEF Spread
    <2>3. Spread(t) \in Int /\ t[k + 1 - a].sum \in Nat /\ t[k + 1 - b].sum \in Nat
      BY <1>1, <1>2, <1>4 DEF Spread
    <2>. QED
      BY <1>2, <1>4, <2>1, <2>2, <2>3
  <1>. QED
    BY <1>1, <1>6, <1>7

LEMMA MergeShaped ==
  ASSUME Parameters, NEW s \in [Parts -> Part], NEW t \in [Parts -> Part],
         Shaped(s), Shaped(t), InnerDisjoint(s), InnerDisjoint(t), Disjoint(s, t),
         NEW u \in Sortings(Merged(s, t))
  PROVE  /\ u \in [Parts -> Part] /\ Shaped(u) /\ InnerDisjoint(u)
         /\ ItemsOf(u) = ItemsOf(s) \cup ItemsOf(t)
  <1>. DEFINE m == Merged(s, t)
  <1>1. /\ m \in [Parts -> Part]
        /\ EmptyIsLight(m) /\ Sparse(m) /\ OneSize(m) /\ InnerDisjoint(m)
        /\ ItemsOf(m) = ItemsOf(s) \cup ItemsOf(t)
    BY MergedShape
  <1>2. /\ u \in [Parts -> Part]
        /\ InOrder(u) /\ EmptiesLast(u) /\ EmptyIsLight(u) /\ Sparse(u) /\ OneSize(u)
        /\ InnerDisjoint(u) /\ ItemsOf(u) = ItemsOf(m)
        /\ \A i \in Parts : \E a \in Parts : u[i] = m[a]
    BY <1>1, SortedShape
  <1>3. SmallSpread(u)
    <2>1. 1 \in Parts /\ k \in Parts
      BY Sizes DEF Parts
    <2>2. PICK a \in Parts, b \in Parts : u[1] = m[a] /\ u[k] = m[b]
      BY <1>2, <2>1
    <2>3. Spread(u) <= Spread(s) \/ Spread(u) <= Spread(t)
      BY <2>2, SpreadShrinks DEF Spread, Shaped
    <2>4. Spread(u) \in Int /\ Spread(s) \in Int /\ Spread(t) \in Int
      BY <1>2, <2>1 DEF Spread, Part
    <2>5. PICK x \in Items, y \in Items : Spread(s) <= workload[x] /\ Spread(t) <= workload[y]
      BY DEF Shaped, SmallSpread
    <2>6. workload[x] \in Nat /\ workload[y] \in Nat
      BY Sizes
    <2>. QED
      BY <2>3, <2>4, <2>5, <2>6 DEF SmallSpread
  <1>. QED
    BY <1>1, <1>2, <1>3 DEF Shaped

----------------------------------------------------------------------------
(* The loop.                                                               *)

LEMMA Step == IInv /\ [Next]_vars => IInv'
  <1>. SUFFICES ASSUME IInv, [Next]_vars PROVE IInv'
    OBVIOUS
  <1>1. Parameters /\ states_pq \subseteq [Parts -> Part]
    BY DEF IInv, Typed
  <1>2. CASE Merge
    <2>1. \E s, t \in states_pq : s # t /\ \E u \in Sortings(Merged(s, t)) :
            states_pq' = (states_pq \ {s, t}) \cup {u}
      BY <1>2 DEF Merge, Top
    <2>2. PICK s \in states_pq, t \in states_pq : s # t /\ \E u \in Sortings(Merged(s, t)) :
            states_pq' = (states_pq \ {s, t}) \cup {u}
      BY <2>1
    <2>3. PICK u \in Sortings(Merged(s, t)) : states_pq' = (states_pq \ {s, t}) \cup {u}
      BY <2>2
    <2>4. \A v, w \in states_pq : v # w => Disjoint(v, w)
      BY DEF IInv, EachItemOnce, Disjoint
    <2>5. \A v \in states_pq : InnerDisjoint(v) /\ Shaped(v)
      BY DEF IInv, EachItemOnce, InnerDisjoint
    <2>6. u \in [Parts -> Part] /\ Shaped(u) /\ InnerDisjoint(u)
          /\ ItemsOf(u) = ItemsOf(s) \cup ItemsOf(t)
      BY <1>1, <2>3, <2>2, <2>4, <2>5, MergeShaped
    <2>7. UNCHANGED <<workload, k, equal_size>>
      BY <1>2 DEF Merge
    <2>8. Typed'
      <3>1. Parts' = Parts /\ Part' = Part
        BY <2>7 DEF Parts, Part, Items
      <3>2. states_pq' \subseteq [Parts -> Part]
        BY <1>1, <2>3, <2>6
      <3>. QED
        BY <2>7, <3>1, <3>2 DEF IInv, Typed, Parameters
    <2>9. \A v \in states_pq' : Shaped(v)
      BY <2>3, <2>5, <2>6
    <2>10. (\A v \in states_pq : Shaped(v))'
      BY <2>7, <2>9
      DEF Shaped, InOrder, EmptiesLast, EmptyIsLight, Sparse, OneSize, SmallSpread, Spread,
          Parts, Items
    <2>11. UNION {ItemsOf(v) : v \in states_pq'} = Items
      <3>1. UNION {ItemsOf(v) : v \in states_pq} = Items
        BY DEF IInv, EachItemOnce
      <3>2. \A v \in states_pq' : ItemsOf(v) \subseteq Items
        BY <2>3, <2>2, <2>6, <3>1
      <3>3. ASSUME NEW x \in Items PROVE \E v \in states_pq' : x \in ItemsOf(v)
        <4>1. PICK v \in states_pq : x \in ItemsOf(v)
          BY <3>1
        <4>. QED
          BY <2>3, <2>6, <4>1
      <3>. QED
        BY <3>2, <3>3
    <2>12. ASSUME NEW v \in states_pq', NEW w \in states_pq', NEW i \in Parts, NEW j \in Parts,
                  v # w \/ i # j
           PROVE  v[i].items \cap w[j].items = {}
      <3>1. ASSUME NEW r \in states_pq \ {s, t}, NEW a \in Parts, NEW b \in Parts
            PROVE  u[a].items \cap r[b].items = {}
        <4>1. Disjoint(s, r) /\ Disjoint(t, r)
          BY <2>2, <2>4
        <4>2. ItemsOf(s) \cap r[b].items = {} /\ ItemsOf(t) \cap r[b].items = {}
          BY <4>1 DEF Disjoint, ItemsOf
        <4>3. u[a].items \subseteq ItemsOf(s) \cup ItemsOf(t)
          BY <2>6 DEF ItemsOf
        <4>. QED
          BY <4>2, <4>3
      <3>2. CASE v = w
        <4>1. InnerDisjoint(v)
          BY <2>3, <2>5, <2>6
        <4>. QED
          BY <2>12, <3>2, <4>1 DEF InnerDisjoint
      <3>3. CASE v # w
        <4>1. CASE v = u
          BY <2>3, <3>1, <3>3, <4>1
        <4>2. CASE w = u
          BY <2>3, <3>1, <3>3, <4>2
        <4>3. CASE v # u /\ w # u
          BY <2>3, <2>4, <3>3, <4>3 DEF Disjoint
        <4>. QED
          BY <4>1, <4>2, <4>3
      <3>. QED
        BY <3>2, <3>3
    <2>13. EachItemOnce'
      BY <2>7, <2>11, <2>12 DEF EachItemOnce, ItemsOf, Parts, Items
    <2>14. IsFiniteSet(states_pq')
      BY <2>3, FS_AddElement, FS_Subset DEF IInv
    <2>. QED
      BY <2>8, <2>10, <2>13, <2>14 DEF IInv
  <1>3. CASE UNCHANGED vars
    <2>1. UNCHANGED <<workload, k, equal_size, states_pq>>
      BY <1>3 DEF vars
    <2>2. Typed' /\ EachItemOnce'
      <3>1. Typed'
        BY <2>1 DEF IInv, Typed, Parameters, Parts, Part, Items
      <3>2. EachItemOnce'
        BY <2>1 DEF IInv, EachItemOnce, ItemsOf, Parts, Items
      <3>. QED
        BY <3>1, <3>2
    <2>3. \A s \in states_pq' : Shaped(s)
      BY <2>1 DEF IInv
    <2>4. (\A s \in states_pq : Shaped(s))'
      BY <2>1, <2>3
      DEF Shaped, InOrder, EmptiesLast, EmptyIsLight, Sparse, OneSize, SmallSpread,
          Spread, Parts, Items
    <2>. QED
      BY <2>1, <2>2, <2>4 DEF IInv
  <1>. QED
    BY <1>2, <1>3 DEF Next

THEOREM Inductive == Spec => []IInv
  BY Initially, Step, PTL DEF Spec

\* The heap holds states of k parts over the items of the list.
THEOREM PartitionTypes == Spec => []TypeOK
  <1>. DEFINE Bounded ==
                \E n \in 1 .. MaxItems : workload \in [0 .. n - 1 -> Workloads] /\ k \in 1 .. n
  <1>1. Init => Bounded
    BY DEF Init
  <1>2. Bounded /\ [Next]_vars => Bounded'
    BY DEF Next, Merge, vars
  <1>3. IInv /\ Bounded => TypeOK
    BY DEF IInv, Typed, TypeOK
  <1>. HIDE DEF Bounded
  <1>. QED
    BY <1>1, <1>2, <1>3, Inductive, PTL DEF Spec

\* No item is lost or dealt twice: the parts on the heap are disjoint and hold
\* every item, at the end as at any time.
THEOREM PartitionComplete == Spec => []EachItemOnce
  <1>1. IInv => EachItemOnce
    BY DEF IInv
  <1>. QED
    BY <1>1, Inductive, PTL

\* In any state on the heap the heaviest and the lightest part differ by no
\* more than one item weighs.
THEOREM PartitionBalanced == Spec => []Balanced
  <1>1. IInv => Balanced
    BY DEF IInv, Shaped, SmallSpread, Balanced
  <1>. QED
    BY <1>1, Inductive, PTL

----------------------------------------------------------------------------
(* The result.                                                             *)

LEMMA Result ==
  ASSUME IInv, Done, NEW s \in states_pq
  PROVE  /\ Parameters /\ s \in [Parts -> Part] /\ Shaped(s) /\ InnerDisjoint(s)
         /\ ItemsOf(s) = Items
  <1>1. states_pq = {s}
    BY FS_Singleton DEF IInv, Done
  <1>2. UNION {ItemsOf(t) : t \in states_pq} = Items
    BY DEF IInv, EachItemOnce
  <1>3. ItemsOf(s) = Items
    BY <1>1, <1>2
  <1>. QED
    BY <1>3 DEF IInv, Typed, EachItemOnce, InnerDisjoint

\* If one were empty, none would hold two items, and the list would have fewer than k.
LEMMA NotEmpty == IInv => NoneEmpty
  <1>. SUFFICES ASSUME IInv, Done, NEW s \in states_pq, NEW e \in Parts, s[e].items = {}
                PROVE  FALSE
    BY DEF NoneEmpty
  <1>1. Parameters /\ s \in [Parts -> Part] /\ Shaped(s) /\ ItemsOf(s) = Items
    BY Result
  <1>2. \A i \in Parts : \A x, y \in s[i].items : x = y
    BY <1>1 DEF Shaped, Sparse
  <1>. DEFINE place == [x \in Items |-> CHOOSE i \in Parts : x \in s[i].items]
  <1>3. \A x \in Items : place[x] \in Parts /\ x \in s[place[x]].items
    BY <1>1 DEF ItemsOf
  <1>4. place \in [Items -> Parts \ {e}]
    BY <1>3
  <1>5. \A x, y \in Items : place[x] = place[y] => x = y
    BY <1>2, <1>3
  <1>6. place \in Injection(Items, Parts \ {e})
    BY <1>4, <1>5 DEF Injection, IsInjective
  <1>7. PICK n \in Nat : Cardinality(Items) = n /\ k \in 1 .. n /\ k \in Nat
    BY <1>1, Sizes
  <1>8. IsFiniteSet(Parts) /\ Cardinality(Parts) = k
    BY <1>7, FS_Interval DEF Parts
  <1>9. IsFiniteSet(Parts \ {e}) /\ Cardinality(Parts \ {e}) = k - 1
    BY <1>8, FS_RemoveElement
  <1>10. Cardinality(Items) <= k - 1
    BY <1>6, <1>9, FS_Injection
  <1>. QED
    BY <1>7, <1>10

\* None of the k partitions is empty.
THEOREM PartitionNoneEmpty == Spec => []NoneEmpty
  BY NotEmpty, Inductive, PTL

\* k sets of one size that cover the items without a repetition have n / k
\* items each.
LEMMA EqualShares ==
  ASSUME Parameters, NEW s \in [Parts -> Part], InnerDisjoint(s), ItemsOf(s) = Items,
         NEW c \in Nat, \A i \in Parts : Cardinality(s[i].items) = c
  PROVE  c * k = Cardinality(Items)
  <1>. DEFINE places == Parts \X (1 .. c)
              listing == [i \in Parts |-> CHOOSE f \in Bijection(1 .. c, s[i].items) : TRUE]
              item == [z \in places |-> listing[z[1]][z[2]]]
  <1>1. k \in Nat /\ IsFiniteSet(Items)
    BY Sizes
  <1>2. ASSUME NEW i \in Parts PROVE listing[i] \in Bijection(1 .. c, s[i].items)
    <2>1. IsFiniteSet(s[i].items)
      BY <1>1, FS_Subset DEF Part
    <2>2. ExistsBijection(1 .. c, s[i].items)
      BY <2>1, FS_CardinalityType
    <2>. QED
      BY <2>2 DEF ExistsBijection
  <1>3. \A i \in Parts, a \in 1 .. c : listing[i][a] \in s[i].items
    BY <1>2 DEF Bijection, Injection
  <1>4. \A i \in Parts, a, b \in 1 .. c : listing[i][a] = listing[i][b] => a = b
    BY <1>2 DEF Bijection, Injection, IsInjective
  <1>5. \A i \in Parts : \A x \in s[i].items : \E a \in 1 .. c : listing[i][a] = x
    BY <1>2 DEF Bijection, Surjection
  <1>. HIDE DEF listing
  <1>6. item \in [places -> Items]
    BY <1>3 DEF ItemsOf
  <1>7. item \in Injection(places, Items)
    <2>1. ASSUME NEW y \in places, NEW z \in places, item[y] = item[z] PROVE y = z
      <3>1. y[1] \in Parts /\ z[1] \in Parts /\ y[2] \in 1 .. c /\ z[2] \in 1 .. c
        OBVIOUS
      <3>2. listing[y[1]][y[2]] = listing[z[1]][z[2]]
        BY <2>1
      <3>3. y[1] = z[1]
        BY <1>3, <3>1, <3>2 DEF InnerDisjoint
      <3>4. y[2] = z[2]
        BY <1>4, <3>1, <3>2, <3>3
      <3>. QED
        BY <3>3, <3>4
    <2>. QED
      BY <1>6, <2>1 DEF Injection, IsInjective
  <1>8. item \in Surjection(places, Items)
    <2>1. ASSUME NEW x \in Items PROVE \E z \in places : item[z] = x
      <3>1. PICK i \in Parts : x \in s[i].items
        BY DEF ItemsOf
      <3>2. PICK a \in 1 .. c : listing[i][a] = x
        BY <1>5, <3>1
      <3>3. <<i, a>> \in places /\ item[<<i, a>>] = x
        BY <3>2
      <3>. QED
        BY <3>3
    <2>. QED
      BY <1>6, <2>1 DEF Surjection
  <1>9. IsFiniteSet(places) /\ Cardinality(places) = k * c
    <2>1. IsFiniteSet(Parts) /\ Cardinality(Parts) = k
      BY <1>1, FS_Interval DEF Parts
    <2>2. IsFiniteSet(1 .. c) /\ Cardinality(1 .. c) = c
      BY FS_Interval
    <2>. QED
      BY <2>1, <2>2, FS_Product
  <1>10. Cardinality(Items) = Cardinality(places)
    BY <1>7, <1>8, <1>9, FS_Surjection
  <1>. QED
    BY <1>1, <1>9, <1>10

\* With equal_size every partition has n / k items.
THEOREM PartitionEqualSizes == Spec => []EqualSizes
  <1>1. IInv => EqualSizes
    <2>. SUFFICES ASSUME IInv, Done, equal_size, NEW s \in states_pq, NEW i \in Parts
                  PROVE  Cardinality(s[i].items) * k = Cardinality(Items)
      BY DEF EqualSizes
    <2>1. Parameters /\ s \in [Parts -> Part] /\ Shaped(s) /\ InnerDisjoint(s) /\ ItemsOf(s) = Items
      BY Result
    <2>2. PICK c \in Nat : \A j \in Parts : Cardinality(s[j].items) = c
      BY <2>1 DEF Shaped, OneSize
    <2>. QED
      BY <2>1, <2>2, EqualShares
  <1>. QED
    BY <1>1, Inductive, PTL

-----------------------------------------------------------------------------
(***************************************************************************)
(* Numbers of ranks and rows.                                              *)
(***************************************************************************)

LEMMA Euclid ==
  ASSUME NEW n \in Nat \ {0}, NEW q \in Int, NEW r \in 0 .. n - 1
  PROVE  (n * q + r) \div n = q /\ (n * q + r) % n = r
  <1>. DEFINE x == n * q + r
              d == x \div n
              m == x % n
  <1>1. x \in Int /\ d \in Int /\ m \in 0 .. n - 1 /\ x = n * d + m
    OBVIOUS
  <1>2. n * d - n * q < n /\ n * q - n * d < n
    <2>. DEFINE a == n * d
                b == n * q
    <2>1. a + m = b + r /\ a \in Int /\ b \in Int
      BY <1>1
    <2>. HIDE DEF a, b, m
    <2>. QED
      BY <1>1, <2>1
  <1>3. ~ (d >= q + 1)
    <2>1. d >= q + 1 => n * d >= n * q + n
      <3>. HIDE DEF d
      <3>. QED
        BY <1>1
    <2>. HIDE DEF d
    <2>. QED
      BY <1>1, <1>2, <2>1
  <1>4. ~ (q >= d + 1)
    <2>1. q >= d + 1 => n * q >= n * d + n
      <3>. HIDE DEF d
      <3>. QED
        BY <1>1
    <2>. HIDE DEF d
    <2>. QED
      BY <1>1, <1>2, <2>1
  <1>5. d = q
    <2>. HIDE DEF d
    <2>. QED
      BY <1>1, <1>3, <1>4
  <1>6. m = r
    <2>. DEFINE b == n * q
    <2>1. b + r = b + m /\ b \in Int
      BY <1>1, <1>5
    <2>. HIDE DEF b, m
    <2>. QED
      BY <1>1, <2>1
  <1>. QED
    BY <1>5, <1>6

LEMMA Divided ==
  ASSUME NEW n \in Nat \ {0}, NEW x \in Nat
  PROVE  /\ x \div n \in Nat /\ x % n \in 0 .. n - 1 /\ x = n * (x \div n) + (x % n)
  OBVIOUS

\* Quotients grow with what is divided.
LEMMA DivGrows ==
  ASSUME NEW n \in Nat \ {0}, NEW x \in Nat, NEW y \in Nat, x <= y
  PROVE  x \div n <= y \div n
  <1>. DEFINE a == x \div n
              b == y \div n
  <1>1. a \in Nat /\ b \in Nat /\ n * a <= x /\ y < n * b + n
    <2>1. x = n * a + (x % n) /\ y = n * b + (y % n)
          /\ (x % n) \in 0 .. n - 1 /\ (y % n) \in 0 .. n - 1
          /\ a \in Nat /\ b \in Nat
      BY Divided
    <2>. DEFINE u == n * a
                v == n * b
    <2>. HIDE DEF a, b
    <2>2. u \in Nat /\ v \in Nat
      BY <2>1
    <2>. HIDE DEF u, v
    <2>3. x % n \in Nat /\ y % n < n
      BY <2>1
    <2>4. x = u + (x % n) /\ y = v + (y % n)
      BY <2>1 DEF u, v
    <2>5. u <= x /\ y < v + n
      BY <2>1, <2>2, <2>3, <2>4
    <2>. QED
      BY <2>1, <2>5 DEF u, v
  <1>. HIDE DEF a, b
  <1>2. a >= b + 1 => n * a >= n * b + n
    BY <1>1
  <1>3. ~ (a >= b + 1)
    <2>. DEFINE u == n * a
                v == n * b
    <2>1. u \in Nat /\ v \in Nat
      BY <1>1
    <2>. HIDE DEF u, v
    <2>. QED
      BY <1>1, <1>2, <2>1 DEF u, v
  <1>4. a <= b
    BY <1>1, <1>3
  <1>. QED
    BY <1>4 DEF a, b

LEMMA Products ==
  ASSUME NEW x \in Nat, NEW y \in Nat
  PROVE  /\ x * y \in Nat
         /\ \A z \in Nat : x <= z => x * y <= z * y /\ y * x <= y * z
         /\ x > 0 /\ y > 0 => x * y > 0
  OBVIOUS

\* The ranks of worker w, of the groups of t tensor ranks and d data parallel ranks, name it.
LEMMA RanksOf ==
  ASSUME NEW t \in Nat \ {0}, NEW d \in Nat \ {0}, NEW p \in Nat \ {0},
         NEW w \in 0 .. t * d * p - 1
  PROVE  /\ w % t \in 0 .. t - 1 /\ (w \div t) % d \in 0 .. d - 1
         /\ w \div (t * d) \in 0 .. p - 1
         /\ w = t * (((w \div t) % d) + d * (w \div (t * d))) + (w % t)
  <1>. DEFINE i == w % t
              e == w \div t
              j == e % d
              q == e \div d
  <1>1. w \in Nat /\ t * d \in Nat \ {0}
    BY Products
  <1>2. e \in Nat /\ i \in 0 .. t - 1 /\ w = t * e + i
    BY <1>1, Divided
  <1>3. q \in Nat /\ j \in 0 .. d - 1 /\ e = d * q + j
    <2>. HIDE DEF e
    <2>. QED
      BY <1>2, Divided
  <1>. HIDE DEF i, e, j, q
  <1>4. t * j + i \in 0 .. t * d - 1
    <2>1. j + 1 <= d /\ j \in Nat /\ i \in Nat /\ i < t
      BY <1>2, <1>3
    <2>2. t * (j + 1) <= t * d
      BY <2>1, Products
    <2>3. t * (j + 1) = t * j + t /\ t * j \in Nat
      BY <2>1
    <2>. DEFINE a == t * j
                b == t * d
    <2>4. a + t <= b /\ a \in Nat /\ b \in Nat
      BY <1>1, <2>2, <2>3
    <2>. HIDE DEF a, b
    <2>5. a + i \in 0 .. b - 1
      BY <2>1, <2>4
    <2>. QED
      BY <2>5 DEF a, b
  <1>5. w = (t * d) * q + (t * j + i)
    <2>1. t * (d * q + j) = (t * d) * q + t * j
      BY <1>3
    <2>2. t * e = (t * d) * q + t * j
      BY <1>3, <2>1
    <2>. DEFINE a == t * j
                b == (t * d) * q
                m == t * e
    <2>3. a \in Nat /\ b \in Nat /\ m \in Nat /\ m = b + a
      BY <1>1, <1>2, <1>3, <2>2, Products
    <2>4. w = m + i /\ i \in Nat
      BY <1>2
    <2>. HIDE DEF a, b, m
    <2>5. w = b + (a + i)
      BY <2>3, <2>4
    <2>. QED
      BY <2>5 DEF a, b
  <1>6. w \div (t * d) = q
    <2>. DEFINE n == t * d
                r == t * j + i
    <2>1. w = n * q + r /\ n \in Nat \ {0} /\ r \in 0 .. n - 1 /\ q \in Int
      BY <1>1, <1>3, <1>4, <1>5
    <2>. HIDE DEF n, r
    <2>2. w \div n = q
      BY <2>1, Euclid
    <2>. QED
      BY <2>2 DEF n
  <1>7. q < p
    <2>. DEFINE n == t * d
    <2>1. n * q <= w
      <3>. DEFINE m == n * q
                  r == t * j + i
      <3>1. w = m + r /\ r \in Nat /\ m \in Nat
        BY <1>1, <1>3, <1>4, <1>5
      <3>. HIDE DEF m, r
      <3>2. m <= w
        BY <3>1
      <3>. QED
        BY <3>2 DEF m
    <2>2. n * p = t * d * p
      OBVIOUS
    <2>3. n \in Nat /\ n * q < n * p
      <3>. DEFINE x == n * p
                  y == n * q
      <3>1. x \in Nat /\ y \in Nat /\ w \in 0 .. x - 1 /\ y <= w
        BY <1>1, <1>3, <2>1, <2>2
      <3>. HIDE DEF x, y
      <3>2. y < x
        BY <3>1
      <3>. QED
        BY <1>1, <3>2 DEF x, y
    <2>4. p <= q => n * p <= n * q
      BY <1>1, <1>3, Products
    <2>. HIDE DEF n
    <2>. QED
      BY <1>3, <2>3, <2>4, Products
  <1>8. t * (j + d * q) + i = (t * d) * q + (t * j + i)
    <2>1. t * (j + d * q) = (t * d) * q + t * j
      BY <1>3
    <2>. DEFINE a == t * j
                b == (t * d) * q
    <2>2. a \in Nat /\ b \in Nat
      BY <1>1, <1>3, Products
    <2>. HIDE DEF a, b
    <2>3. (b + a) + i = b + (a + i)
      BY <1>2, <2>2
    <2>. QED
      BY <2>1, <2>3 DEF a, b
  <1>9. w = t * (j + d * q) + i
    BY <1>5, <1>8
  <1>10. w = t * (j + d * (w \div (t * d))) + i
    BY <1>6, <1>9, Zenon
  <1>11. q \in 0 .. p - 1
    BY <1>3, <1>7
  <1>12. w \div (t * d) \in 0 .. p - 1
    BY <1>6, <1>11, Zenon
  <1>. QED
    BY <1>2, <1>3, <1>10, <1>12, Zenon DEF i, j, e

HasRanks(w, t, d, p, i, j, q) ==
  /\ w \in 0 .. t * d * p - 1
  /\ w % t = i /\ (w \div t) % d = j /\ w \div (t * d) = q

\* And every combination of ranks is that of one worker.
LEMMA WorkerOf ==
  ASSUME NEW t \in Nat \ {0}, NEW d \in Nat \ {0}, NEW p \in Nat \ {0},
         NEW i \in 0 .. t - 1, NEW j \in 0 .. d - 1, NEW q \in 0 .. p - 1,
         NEW w, w = t * (j + d * q) + i
  PROVE  HasRanks(w, t, d, p, i, j, q)
  <1>1. d * q + j \in Nat /\ d * q + j = j + d * q
    BY Products
  <1>2. w % t = i /\ w \div t = d * q + j
    <2>. DEFINE e == d * q + j
    <2>1. w = t * e + i /\ e \in Nat
      BY <1>1
    <2>. HIDE DEF e
    <2>2. w % t = i /\ w \div t = e
      BY <2>1, Euclid
    <2>. QED
      BY <2>2 DEF e
  <1>3. (w \div t) % d = j
    <2>1. (d * q + j) % d = j
      BY Euclid
    <2>. QED
      BY <1>2, <2>1
  <1>4. w \in Nat /\ w < t * d * p
    <2>1. d * q + d <= d * p
      BY Products
    <2>. DEFINE e == d * q + j
    <2>2. e \in Nat /\ e + 1 <= d * p
      BY <1>1, <2>1
    <2>3. t * (e + 1) <= t * (d * p)
      <3>. HIDE DEF e
      <3>. QED
        BY <2>2, Products
    <2>4. t * (e + 1) = t * e + t /\ t * (d * p) = t * d * p /\ t * e \in Nat
          /\ t * d * p \in Nat
      <3>. HIDE DEF e
      <3>. QED
        BY <2>2, Products
    <2>5. w = t * e + i
      BY <1>1
    <2>. DEFINE a == t * e
                b == t * d * p
    <2>6. a \in Nat /\ b \in Nat /\ a + t <= b /\ w = a + i
      BY <2>3, <2>4, <2>5
    <2>. HIDE DEF a, b, e
    <2>7. w \in Nat /\ w < b
      BY <2>6
    <2>. QED
      BY <2>7 DEF b
  <1>5. w \in 0 .. t * d * p - 1
    <2>. DEFINE b == t * d * p
    <2>1. b \in Nat
      BY Products
    <2>. HIDE DEF b
    <2>. QED
      BY <1>4, <2>1 DEF b
  <1>6. w \div (t * d) = q
    <2>. DEFINE u == w \div (t * d)
    <2>1. u \in 0 .. p - 1 /\ w = t * (((w \div t) % d) + d * u) + (w % t)
      <3>1. \A v \in 0 .. t * d * p - 1 :
              /\ v \div (t * d) \in 0 .. p - 1
              /\ v = t * (((v \div t) % d) + d * (v \div (t * d))) + (v % t)
        <4>. SUFFICES ASSUME NEW v \in 0 .. t * d * p - 1
                      PROVE  /\ v \div (t * d) \in 0 .. p - 1
                             /\ v = t * (((v \div t) % d) + d * (v \div (t * d))) + (v % t)
          OBVIOUS
        <4>. QED
          BY RanksOf
      <3>. QED
        BY <1>5, <3>1, Zenon
    <2>2. u \in Nat /\ t * (j + d * u) + i = t * (j + d * q) + i
      <3>1. w = t * (j + d * u) + i
        BY <1>2, <1>3, <2>1, Zenon
      <3>. HIDE DEF u
      <3>. QED
        BY <2>1, <3>1
    <2>. HIDE DEF u
    <2>3. t * (j + d * u) = t * (j + d * q)
      <3>. DEFINE a == t * (j + d * u)
                  b == t * (j + d * q)
      <3>1. a \in Int /\ b \in Int /\ a + i = b + i
        BY <2>2
      <3>. HIDE DEF a, b
      <3>2. a = b
        BY <3>1
      <3>. QED
        BY <3>2 DEF a, b
    <2>4. u < q => d * u + d <= d * q
      BY <2>2, Products
    <2>5. q < u => d * q + d <= d * u
      BY <2>2, Products
    <2>6. d * u = d * q
      <3>. DEFINE a == j + d * u
                  b == j + d * q
      <3>1. a \in Nat /\ b \in Nat /\ t * a = t * b
        BY <2>2, <2>3
      <3>2. a = b
        <4>. HIDE DEF a, b
        <4>. QED
          BY <3>1
      <3>. QED
        BY <2>2, <3>2
    <2>7. u = q
      BY <2>2, <2>4, <2>5, <2>6
    <2>. QED
      BY <2>7 DEF u
  <1>. QED
    BY <1>2, <1>3, <1>5, <1>6 DEF HasRanks

\* Of the workers that are a step apart from a first one on, how many come before worker n.
Passed(n, first, step) == IF n <= first THEN 0 ELSE (n - first - 1) \div step + 1

\* The workers a step apart are counted when they are passed, and no other.
PassedAre(n, first, step) ==
  /\ Passed(n, first, step) \in Nat
  /\ \A g \in Nat : n = first + step * g =>
       Passed(n, first, step) = g /\ Passed(n + 1, first, step) = g + 1
  /\ \/ \E g \in Nat : n = first + step * g
     \/ Passed(n + 1, first, step) = Passed(n, first, step)
  /\ \A g \in Nat : n > first + step * g => Passed(n, first, step) > g

LEMMA PassedIs ==
  ASSUME NEW n \in Nat, NEW first \in Nat, NEW step \in Nat \ {0}
  PROVE  PassedAre(n, first, step)
  <1>1. Passed(n, first, step) \in Nat
    <2>1. CASE n <= first
      BY <2>1 DEF Passed
    <2>2. CASE ~ (n <= first)
      <3>. DEFINE x == n - first - 1
      <3>1. x \in Nat
        BY <2>2
      <3>. HIDE DEF x
      <3>2. x \div step \in Nat
        BY <3>1, Divided
      <3>. QED
        BY <2>2, <3>2 DEF Passed, x
    <2>. QED
      BY <2>1, <2>2
  <1>2. ASSUME NEW g \in Nat, n = first + step * g
        PROVE  Passed(n, first, step) = g /\ Passed(n + 1, first, step) = g + 1
    <2>. DEFINE a == step * g
    <2>1. a \in Nat /\ n = first + a
      BY <1>2
    <2>2. (a + 0) \div step = g
      BY Euclid
    <2>3. Passed(n + 1, first, step) = g + 1
      <3>1. ~ (n + 1 <= first) /\ (n + 1) - first - 1 = a + 0
        <4>. HIDE DEF a
        <4>. QED
          BY <2>1
      <3>. HIDE DEF a
      <3>. QED
        BY <2>2, <3>1 DEF Passed
    <2>4. Passed(n, first, step) = g
      <3>1. CASE g = 0
        <4>1. a = 0
          BY <3>1
        <4>. HIDE DEF a
        <4>. QED
          BY <2>1, <3>1, <4>1 DEF Passed
      <3>2. CASE g # 0
        <4>. DEFINE b == step * (g - 1)
        <4>1. a = b + step /\ b \in Nat
          BY <3>2
        <4>2. (b + (step - 1)) \div step = g - 1
          BY <3>2, Euclid
        <4>. HIDE DEF a, b
        <4>3. ~ (n <= first) /\ n - first - 1 = b + (step - 1)
          BY <2>1, <4>1
        <4>4. Passed(n, first, step) = g - 1 + 1
          BY <4>2, <4>3 DEF Passed
        <4>. QED
          BY <4>4
      <3>. QED
        BY <3>1, <3>2
    <2>. QED
      BY <2>3, <2>4
  <1>3. ASSUME ~ \E g \in Nat : n = first + step * g
        PROVE  Passed(n + 1, first, step) = Passed(n, first, step)
    <2>1. CASE n <= first
      <3>1. step * 0 = 0
        OBVIOUS
      <3>2. n # first
        BY <1>3, <3>1
      <3>. QED
        BY <2>1, <3>2 DEF Passed
    <2>2. CASE ~ (n <= first)
      <3>. DEFINE x == n - first
                  g == x \div step
                  r == x % step
      <3>1. x \in Nat
        BY <2>2
      <3>2. g \in Nat /\ r \in 0 .. step - 1 /\ x = step * g + r
        <4>. HIDE DEF x
        <4>. QED
          BY <3>1, Divided
      <3>3. r # 0
        <4>1. r = 0 => n = first + step * g
          <5>. DEFINE a == step * g
          <5>1. a \in Nat /\ n - first = a + r
            BY <3>2
          <5>. HIDE DEF a, r, g
          <5>2. r = 0 => n = first + a
            BY <5>1
          <5>. QED
            BY <5>2 DEF a
        <4>. QED
          BY <1>3, <3>2, <4>1
      <3>4. r - 1 \in 0 .. step - 1 /\ x - 1 = step * g + (r - 1)
        <4>. DEFINE a == step * g
        <4>1. a \in Nat /\ x = a + r
          BY <3>2
        <4>. HIDE DEF a, r, g, x
        <4>2. r - 1 \in 0 .. step - 1 /\ x - 1 = a + (r - 1)
          BY <3>1, <3>2, <3>3, <4>1
        <4>. QED
          BY <4>2 DEF a
      <3>5. (x - 1) \div step = g
        <4>. HIDE DEF r, g, x
        <4>. QED
          BY <3>2, <3>4, Euclid
      <3>6. Passed(n, first, step) = (x - 1) \div step + 1
        BY <2>2 DEF Passed
      <3>7. Passed(n + 1, first, step) = x \div step + 1
        <4>1. ~ (n + 1 <= first) /\ n + 1 - first - 1 = n - first
          BY <2>2
        <4>. QED
          BY <4>1 DEF Passed
      <3>. QED
        BY <3>5, <3>6, <3>7
    <2>. QED
      BY <2>1, <2>2
  <1>4. ASSUME NEW g \in Nat, n > first + step * g PROVE Passed(n, first, step) > g
    <2>. DEFINE a == step * g
                x == n - first - 1
    <2>1. a \in Nat /\ x \in Nat /\ a <= x /\ ~ (n <= first)
      <3>1. a \in Nat /\ n > first + a
        BY <1>4
      <3>. HIDE DEF a
      <3>. QED
        BY <3>1
    <2>2. a \div step = g
      <3>1. (a + 0) \div step = g
        BY Euclid
      <3>. HIDE DEF a
      <3>. QED
        BY <2>1, <3>1
    <2>3. g <= x \div step /\ x \div step \in Nat
      <3>. HIDE DEF a, x
      <3>. QED
        BY <2>1, <2>2, DivGrows, Divided
    <2>4. Passed(n, first, step) = x \div step + 1
      BY <2>1 DEF Passed
    <2>. HIDE DEF x
    <2>. QED
      BY <2>3, <2>4
  <1>. QED
    BY <1>1, <1>2, <1>3, <1>4 DEF PassedAre
-----------------------------------------------------------------------------
(***************************************************************************)
(* Answers that are slices of one sequence, put together again.            *)
(***************************************************************************)

\* Where a sequence is cut: what worker n has is the part between places n and n + 1, if it is
\* one of the ranks, and nothing otherwise.
Cut(s, N, b, ranks, has) ==
  /\ b \in [0 .. N -> 0 .. Len(s)] /\ b[0] = 0
  /\ \A n \in 0 .. N - 1 :
       IF n \in ranks THEN b[n] <= b[n + 1] /\ has[n] = SubSeq(s, b[n] + 1, b[n + 1])
       ELSE b[n + 1] = b[n]

\* What Joined has gone through before it comes to worker n.
IsUpto(f, N, ranks, has) ==
  f = [n \in 0 .. N |-> IF n = 0 THEN <<>>
                        ELSE IF n - 1 \in ranks THEN f[n - 1] \o has[n - 1] ELSE f[n - 1]]

LEMMA LeastNat ==
  ASSUME NEW B \in SUBSET Nat, B # {}
  PROVE  \E n \in B : \A m \in B : n <= m
  <1>1. PICK i \in B : \A j \in B : <<j, i>> \notin OpToRel(<, Nat)
    BY NatLessThanWellFounded, WFMin
  <1>2. ASSUME NEW j \in B PROVE i <= j
    <2>1. j < i => <<j, i>> \in OpToRel(<, Nat)
      BY DEF OpToRel
    <2>2. ~ (j < i)
      BY <1>1, <2>1, Zenon
    <2>. QED
      BY <2>2
  <1>. QED
    BY <1>2

LEMMA SlicesJoin ==
  ASSUME NEW S, NEW s \in Seq(S), NEW N \in Nat, NEW b, NEW ranks, NEW has,
         Cut(s, N, b, ranks, has)
  PROVE  (CHOOSE f : IsUpto(f, N, ranks, has))[N] = SubSeq(s, 1, b[N])
  <1>. DEFINE g == [n \in 0 .. N |-> SubSeq(s, 1, b[n])]
              h == CHOOSE f : IsUpto(f, N, ranks, has)
  <1>0. \A n \in 1 .. N :
          g[n] = IF n - 1 \in ranks THEN g[n - 1] \o has[n - 1] ELSE g[n - 1]
    <2>1. \A n \in 1 .. N :
            SubSeq(s, 1, b[n]) = IF n - 1 \in ranks THEN SubSeq(s, 1, b[n - 1]) \o has[n - 1]
                                 ELSE SubSeq(s, 1, b[n - 1])
      <3>. HIDE DEF g, h
      <3>. SUFFICES ASSUME NEW n \in 1 .. N
                    PROVE  SubSeq(s, 1, b[n]) =
                             IF n - 1 \in ranks THEN SubSeq(s, 1, b[n - 1]) \o has[n - 1]
                             ELSE SubSeq(s, 1, b[n - 1])
        OBVIOUS
      <3>1. n - 1 \in 0 .. N - 1 /\ (n - 1) + 1 = n /\ n - 1 \in 0 .. N
        OBVIOUS
      <3>2. CASE n - 1 \in ranks
        <4>1. b[n - 1] \in 0 .. Len(s) /\ b[n] \in 0 .. Len(s) /\ b[n - 1] <= b[n]
              /\ has[n - 1] = SubSeq(s, b[n - 1] + 1, b[n]) /\ Len(s) \in Nat
          BY <3>1, <3>2, LenProperties DEF Cut
        <4>2. SubSeq(s, 1, b[n - 1]) \o SubSeq(s, b[n - 1] + 1, b[n]) = SubSeq(s, 1, b[n])
          <5>. DEFINE i == b[n - 1]
                      j == b[n]
          <5>. HIDE DEF i, j
          <5>1. i \in 0 .. Len(s) /\ j \in 0 .. Len(s) /\ i <= j /\ Len(s) \in Nat
            BY <4>1 DEF i, j
          <5>2. /\ SubSeq(s, 1, i) \in Seq(S) /\ Len(SubSeq(s, 1, i)) = i
                /\ \A x \in 1 .. i : SubSeq(s, 1, i)[x] = s[x]
            BY <5>1
          <5>3. /\ SubSeq(s, i + 1, j) \in Seq(S) /\ Len(SubSeq(s, i + 1, j)) = j - i
                /\ \A x \in 1 .. j - i : SubSeq(s, i + 1, j)[x] = s[x + i]
            BY <5>1
          <5>4. /\ SubSeq(s, 1, j) \in Seq(S) /\ Len(SubSeq(s, 1, j)) = j
                /\ \A x \in 1 .. j : SubSeq(s, 1, j)[x] = s[x]
            BY <5>1
          <5>. DEFINE u == SubSeq(s, 1, i)
                      v == SubSeq(s, i + 1, j)
                      w == SubSeq(s, 1, j)
          <5>. HIDE DEF u, v, w
          <5>5. u \o v \in Seq(S) /\ Len(u \o v) = j
                /\ \A x \in 1 .. j : (u \o v)[x] = IF x <= i THEN u[x] ELSE v[x - i]
            BY <5>1, <5>2, <5>3 DEF u, v
          <5>6. \A x \in 1 .. j : (u \o v)[x] = w[x]
            <6>. SUFFICES ASSUME NEW x \in 1 .. j PROVE (u \o v)[x] = w[x]
              OBVIOUS
            <6>1. w[x] = s[x]
              BY <5>4 DEF w
            <6>2. CASE x <= i
              BY <5>1, <5>2, <5>5, <6>1, <6>2 DEF u
            <6>3. CASE ~ (x <= i)
              <7>1. x - i \in 1 .. j - i /\ x - i + i = x
                BY <5>1, <6>3
              <7>2. v[x - i] = s[x - i + i]
                BY <5>3, <7>1 DEF v
              <7>. QED
                BY <5>5, <6>1, <6>3, <7>1, <7>2
            <6>. QED
              BY <6>2, <6>3
          <5>7. u \o v = w
            BY <5>4, <5>5, <5>6, SeqEqual DEF w
          <5>. QED
            BY <5>7 DEF u, v, w, i, j
        <4>. QED
          BY <3>2, <4>1, <4>2
      <3>3. CASE n - 1 \notin ranks
        BY <3>1, <3>3 DEF Cut
      <3>. QED
        BY <3>2, <3>3
    <2>2. \A n \in 1 .. N : n - 1 \in 0 .. N /\ n \in 0 .. N
      OBVIOUS
    <2>. QED
      BY <2>1, <2>2, Zenon
  <1>1. IsUpto(g, N, ranks, has)
    <2>1. ASSUME NEW n \in 0 .. N
          PROVE  g[n] = IF n = 0 THEN <<>>
                        ELSE IF n - 1 \in ranks THEN g[n - 1] \o has[n - 1] ELSE g[n - 1]
      <3>1. CASE n = 0
        <4>1. b[0] = 0
          BY DEF Cut
        <4>2. SubSeq(s, 1, 0) = <<>>
          BY SubSeqEmpty
        <4>. QED
          BY <3>1, <4>1, <4>2
      <3>2. CASE n # 0
        <4>1. n \in 1 .. N
          BY <3>2
        <4>. HIDE DEF g
        <4>. QED
          BY <1>0, <3>2, <4>1
      <3>. QED
        BY <3>1, <3>2
    <2>2. g = [n \in 0 .. N |-> g[n]]
      OBVIOUS
    <2>. HIDE DEF g
    <2>. QED
      BY <2>1, <2>2, Zenon DEF IsUpto
  <1>2. IsUpto(h, N, ranks, has)
    <2>. HIDE DEF g
    <2>. QED
      BY <1>1
  <1>. HIDE DEF h
  <1>3. \A n \in 0 .. N :
          h[n] = IF n = 0 THEN <<>>
                 ELSE IF n - 1 \in ranks THEN h[n - 1] \o has[n - 1] ELSE h[n - 1]
    BY <1>2, Zenon DEF IsUpto
  <1>. DEFINE B == {n \in 0 .. N : h[n] # g[n]}
  <1>4. B = {}
    <2>. SUFFICES ASSUME B # {} PROVE FALSE
      OBVIOUS
    <2>1. B \in SUBSET Nat
      OBVIOUS
    <2>2. PICK n \in B : \A m \in B : n <= m
      <3>. HIDE DEF B
      <3>. QED
        BY <2>1, LeastNat
    <2>3. n \in 0 .. N /\ h[n] # g[n]
      OBVIOUS
    <2>4. n # 0
      <3>1. g[0] = <<>>
        <4>1. b[0] = 0
          BY DEF Cut
        <4>2. SubSeq(s, 1, 0) = <<>>
          BY SubSeqEmpty
        <4>. QED
          BY <4>1, <4>2
      <3>2. h[0] = <<>>
        BY <1>3
      <3>. QED
        BY <2>3, <3>1, <3>2
    <2>5. n - 1 \in 0 .. N /\ n \in 1 .. N /\ n - 1 < n
      BY <2>3, <2>4
    <2>6. h[n - 1] = g[n - 1]
      <3>1. n - 1 \notin B
        BY <2>2, <2>5
      <3>. QED
        BY <2>5, <3>1
    <2>7. g[n] = IF n - 1 \in ranks THEN g[n - 1] \o has[n - 1] ELSE g[n - 1]
      BY <1>0, <2>5
    <2>8. h[n] = IF n - 1 \in ranks THEN h[n - 1] \o has[n - 1] ELSE h[n - 1]
      BY <1>3, <2>3, <2>4
    <2>. HIDE DEF g
    <2>. QED
      BY <2>3, <2>6, <2>7, <2>8
  <1>5. h[N] = g[N]
    <2>1. N \in 0 .. N
      OBVIOUS
    <2>. HIDE DEF g
    <2>. QED
      BY <1>4, <2>1, Zenon
  <1>. QED
    BY <1>5 DEF h

LEMMA JoinedIs ==
  ASSUME NEW c \in Calls, NEW S, NEW s \in Seq(S), NEW b, NEW ranks, NEW has,
         Group[c].tp * Group[c].dp * Group[c].pp \in Nat,
         Cut(s, Group[c].tp * Group[c].dp * Group[c].pp, b, ranks, has)
  PROVE  Call(c)!Joined(ranks, has) = SubSeq(s, 1, b[Group[c].tp * Group[c].dp * Group[c].pp])
  <1>. DEFINE N == Group[c].tp * Group[c].dp * Group[c].pp
  <1>1. Call(c)!Joined(ranks, has) = (CHOOSE f : IsUpto(f, N, ranks, has))[N]
    BY Zenon DEF Call!Joined, IsUpto
  <1>. HIDE DEF N
  <1>2. N \in Nat /\ Cut(s, N, b, ranks, has)
    BY DEF N
  <1>3. (CHOOSE f : IsUpto(f, N, ranks, has))[N] = SubSeq(s, 1, b[N])
    BY <1>2, SlicesJoin
  <1>. QED
    BY <1>1, <1>3 DEF N


-----------------------------------------------------------------------------
(***************************************************************************)
(* The answers that are collected, and those that are merged, are such     *)
(* slices.                                                                 *)
(***************************************************************************)

\* What a sequence is cut into for d ranks.
Slice(s, j, d) == SubSeq(s, (j * Len(s)) \div d + 1, ((j + 1) * Len(s)) \div d)

WholeCut(s, N, ranks, has) == \E b : Cut(s, N, b, ranks, has) /\ b[N] = Len(s)

\* What the ranks have that collect.
OfLastStage(s, t, d, p, ranks, has) ==
  \A n \in 0 .. t * d * p - 1 :
    /\ n \in ranks <=> n % t = 0 /\ n \div (t * d) = p - 1
    /\ n \in ranks => has[n] = Slice(s, (n \div t) % d, d)

\* The last stage's workers of tensor rank 0 have the whole sequence, in their order.
LEMMA CollectCut ==
  ASSUME NEW t \in Nat \ {0}, NEW d \in Nat \ {0}, NEW p \in Nat \ {0},
         NEW S, NEW s \in Seq(S), NEW N, N = t * d * p, NEW ranks, NEW has,
         OfLastStage(s, t, d, p, ranks, has)
  PROVE  WholeCut(s, N, ranks, has)
  <1>. DEFINE B == t * (0 + d * (p - 1))
              L == Len(s)
              b == [n \in 0 .. N |-> (Passed(n, B, t) * L) \div d]
  <1>1. N \in Nat /\ B \in Nat /\ L \in Nat /\ N = B + t * d
    <2>1. p - 1 \in Nat /\ d * (p - 1) \in Nat
      OBVIOUS
    <2>2. N \in Nat /\ B \in Nat
      BY <2>1, Products
    <2>3. t * d * p = t * (0 + d * (p - 1)) + t * d
      OBVIOUS
    <2>. QED
      BY <2>2, <2>3, LenProperties
  <1>. HIDE DEF B, L
  <1>0. ASSUME NEW n \in Nat PROVE PassedAre(n, B, t)
    BY <1>1, PassedIs
  <1>2. ASSUME NEW n \in 0 .. N PROVE Passed(n, B, t) \in 0 .. d
    <2>0. n \in Nat
      BY <1>1
    <2>1. Passed(n, B, t) \in Nat
      BY <1>0, <2>0 DEF PassedAre
    <2>2. CASE n <= B
      BY <2>2 DEF Passed
    <2>3. CASE ~ (n <= B)
      <3>. DEFINE x == n - B - 1
                  y == t * (d - 1) + (t - 1)
      <3>1. y = t * d - 1 /\ y \in Nat
        BY Products
      <3>2. x \in Nat /\ x <= y
        <4>. DEFINE m == t * d
        <4>1. m \in Nat /\ y = m - 1
          BY <3>1, Products
        <4>2. N = B + m
          BY <1>1
        <4>. HIDE DEF y, m
        <4>. QED
          BY <1>1, <2>3, <4>1, <4>2
      <3>3. y \div t = d - 1
        <4>1. d - 1 \in Int /\ t - 1 \in 0 .. t - 1
          OBVIOUS
        <4>. QED
          BY <4>1, Euclid
      <3>. HIDE DEF x, y
      <3>4. x \div t <= d - 1 /\ x \div t \in Nat
        <4>1. x \div t <= y \div t
          BY <3>1, <3>2, DivGrows
        <4>2. x \div t \in Nat
          BY <3>2, Divided
        <4>. QED
          BY <3>3, <4>1, <4>2
      <3>5. Passed(n, B, t) = x \div t + 1
        BY <2>3 DEF Passed, x
      <3>. QED
        BY <3>4, <3>5
    <2>. QED
      BY <2>2, <2>3
  <1>3. ASSUME NEW x \in 0 .. d PROVE (x * L) \div d \in 0 .. L
    <2>1. x * L \in Nat /\ d * L \in Nat /\ x * L <= d * L
      BY <1>1, Products
    <2>2. (d * L + 0) \div d = L
      BY <1>1, Euclid
    <2>. DEFINE u == x * L
                v == d * L
    <2>3. v + 0 = v
      BY <2>1
    <2>. HIDE DEF u, v
    <2>4. u \div d <= v \div d /\ u \div d \in Nat
      BY <2>1, DivGrows, Divided DEF u, v
    <2>5. v \div d = L
      BY <2>2, <2>3 DEF v
    <2>6. u \div d \in 0 .. L
      BY <1>1, <2>4, <2>5
    <2>. QED
      BY <2>6 DEF u
  <1>4. b \in [0 .. N -> 0 .. L]
    BY <1>2, <1>3
  <1>5. b[0] = 0
    <2>1. Passed(0, B, t) = 0
      BY <1>1 DEF Passed
    <2>2. 0 * L = 0 /\ (d * 0 + 0) \div d = 0 /\ d * 0 + 0 = 0
      BY <1>1, Euclid
    <2>3. 0 \in 0 .. N
      BY <1>1
    <2>. QED
      BY <2>1, <2>2, <2>3
  <1>6. b[N] = L
    <2>1. Passed(N, B, t) = d
      <3>1. N = B + t * d
        BY <1>1
      <3>. QED
        BY <1>0, <1>1, <3>1 DEF PassedAre
    <2>2. (d * L + 0) \div d = L /\ d * L + 0 = d * L
      BY <1>1, Euclid
    <2>3. N \in 0 .. N
      BY <1>1
    <2>. QED
      BY <2>1, <2>2, <2>3
  <1>7. ASSUME NEW n \in 0 .. N - 1
        PROVE  IF n \in ranks THEN b[n] <= b[n + 1] /\ has[n] = SubSeq(s, b[n] + 1, b[n + 1])
               ELSE b[n + 1] = b[n]
    <2>0. n \in 0 .. N /\ n + 1 \in 0 .. N /\ n \in Nat /\ n + 1 \in Nat
      BY <1>1
    <2>1. b[n] = (Passed(n, B, t) * L) \div d /\ b[n + 1] = (Passed(n + 1, B, t) * L) \div d
      BY <2>0
    <2>. HIDE DEF b
    <2>2. CASE n \in ranks
      <3>. DEFINE j == (n \div t) % d
      <3>1. n % t = 0 /\ n \div (t * d) = p - 1 /\ has[n] = Slice(s, j, d)
        BY <2>2 DEF OfLastStage
      <3>2. j \in 0 .. d - 1 /\ n = t * (j + d * (n \div (t * d))) + (n % t)
        <4>1. n \in 0 .. t * d * p - 1
          OBVIOUS
        <4>. QED
          BY <4>1, RanksOf
      <3>3. n = t * (j + d * (p - 1)) + 0
        BY <3>1, <3>2, Zenon
      <3>. HIDE DEF j
      <3>4. n = B + t * j /\ j \in Nat
        <4>1. t * (j + d * (p - 1)) + 0 = t * (0 + d * (p - 1)) + t * j
          BY <3>2
        <4>. QED
          BY <3>2, <3>3, <4>1 DEF B
      <3>5. Passed(n, B, t) = j /\ Passed(n + 1, B, t) = j + 1
        BY <1>0, <2>0, <3>4 DEF PassedAre
      <3>6. b[n] = (j * L) \div d /\ b[n + 1] = ((j + 1) * L) \div d
        BY <2>1, <3>5
      <3>7. (j * L) \div d <= ((j + 1) * L) \div d
        <4>1. j * L \in Nat /\ (j + 1) * L \in Nat /\ j * L <= (j + 1) * L
          BY <1>1, <3>4, Products
        <4>. DEFINE u == j * L
                    v == (j + 1) * L
        <4>. HIDE DEF u, v
        <4>2. u \div d <= v \div d
          BY <4>1, DivGrows DEF u, v
        <4>. QED
          BY <4>2 DEF u, v
      <3>8. has[n] = SubSeq(s, b[n] + 1, b[n + 1])
        BY <3>1, <3>6 DEF Slice, L
      <3>. QED
        BY <2>2, <3>6, <3>7, <3>8
    <2>3. CASE n \notin ranks
      <3>1. ~ \E g \in Nat : n = B + t * g
        <4>. SUFFICES ASSUME NEW g \in Nat, n = B + t * g PROVE FALSE
          OBVIOUS
        <4>1. g < d
          <5>1. d <= g => t * d <= t * g
            BY Products
          <5>. DEFINE x == t * d
                      y == t * g
          <5>2. x \in Nat /\ y \in Nat /\ N = B + x /\ n = B + y
            BY <1>1, Products
          <5>. HIDE DEF x, y
          <5>3. ~ (x <= y)
            BY <1>1, <5>2
          <5>. QED
            BY <5>1, <5>3 DEF x, y
        <4>2. n = t * (g + d * (p - 1)) + 0
          <5>1. t * (0 + d * (p - 1)) + t * g = t * (g + d * (p - 1)) + 0
            OBVIOUS
          <5>. QED
            BY <5>1 DEF B
        <4>3. g \in 0 .. d - 1 /\ 0 \in 0 .. t - 1 /\ p - 1 \in 0 .. p - 1
          BY <4>1
        <4>4. n % t = 0 /\ n \div (t * d) = p - 1
          <5>1. HasRanks(n, t, d, p, 0, g, p - 1)
            BY <4>2, <4>3, WorkerOf
          <5>. QED
            BY <5>1 DEF HasRanks
        <4>. QED
          BY <2>3, <4>4 DEF OfLastStage
      <3>2. Passed(n + 1, B, t) = Passed(n, B, t)
        BY <1>0, <2>0, <3>1 DEF PassedAre
      <3>. QED
        BY <2>1, <2>3, <3>2
    <2>. QED
      BY <2>2, <2>3
  <1>8. Cut(s, N, b, ranks, has)
    <2>. HIDE DEF b
    <2>. QED
      BY <1>4, <1>5, <1>7 DEF Cut, L
  <1>9. \E f : Cut(s, N, f, ranks, has) /\ f[N] = L
    <2>. HIDE DEF b
    <2>. QED
      BY <1>6, <1>8
  <1>. QED
    BY <1>9 DEF L, WholeCut

\* What the ranks have that are merged, one of each of the d \div e groups of e ranks, of size
\* rows each: those of tensor rank i and pipeline rank q, r-th in their group.
OfEachGroup(s, t, d, p, e, i, q, r, ranks, has) ==
  LET size == (Len(s) + d \div e - 1) \div (d \div e)
      Start(n) == (((n \div t) % d) \div e) * size
      End(n) == Start(n) + size
  IN \A n \in 0 .. t * d * p - 1 :
       /\ n \in ranks <=> n % t = i /\ n \div (t * d) = q /\ ((n \div t) % d) % e = r
       /\ n \in ranks =>
            has[n] = SubSeq(s, Start(n) + 1, IF End(n) <= Len(s) THEN End(n) ELSE Len(s))

\* Where a slice ends that may be cut off by the end of a sequence of length m.
Upto(x, m) == IF x <= m THEN x ELSE m

LEMMA SliceAfterEnd ==
  ASSUME NEW S, NEW s \in Seq(S), NEW x \in Nat, NEW y \in Nat, x <= y
  PROVE  /\ Upto(x, Len(s)) \in 0 .. Len(s) /\ Upto(x, Len(s)) <= Upto(y, Len(s))
         /\ SubSeq(s, x + 1, Upto(y, Len(s))) =
              SubSeq(s, Upto(x, Len(s)) + 1, Upto(y, Len(s)))
  <1>. DEFINE L == Len(s)
  <1>1. L \in Nat
    BY LenProperties
  <1>. HIDE DEF L
  <1>2. Upto(x, L) \in 0 .. L /\ Upto(x, L) <= Upto(y, L)
    BY <1>1 DEF Upto
  <1>3. CASE x <= L
    BY <1>2, <1>3 DEF Upto, L
  <1>4. CASE ~ (x <= L)
    <2>1. Upto(x, L) = L /\ Upto(y, L) = L
      BY <1>1, <1>4 DEF Upto
    <2>2. SubSeq(s, x + 1, L) = <<>> /\ SubSeq(s, L + 1, L) = <<>>
      <3>1. x + 1 \in Int /\ L + 1 \in Int /\ x + 1 > L /\ L + 1 > L
        BY <1>1, <1>4
      <3>. QED
        BY <1>1, <3>1, SubSeqEmpty
    <2>3. SubSeq(s, x + 1, Upto(y, L)) = SubSeq(s, Upto(x, L) + 1, Upto(y, L))
      BY <2>1, <2>2
    <2>. QED
      BY <1>2, <2>3 DEF L
  <1>. QED
    BY <1>3, <1>4

\* The groups have the whole sequence, in the order of the workers.
LEMMA MergeCut ==
  ASSUME NEW t \in Nat \ {0}, NEW d \in Nat \ {0}, NEW p \in Nat \ {0}, NEW e \in 1 .. d,
         NEW i \in 0 .. t - 1, NEW q \in 0 .. p - 1, NEW r \in 0 .. e - 1,
         NEW S, NEW s \in Seq(S), NEW N, N = t * d * p, NEW ranks, NEW has,
         OfEachGroup(s, t, d, p, e, i, q, r, ranks, has)
  PROVE  WholeCut(s, N, ranks, has)
  <1>. DEFINE B == t * (r + d * q) + i
              step == t * e
              L == Len(s)
              groups == d \div e
              size == (L + groups - 1) \div groups
              b == [n \in 0 .. N |-> Upto(Passed(n, B, step) * size, L)]
  <1>1. N \in Nat /\ B \in Nat /\ L \in Nat /\ step \in Nat \ {0}
    <2>1. d * q \in Nat /\ r + d * q \in Nat /\ t * (r + d * q) \in Nat
      BY Products
    <2>2. t * d * p \in Nat /\ t * e \in Nat \ {0}
      BY Products
    <2>3. L \in Nat
      BY LenProperties
    <2>. DEFINE x == t * (r + d * q)
    <2>4. x \in Nat
      BY <2>1
    <2>. HIDE DEF x
    <2>5. x + i \in Nat
      BY <2>4
    <2>. QED
      BY <2>2, <2>3, <2>5 DEF x
  <1>0. e \in Nat \ {0} /\ r \in Nat /\ r < e
    OBVIOUS
  <1>2. groups \in Nat \ {0} /\ e * groups <= d /\ d < e * groups + e /\ e * groups \in Nat
    <2>. DEFINE g == d \div e
                m == d % e
    <2>1. g \in Nat /\ m \in 0 .. e - 1 /\ d = e * g + m
      BY <1>0, Divided
    <2>2. g # 0
      BY <2>1
    <2>. HIDE DEF g, m
    <2>. DEFINE x == e * g
    <2>3. x \in Nat /\ d = x + m
      BY <2>1, Products
    <2>. HIDE DEF x
    <2>4. x <= d /\ d < x + e /\ x \in Nat
      BY <2>1, <2>3
    <2>. QED
      BY <2>1, <2>2, <2>4 DEF x, g
  <1>. HIDE DEF B, L, groups, step
  <1>3. size \in Nat /\ groups * size >= L
    <2>. DEFINE x == L + groups - 1
                m == x % groups
                y == x \div groups
    <2>1. x \in Nat
      BY <1>1, <1>2
    <2>2. y \in Nat /\ m \in 0 .. groups - 1 /\ x = groups * y + m
      <3>. HIDE DEF x
      <3>. QED
        BY <1>2, <2>1, Divided
    <2>. DEFINE z == groups * y
    <2>3. z \in Nat /\ L + groups - 1 = z + m
      <3>1. z \in Nat
        <4>. HIDE DEF y
        <4>. QED
          BY <1>2, <2>2, Products
      <3>. QED
        BY <2>2, <3>1
    <2>. HIDE DEF z, m, y
    <2>4. z >= L
      BY <1>1, <1>2, <2>2, <2>3
    <2>. QED
      BY <2>2, <2>4 DEF z, y
  <1>. HIDE DEF size
  <1>4. ASSUME NEW n \in Nat PROVE PassedAre(n, B, step)
    BY <1>1, PassedIs
  <1>5. ASSUME NEW n \in 0 .. N
        PROVE  n \in Nat /\ Passed(n, B, step) \in Nat /\ Passed(n, B, step) * size \in Nat
    <2>1. n \in Nat
      BY <1>1
    <2>2. Passed(n, B, step) \in Nat
      BY <1>4, <2>1 DEF PassedAre
    <2>. DEFINE x == Passed(n, B, step)
    <2>. HIDE DEF x
    <2>3. x * size \in Nat
      BY <1>3, <2>2, Products DEF x
    <2>. QED
      BY <2>1, <2>2, <2>3 DEF x
  <1>6. b \in [0 .. N -> 0 .. L]
    BY <1>1, <1>5 DEF Upto
  <1>7. b[0] = 0
    <2>1. Passed(0, B, step) = 0
      BY <1>1 DEF Passed
    <2>2. 0 * size = 0
      BY <1>3
    <2>3. 0 \in 0 .. N
      BY <1>1
    <2>. QED
      BY <1>1, <2>1, <2>2, <2>3 DEF Upto
  \* All groups are passed when all workers are.
  <1>8. ASSUME NEW g \in Nat, g >= groups PROVE g * size \in Nat /\ g * size >= L
    <2>1. groups * size <= g * size /\ g * size \in Nat /\ groups * size \in Nat
      BY <1>2, <1>3, <1>8, Products
    <2>. DEFINE x == groups * size
                y == g * size
    <2>2. x <= y /\ y \in Nat /\ x \in Nat /\ x >= L
      BY <1>3, <2>1
    <2>. HIDE DEF x, y
    <2>3. y >= L
      BY <1>1, <2>2
    <2>. QED
      BY <2>2, <2>3 DEF y
  \* The worker of the g-th group that is on the way.
  <1>9. ASSUME NEW g \in Nat PROVE B + step * g = t * ((r + e * g) + d * q) + i /\ r + e * g \in Nat
    <2>1. t * ((r + e * g) + d * q) = t * (r + d * q) + t * e * g
      OBVIOUS
    <2>. DEFINE x == t * (r + d * q)
                y == t * e * g
    <2>2. x \in Nat /\ y \in Nat
      <3>1. d * q \in Nat /\ r + d * q \in Nat /\ t * e \in Nat
        BY Products
      <3>. QED
        BY <3>1, Products
    <2>. HIDE DEF x, y
    <2>3. x + i + y = x + y + i
      BY <2>2
    <2>4. r + e * g \in Nat
      BY Products
    <2>. QED
      BY <2>1, <2>3, <2>4 DEF x, y, B, step
  <1>10. ASSUME NEW n, NEW g \in Nat, n = B + step * g, r + e * g < d
         PROVE  HasRanks(n, t, d, p, i, r + e * g, q)
    <2>1. r + e * g \in 0 .. d - 1
      <3>. DEFINE j == r + e * g
      <3>1. j \in Nat /\ j < d
        BY <1>9, <1>10
      <3>. HIDE DEF j
      <3>2. j \in 0 .. d - 1
        BY <3>1
      <3>. QED
        BY <3>2 DEF j
    <2>2. n = t * ((r + e * g) + d * q) + i
      BY <1>9, <1>10
    <2>. DEFINE j == r + e * g
    <2>. HIDE DEF j
    <2>3. HasRanks(n, t, d, p, i, j, q)
      BY <2>1, <2>2, WorkerOf DEF j
    <2>. QED
      BY <2>3 DEF j
  <1>11. b[N] = L
    <2>. DEFINE g == groups - 1
    <2>1. g \in Nat
      BY <1>2
    <2>2. r + e * g < d
      <3>1. e * groups = e * g + e /\ e * g \in Nat
        <4>1. e * groups = e * (groups - 1) + e
          BY <1>2
        <4>. HIDE DEF g
        <4>2. e * g \in Nat
          BY <1>0, <2>1, Products
        <4>. QED
          BY <4>1, <4>2 DEF g
      <3>. DEFINE x == e * g
                  y == e * groups
      <3>2. x \in Nat /\ y \in Nat /\ y = x + e /\ y <= d
        BY <1>2, <3>1
      <3>. HIDE DEF x, y
      <3>3. r + x < d
        BY <3>2
      <3>. QED
        BY <3>3 DEF x
    <2>3. B + step * g \in 0 .. N - 1
      <3>. HIDE DEF g
      <3>1. HasRanks(B + step * g, t, d, p, i, r + e * g, q)
        BY <1>10, <2>1, <2>2
      <3>. QED
        BY <3>1 DEF HasRanks
    <2>4. N > B + step * g
      <3>. DEFINE x == B + step * g
      <3>. HIDE DEF x
      <3>1. N > x
        BY <1>1, <2>3 DEF x
      <3>. QED
        BY <3>1 DEF x
    <2>5. Passed(N, B, step) > g /\ Passed(N, B, step) \in Nat
      <3>. HIDE DEF g
      <3>. QED
        BY <1>1, <1>4, <2>1, <2>4 DEF PassedAre
    <2>6. Passed(N, B, step) >= groups
      BY <1>2, <2>5
    <2>7. Passed(N, B, step) * size >= L /\ Passed(N, B, step) * size \in Nat
      BY <1>8, <2>5, <2>6
    <2>. DEFINE x == Passed(N, B, step) * size
    <2>. HIDE DEF x
    <2>8. Upto(x, L) = L
      BY <1>1, <2>7 DEF Upto, x
    <2>9. N \in 0 .. N
      BY <1>1
    <2>. QED
      BY <2>8, <2>9 DEF x
  <1>12. ASSUME NEW n \in 0 .. N - 1
         PROVE  IF n \in ranks THEN b[n] <= b[n + 1] /\ has[n] = SubSeq(s, b[n] + 1, b[n + 1])
                ELSE b[n + 1] = b[n]
    <2>0. n \in 0 .. N /\ n + 1 \in 0 .. N /\ n \in Nat
      BY <1>1
    <2>1. /\ b[n] = Upto(Passed(n, B, step) * size, L)
          /\ b[n + 1] = Upto(Passed(n + 1, B, step) * size, L)
      BY <2>0
    <2>. HIDE DEF b
    <2>2. CASE n \in ranks
      <3>. DEFINE j == (n \div t) % d
                  g == j \div e
      <3>1. n % t = i /\ n \div (t * d) = q /\ j % e = r
        BY <2>2 DEF OfEachGroup
      <3>2. has[n] = SubSeq(s, g * size + 1, Upto(g * size + size, L))
        BY <2>2 DEF OfEachGroup, Upto, L, size, groups
      <3>3. j \in 0 .. d - 1 /\ n = t * (j + d * (n \div (t * d))) + (n % t)
        <4>1. n \in 0 .. t * d * p - 1
          OBVIOUS
        <4>. QED
          BY <4>1, RanksOf
      <3>4. n = t * (j + d * q) + i
        BY <3>1, <3>3, Zenon
      <3>. HIDE DEF j
      <3>5. g \in Nat /\ j = r + e * g
        <4>0. j \in Nat
          BY <3>3
        <4>1. g \in Nat /\ j = e * g + (j % e)
          BY <1>0, <4>0, Divided
        <4>. DEFINE x == e * g
        <4>2. x \in Nat /\ j = x + r
          <5>1. x \in Nat
            <6>. HIDE DEF g
            <6>. QED
              BY <1>0, <4>1, Products
          <5>. HIDE DEF x
          <5>. QED
            BY <3>1, <4>1, <5>1 DEF x
        <4>. HIDE DEF x
        <4>3. j = r + x
          BY <4>2
        <4>. QED
          BY <4>1, <4>3 DEF x
      <3>. HIDE DEF g
      <3>6. n = B + step * g
        BY <1>9, <3>4, <3>5
      <3>7. Passed(n, B, step) = g /\ Passed(n + 1, B, step) = g + 1
        BY <1>4, <2>0, <3>5, <3>6 DEF PassedAre
      <3>8. (g + 1) * size = g * size + size /\ g * size \in Nat
        BY <1>3, <3>5, Products
      <3>. DEFINE x == g * size
                  y == g * size + size
      <3>9. x \in Nat /\ y \in Nat /\ x <= y
        <4>1. x \in Nat /\ y = x + size
          BY <3>8
        <4>. HIDE DEF x, y
        <4>. QED
          BY <1>3, <4>1
      <3>10. b[n] = Upto(x, L) /\ b[n + 1] = Upto(y, L) /\ has[n] = SubSeq(s, x + 1, Upto(y, L))
        BY <2>1, <3>2, <3>7, <3>8
      <3>. HIDE DEF x, y
      <3>11. Upto(x, L) <= Upto(y, L)
             /\ SubSeq(s, x + 1, Upto(y, L)) = SubSeq(s, Upto(x, L) + 1, Upto(y, L))
        BY <3>9, SliceAfterEnd DEF L
      <3>. QED
        BY <2>2, <3>10, <3>11
    <2>3. CASE n \notin ranks
      <3>1. CASE \E g \in Nat : n = B + step * g
        <4>. PICK g \in Nat : n = B + step * g
          BY <3>1
        <4>1. ~ (r + e * g < d)
          <5>. SUFFICES ASSUME r + e * g < d PROVE FALSE
            OBVIOUS
          <5>1. HasRanks(n, t, d, p, i, r + e * g, q)
            BY <1>10
          <5>2. (r + e * g) % e = r
            <6>1. (e * g + r) % e = r /\ e * g + r = r + e * g
              <7>1. r \in 0 .. e - 1
                OBVIOUS
              <7>2. (e * g + r) % e = r
                BY <1>0, <7>1, Euclid
              <7>. QED
                BY <7>2
            <6>. QED
              BY <6>1
          <5>. QED
            BY <2>3, <5>1, <5>2 DEF HasRanks, OfEachGroup
        <4>2. g >= groups
          <5>1. groups >= g + 1 => e * groups >= e * g + e
            <6>1. groups >= g + 1 => e * (g + 1) <= e * groups
              BY <1>2, Products
            <6>2. e * (g + 1) = e * g + e
              OBVIOUS
            <6>. DEFINE x == e * g
                        y == e * groups
                        z == e * (g + 1)
            <6>3. x \in Nat /\ y \in Nat /\ z = x + e /\ (groups >= g + 1 => z <= y)
              BY <1>2, <6>1, <6>2, Products
            <6>. HIDE DEF x, y, z
            <6>4. groups >= g + 1 => y >= x + e
              BY <6>3
            <6>. QED
              BY <6>4 DEF x, y
          <5>. DEFINE x == e * g
                      y == e * groups
          <5>2. x \in Nat /\ y \in Nat /\ y <= d /\ ~ (r + x < d)
                /\ (groups >= g + 1 => y >= x + e)
            BY <1>2, <4>1, <5>1, Products
          <5>. HIDE DEF x, y
          <5>. QED
            BY <1>2, <5>2
        <4>3. Passed(n, B, step) = g /\ Passed(n + 1, B, step) = g + 1
          BY <1>4, <2>0 DEF PassedAre
        <4>. DEFINE x == g * size
                    y == (g + 1) * size
        <4>4. x \in Nat /\ x >= L /\ y \in Nat /\ y >= L
          BY <1>2, <1>8, <4>2
        <4>5. b[n] = Upto(x, L) /\ b[n + 1] = Upto(y, L)
          BY <2>1, <4>3
        <4>. HIDE DEF x, y
        <4>6. Upto(x, L) = L /\ Upto(y, L) = L
          BY <1>1, <4>4 DEF Upto
        <4>. QED
          BY <2>3, <4>5, <4>6
      <3>2. CASE ~ \E g \in Nat : n = B + step * g
        <4>1. Passed(n + 1, B, step) = Passed(n, B, step)
          BY <1>4, <2>0, <3>2 DEF PassedAre
        <4>. QED
          BY <2>1, <2>3, <4>1
      <3>. QED
        BY <3>1, <3>2
    <2>. QED
      BY <2>2, <2>3
  <1>13. Cut(s, N, b, ranks, has)
    <2>. HIDE DEF b
    <2>. QED
      BY <1>6, <1>7, <1>12 DEF Cut, L
  <1>14. \E f : Cut(s, N, f, ranks, has) /\ f[N] = L
    <2>. HIDE DEF b
    <2>. QED
      BY <1>11, <1>13
  <1>. QED
    BY <1>14 DEF L, WholeCut

-----------------------------------------------------------------------------
(***************************************************************************)
(* A call of a worker group.                                               *)
(***************************************************************************)

LEMMA GroupSizes ==
  ASSUME NEW c \in Calls
  PROVE  /\ Group[c].tp \in Nat \ {0} /\ Group[c].dp \in Nat \ {0} /\ Group[c].pp \in Nat \ {0}
         /\ Group[c].rows \in Nat \ {0}
         /\ Group[c].tp * Group[c].dp * Group[c].pp \in Nat
  <1>1. Call(c)!DispatchAssumption
    BY MCBatchesAssumption
  <1>2. /\ Group[c].tp \in Nat \ {0} /\ Group[c].dp \in Nat \ {0} /\ Group[c].pp \in Nat \ {0}
        /\ Group[c].rows \in Nat \ {0}
    BY <1>1 DEF Call!DispatchAssumption
  <1>3. \A x, y, z \in Nat : x * y * z \in Nat
    BY Products
  <1>. QED
    BY <1>2, <1>3

\* The sizes of the data parallel group that the controller sees.
Ranks(c) == IF c = "dynamic" THEN 1 ELSE Group[c].dp
RankIn(c, w) == (w \div Group[c].tp) % Group[c].dp

LEMMA GivenIs ==
  ASSUME NEW c \in Calls, NEW w
  PROVE  Call(c)!Given(w) = Slice(padded, IF c = "dynamic" THEN 0 ELSE RankIn(c, w), Ranks(c))
  BY DEF Call!Given, Call!Chunk, Call!DpRank, Call!DpSize, Call!MpuDpRank, Slice, Ranks, RankIn

LEMMA SmallerIs ==
  ASSUME NEW c \in Calls, NEW x \in Int, NEW y \in Int
  PROVE  Call(c)!Min({x, y}) = Upto(x, y)
  BY DEF Call!Min, Upto

LEMMA ShareIs ==
  ASSUME NEW c \in Calls, NEW w
  PROVE  Call(c)!ShareOf(w) =
           IF ~ Call(c)!Splits THEN Call(c)!Given(w)
           ELSE LET groups == Group[c].dp \div cp
                    size == (Len(Call(c)!Given(w)) + groups - 1) \div groups
                    start == (RankIn(c, w) \div cp) * size
                IN SubSeq(Call(c)!Given(w), start + 1,
                          Call(c)!Min({start + size, Len(Call(c)!Given(w))}))
  BY Zenon DEF Call!ShareOf, Call!MpuDpRank, RankIn

\* Parts of sequences.
LEMMA PartOf ==
  ASSUME NEW S, NEW s \in Seq(S), NEW x \in Nat, NEW y \in Int, y <= Len(s)
  PROVE  /\ SubSeq(s, x + 1, y) \in Seq(S)
         /\ Range(SubSeq(s, x + 1, y)) \subseteq Range(s)
         /\ x <= y => /\ Len(SubSeq(s, x + 1, y)) = y - x
                      /\ \A n \in 1 .. y - x : SubSeq(s, x + 1, y)[n] = s[x + n]
  <1>1. Len(s) \in Nat
    BY LenProperties
  <1>2. CASE x <= y
    <2>1. /\ SubSeq(s, x + 1, y) \in Seq(S) /\ Len(SubSeq(s, x + 1, y)) = y - x
          /\ \A n \in 1 .. y - x : SubSeq(s, x + 1, y)[n] = s[x + n]
      BY <1>1, <1>2
    <2>2. \A n \in 1 .. y - x : x + n \in 1 .. Len(s)
      BY <1>1, <1>2
    <2>3. DOMAIN s = 1 .. Len(s) /\ DOMAIN SubSeq(s, x + 1, y) = 1 .. y - x
      BY <2>1
    <2>4. Range(SubSeq(s, x + 1, y)) \subseteq Range(s)
      BY <2>1, <2>2, <2>3 DEF Range
    <2>. QED
      BY <2>1, <2>4
  <1>3. CASE ~ (x <= y)
    <2>1. SubSeq(s, x + 1, y) = <<>>
      BY <1>1, <1>3, SubSeqEmpty
    <2>. QED
      BY <1>3, <2>1 DEF Range
  <1>. QED
    BY <1>2, <1>3

\* x is in the j-th of the d parts s is cut into.
InPart(s, j, d, x) ==
  \E n \in 1 .. Len(s) :
    (j * Len(s)) \div d < n /\ n <= ((j + 1) * Len(s)) \div d /\ x = s[n]

\* The slices of a sequence: none overlaps another.
LEMMA SlicesApart ==
  ASSUME NEW S, NEW s \in Seq(S), NEW d \in Nat \ {0}, NEW j \in 0 .. d - 1
  PROVE  /\ Slice(s, j, d) \in Seq(S) /\ Range(Slice(s, j, d)) \subseteq Range(s)
         /\ \A x \in Range(Slice(s, j, d)) : InPart(s, j, d, x)
  <1>. DEFINE L == Len(s)
              lo == (j * L) \div d
              hi == ((j + 1) * L) \div d
  <1>1. L \in Nat
    BY LenProperties
  <1>2. lo \in Nat /\ hi \in Nat /\ lo <= hi /\ hi <= L
    <2>1. j \in Nat /\ j + 1 \in Nat /\ j <= j + 1 /\ j + 1 <= d
      OBVIOUS
    <2>. HIDE DEF L
    <2>2. j * L \in Nat /\ (j + 1) * L \in Nat /\ d * L \in Nat
      BY <1>1, <2>1, Products
    <2>3. j * L <= (j + 1) * L /\ (j + 1) * L <= d * L
      BY <1>1, <2>1, Products
    <2>4. (d * L + 0) \div d = L /\ d * L + 0 = d * L
      BY <1>1, Euclid
    <2>. DEFINE u == j * L
                v == (j + 1) * L
                z == d * L
    <2>5. u \in Nat /\ v \in Nat /\ z \in Nat /\ u <= v /\ v <= z /\ z \div d = L
      BY <2>2, <2>3, <2>4
    <2>. HIDE DEF u, v, z
    <2>6. u \div d \in Nat /\ v \div d \in Nat
      BY <2>5, Divided
    <2>7. u \div d <= v \div d
      BY <2>5, DivGrows
    <2>8. v \div d <= z \div d
      BY <2>5, DivGrows
    <2>. QED
      BY <2>5, <2>6, <2>7, <2>8 DEF u, v
  <1>3. Slice(s, j, d) = SubSeq(s, lo + 1, hi)
    BY DEF Slice
  <1>. HIDE DEF L, lo, hi
  <1>4. /\ SubSeq(s, lo + 1, hi) \in Seq(S) /\ Range(SubSeq(s, lo + 1, hi)) \subseteq Range(s)
        /\ Len(SubSeq(s, lo + 1, hi)) = hi - lo
        /\ \A n \in 1 .. hi - lo : SubSeq(s, lo + 1, hi)[n] = s[lo + n]
    BY <1>1, <1>2, PartOf DEF L
  <1>5. ASSUME NEW x \in Range(SubSeq(s, lo + 1, hi))
        PROVE  \E n \in 1 .. L : lo < n /\ n <= hi /\ x = s[n]
    <2>1. PICK n \in 1 .. hi - lo : x = SubSeq(s, lo + 1, hi)[n]
      BY <1>4 DEF Range
    <2>2. lo + n \in 1 .. L /\ lo < lo + n /\ lo + n <= hi /\ x = s[lo + n]
      BY <1>1, <1>2, <1>4, <2>1
    <2>. QED
      BY <2>2
  <1>. QED
    BY <1>3, <1>4, <1>5 DEF L, lo, hi, InPart

LEMMA PaddedIs ==
  ASSUME NEW c \in Calls, NEW S, NEW s \in Seq(S), Len(s) > 0, NEW n \in Nat \ {0}
  PROVE  /\ Call(c)!Padded(s, n) \in Seq(S) /\ Range(Call(c)!Padded(s, n)) \subseteq Range(s)
         /\ Len(s) <= Len(Call(c)!Padded(s, n)) /\ Len(Call(c)!Padded(s, n)) < Len(s) + n
         /\ SubSeq(Call(c)!Padded(s, n), 1, Len(s)) = s
  <1>. DEFINE L == Len(s)
  <1>1. L \in Nat \ {0} /\ DOMAIN s = 1 .. L
    BY LenProperties
  <1>2. SubSeq(s, 1, L) = s
    <2>1. SubSeq(s, 1, L) \in Seq(S) /\ Len(SubSeq(s, 1, L)) = L
          /\ \A x \in 1 .. L : SubSeq(s, 1, L)[x] = s[x]
      BY <1>1
    <2>. QED
      BY <1>1, <2>1, SeqEqual
  <1>3. CASE L % n = 0
    <2>1. Call(c)!Padded(s, n) = s
      BY <1>3 DEF Call!Padded
    <2>. QED
      BY <1>1, <1>2, <2>1
  <1>4. CASE L % n # 0
    <2>. DEFINE m == n - (L % n)
                more == [i \in 1 .. m |-> s[((i - 1) % L) + 1]]
    <2>1. m \in 1 .. n - 1
      BY <1>1, <1>4
    <2>2. Call(c)!Padded(s, n) = s \o more
      BY <1>4 DEF Call!Padded
    <2>. HIDE DEF m
    <2>3. ASSUME NEW i \in 1 .. m PROVE ((i - 1) % L) + 1 \in 1 .. L
      <3>1. i - 1 \in Nat
        BY <2>1
      <3>2. (i - 1) % L \in 0 .. L - 1
        <4>. HIDE DEF L
        <4>. QED
          BY <1>1, <3>1, Divided
      <3>. QED
        BY <1>1, <3>2
    <2>4. more \in Seq(S) /\ Len(more) = m /\ \A i \in 1 .. m : more[i] \in Range(s)
      <3>1. \A i \in 1 .. m : more[i] = s[((i - 1) % L) + 1]
        OBVIOUS
      <3>2. \A i \in 1 .. L : s[i] \in S
        BY <1>1
      <3>3. \A i \in 1 .. m : more[i] \in S
        BY <2>3, <3>1, <3>2
      <3>4. more \in [1 .. m -> S]
        BY <2>3, <3>2
      <3>5. \A i \in 1 .. m : more[i] \in Range(s)
        BY <1>1, <2>3, <3>1 DEF Range
      <3>. HIDE DEF more
      <3>. QED
        BY <2>1, <3>4, <3>5
    <2>. HIDE DEF more
    <2>. DEFINE z == s \o more
    <2>5. /\ z \in Seq(S) /\ Len(z) = L + m
          /\ \A x \in 1 .. L + m : z[x] = IF x <= L THEN s[x] ELSE more[x - L]
      BY <2>1, <2>4, <1>1
    <2>. HIDE DEF z
    <2>6. Range(z) \subseteq Range(s)
      <3>. SUFFICES ASSUME NEW x \in 1 .. L + m PROVE z[x] \in Range(s)
        BY <1>1, <2>1, <2>5 DEF Range
      <3>1. CASE x <= L
        BY <1>1, <2>5, <3>1 DEF Range
      <3>2. CASE ~ (x <= L)
        <4>1. x - L \in 1 .. m
          BY <1>1, <2>1, <3>2
        <4>. QED
          BY <2>4, <2>5, <3>2, <4>1
      <3>. QED
        BY <3>1, <3>2
    <2>7. SubSeq(z, 1, L) = s
      <3>1. SubSeq(z, 1, L) \in Seq(S) /\ Len(SubSeq(z, 1, L)) = L
            /\ \A x \in 1 .. L : SubSeq(z, 1, L)[x] = z[x]
        BY <1>1, <2>1, <2>5
      <3>2. \A x \in 1 .. L : z[x] = s[x]
        BY <1>1, <2>1, <2>5
      <3>3. \A x \in 1 .. L : SubSeq(z, 1, L)[x] = s[x]
        BY <3>1, <3>2
      <3>. QED
        BY <1>1, <3>1, <3>3, SeqEqual
    <2>. QED
      BY <1>1, <2>1, <2>2, <2>5, <2>6, <2>7 DEF z
  <1>. QED
    BY <1>3, <1>4

-----------------------------------------------------------------------------
(***************************************************************************)
(* What is always so in a call.                                            *)
(***************************************************************************)

Ordered(s) == \A x, y \in DOMAIN s : s[x] = s[y] => x = y

\* The rows that a call sends.
RowsSent(c) == IF c = "padded" THEN Call(c)!Padded(batch, Group[c].dp) ELSE batch

BatchOf(c) ==
  /\ phase \in {"caller", "called", "collected", "returned", "refused"}
  /\ batch \in Seq(1 .. Group[c].rows) /\ Len(batch) > 0 /\ Ordered(batch)
  /\ parts # <<>> => /\ c = "balanced"
                     /\ parts = [e \in 1 .. Group[c].dp |-> Range(Slice(batch, e - 1, Group[c].dp))]
  /\ phase = "caller" => padded = <<>>
  /\ phase # "caller" => padded = RowsSent(c) /\ cp \in 1 .. Group[c].dp

WorkOf(c) ==
  /\ done \in [Call(c)!Workers -> Seq(Int)] /\ answers \in [Call(c)!Workers -> Seq(Int)]
  /\ \A w \in Call(c)!Workers :
       /\ done[w] # << 0 >> => phase # "caller" /\ done[w] = Call(c)!ShareOf(w)
       /\ answers[w] # << 0 >> => phase # "caller" /\ answers[w] = Call(c)!Given(w)

OutputOf(c) ==
  c # "dynamic" => /\ phase = "collected" => output = padded
                   /\ phase = "returned" => output = batch

CallInv(c) == BatchOf(c) /\ WorkOf(c) /\ OutputOf(c)

WorkersOf(c) == 0 .. Group[c].tp * Group[c].dp * Group[c].pp - 1

LEMMA WorkersAre ==
  ASSUME NEW c \in Calls
  PROVE  Call(c)!Workers = WorkersOf(c) /\ Call(c)!None = << 0 >>
  BY DEF Call!Workers, Call!None, WorkersOf

\* The rows that are sent are those of the batch, and begin with it.
LEMMA SentAre ==
  ASSUME NEW c \in Calls, BatchOf(c)
  PROVE  /\ RowsSent(c) \in Seq(1 .. Group[c].rows) /\ Range(RowsSent(c)) \subseteq Range(batch)
         /\ Len(batch) \in Nat /\ Len(RowsSent(c)) \in Nat
         /\ Len(batch) <= Len(RowsSent(c)) /\ Len(RowsSent(c)) < Len(batch) + Group[c].dp
         /\ SubSeq(RowsSent(c), 1, Len(batch)) = batch
  <1>. DEFINE S == 1 .. Group[c].rows
              n == Group[c].dp
  <1>1. batch \in Seq(S) /\ Len(batch) > 0 /\ Len(batch) \in Nat \ {0} /\ n \in Nat \ {0}
    <2>1. batch \in Seq(S) /\ Len(batch) > 0
      BY DEF BatchOf
    <2>2. n \in Nat \ {0}
      BY GroupSizes
    <2>. QED
      BY <2>1, <2>2, LenProperties
  <1>. HIDE DEF S, n
  <1>2. CASE c = "padded"
    <2>. DEFINE z == Call(c)!Padded(batch, n)
    <2>1. /\ z \in Seq(S) /\ Range(z) \subseteq Range(batch)
          /\ Len(batch) <= Len(z) /\ Len(z) < Len(batch) + n
          /\ SubSeq(z, 1, Len(batch)) = batch
      BY <1>1, PaddedIs
    <2>2. RowsSent(c) = z
      BY <1>2 DEF RowsSent, n
    <2>. HIDE DEF z
    <2>3. Len(z) \in Nat
      BY <2>1, LenProperties
    <2>. QED
      BY <1>1, <2>1, <2>2, <2>3 DEF S, n
  <1>3. CASE c # "padded"
    <2>1. RowsSent(c) = batch
      BY <1>3 DEF RowsSent
    <2>2. SubSeq(batch, 1, Len(batch)) = batch
      BY <1>1, SubSeqFull
    <2>. QED
      BY <1>1, <2>1, <2>2 DEF S, n
  <1>. QED
    BY <1>2, <1>3

\* What workers are given and what they compute.
LEMMA SharesAre ==
  ASSUME NEW c \in Calls, BatchOf(c), phase # "caller", NEW w \in WorkersOf(c)
  PROVE  /\ Call(c)!Given(w) \in Seq(1 .. Group[c].rows)
         /\ Range(Call(c)!Given(w)) \subseteq Range(batch)
         /\ Call(c)!ShareOf(w) \in Seq(1 .. Group[c].rows)
         /\ Range(Call(c)!ShareOf(w)) \subseteq Range(batch)
         /\ RankIn(c, w) \in 0 .. Group[c].dp - 1
         /\ c = "dynamic" => Call(c)!Given(w) = padded
  <1>. DEFINE S == 1 .. Group[c].rows
              d == Group[c].dp
              G == Call(c)!Given(w)
  <1>1. padded = RowsSent(c) /\ cp \in 1 .. d
    BY DEF BatchOf
  <1>2. padded \in Seq(S) /\ Range(padded) \subseteq Range(batch) /\ Len(padded) \in Nat
    BY <1>1, SentAre
  <1>3. d \in Nat \ {0} /\ Group[c].tp \in Nat \ {0} /\ Group[c].pp \in Nat \ {0}
    BY GroupSizes
  <1>4. RankIn(c, w) \in 0 .. d - 1
    <2>1. w \in 0 .. Group[c].tp * Group[c].dp * Group[c].pp - 1
      BY DEF WorkersOf
    <2>. QED
      BY <1>3, <2>1, RanksOf DEF RankIn
  <1>5. c = "dynamic" => G = padded
    <2>. SUFFICES ASSUME c = "dynamic" PROVE G = padded
      OBVIOUS
    <2>1. G = Slice(padded, 0, 1)
      BY GivenIs DEF Ranks
    <2>2. Slice(padded, 0, 1) = SubSeq(padded, 1, Len(padded))
      <3>1. (1 * 0 + 0) \div 1 = 0 /\ (1 * Len(padded) + 0) \div 1 = Len(padded)
        BY <1>2, Euclid
      <3>2. (0 * Len(padded)) \div 1 = 0 /\ ((0 + 1) * Len(padded)) \div 1 = Len(padded)
        BY <1>2, <3>1
      <3>. QED
        BY <3>2 DEF Slice
    <2>3. SubSeq(padded, 1, Len(padded)) = padded
      BY <1>2, SubSeqFull
    <2>. QED
      BY <2>1, <2>2, <2>3
  <1>. HIDE DEF S, d
  <1>6. G \in Seq(S) /\ Range(G) \subseteq Range(padded)
    <2>1. CASE c = "dynamic"
      BY <1>2, <1>5, <2>1
    <2>2. CASE c # "dynamic"
      <3>. DEFINE j == RankIn(c, w)
      <3>1. G = Slice(padded, j, d)
        BY <2>2, GivenIs DEF Ranks, d
      <3>. HIDE DEF j
      <3>. QED
        BY <1>2, <1>3, <1>4, <3>1, SlicesApart DEF j
    <2>. QED
      BY <2>1, <2>2
  <1>7. Call(c)!ShareOf(w) \in Seq(S) /\ Range(Call(c)!ShareOf(w)) \subseteq Range(padded)
    <2>1. CASE ~ Call(c)!Splits
      BY <1>6, <2>1, ShareIs
    <2>2. CASE Call(c)!Splits
      <3>. DEFINE groups == d \div cp
                  size == (Len(G) + groups - 1) \div groups
                  start == (RankIn(c, w) \div cp) * size
                  end == Call(c)!Min({start + size, Len(G)})
      <3>1. Call(c)!ShareOf(w) = SubSeq(G, start + 1, end)
        BY <2>2, ShareIs DEF d
      <3>2. Len(G) \in Nat
        BY <1>6, LenProperties
      <3>3. groups \in Nat \ {0}
        <4>1. cp \in Nat \ {0} /\ d \in Nat /\ cp <= d
          BY <1>1, <1>3
        <4>2. (cp * 1 + 0) \div cp = 1 /\ cp * 1 + 0 = cp
          BY <4>1, Euclid
        <4>3. cp \div cp <= d \div cp /\ d \div cp \in Nat
          BY <4>1, DivGrows, Divided
        <4>. QED
          BY <4>2, <4>3
      <3>. HIDE DEF groups, G
      <3>4. size \in Nat
        <4>. DEFINE x == Len(G) + groups - 1
        <4>1. x \in Nat
          BY <3>2, <3>3
        <4>. HIDE DEF x
        <4>2. x \div groups \in Nat
          BY <3>3, <4>1, Divided
        <4>. QED
          BY <4>2 DEF x
      <3>. HIDE DEF size
      <3>5. start \in Nat
        <4>1. RankIn(c, w) \in Nat /\ cp \in Nat \ {0}
          BY <1>1, <1>3, <1>4
        <4>2. RankIn(c, w) \div cp \in Nat
          BY <4>1, Divided
        <4>. QED
          BY <3>4, <4>2, Products
      <3>. HIDE DEF start
      <3>6. end = Upto(start + size, Len(G))
        BY <3>2, <3>4, <3>5, SmallerIs
      <3>. HIDE DEF end
      <3>7. end \in Int /\ end <= Len(G)
        BY <3>2, <3>4, <3>5, <3>6 DEF Upto
      <3>8. /\ SubSeq(G, start + 1, end) \in Seq(S)
            /\ Range(SubSeq(G, start + 1, end)) \subseteq Range(G)
        BY <1>6, <3>5, <3>7, PartOf
      <3>. QED
        BY <1>6, <3>1, <3>8
    <2>. QED
      BY <2>1, <2>2
  <1>. QED
    BY <1>2, <1>4, <1>5, <1>6, <1>7 DEF S, d

\* The answers that are collected are those to the rows that were sent, in their order.
LEMMA CollectedIs ==
  ASSUME NEW c \in Calls, c # "dynamic", CallInv(c), phase = "called",
         \A w \in Call(c)!Workers : answers[w] # << 0 >>
  PROVE  Call(c)!Joined({w \in Call(c)!Workers : Call(c)!Collects(w)}, answers) = padded
  <1>. DEFINE t == Group[c].tp
              d == Group[c].dp
              p == Group[c].pp
              S == 1 .. Group[c].rows
              ranks == {w \in Call(c)!Workers : Call(c)!Collects(w)}
  <1>1. t \in Nat \ {0} /\ d \in Nat \ {0} /\ p \in Nat \ {0} /\ t * d * p \in Nat
    BY GroupSizes
  <1>2. padded \in Seq(S)
    <2>1. BatchOf(c) /\ padded = RowsSent(c)
      BY DEF CallInv, BatchOf
    <2>. QED
      BY <2>1, SentAre
  <1>3. OfLastStage(padded, t, d, p, ranks, answers)
    <2>. SUFFICES ASSUME NEW n \in 0 .. t * d * p - 1
                  PROVE  /\ n \in ranks <=> n % t = 0 /\ n \div (t * d) = p - 1
                         /\ n \in ranks => answers[n] = Slice(padded, (n \div t) % d, d)
      BY DEF OfLastStage
    <2>1. n \in Call(c)!Workers
      BY WorkersAre DEF WorkersOf
    <2>2. n \in ranks <=> n % t = 0 /\ n \div (t * d) = p - 1
      BY <2>1 DEF Call!Collects, Call!TpRank, Call!PpRank
    <2>3. answers[n] = Call(c)!Given(n)
      BY <2>1 DEF CallInv, WorkOf
    <2>4. Call(c)!Given(n) = Slice(padded, RankIn(c, n), d)
      BY GivenIs DEF Ranks
    <2>. QED
      BY <2>2, <2>3, <2>4 DEF RankIn
  <1>. HIDE DEF t, d, p, ranks, S
  <1>. DEFINE N == t * d * p
  <1>. HIDE DEF N
  <1>4. PICK b : Cut(padded, N, b, ranks, answers) /\ b[N] = Len(padded)
    <2>1. WholeCut(padded, N, ranks, answers)
      BY <1>1, <1>2, <1>3, CollectCut DEF N
    <2>. QED
      BY <2>1 DEF WholeCut
  <1>5. Call(c)!Joined(ranks, answers) = SubSeq(padded, 1, b[N])
    BY <1>1, <1>2, <1>4, JoinedIs DEF t, d, p, N
  <1>6. SubSeq(padded, 1, Len(padded)) = padded
    BY <1>2, SubSeqFull
  <1>. QED
    BY <1>4, <1>5, <1>6 DEF ranks

\* The answers that a worker gathers are those to all rows it was given, in their order.
LEMMA MergedIs ==
  ASSUME NEW c \in Calls, CallInv(c), phase = "called", NEW w \in Call(c)!Workers,
         IF Call(c)!Splits THEN \A v \in Call(c)!DpGroup(w) : done[v] # << 0 >>
         ELSE done[w] # << 0 >>
  PROVE  Call(c)!Merged(w) = Call(c)!Given(w)
  <1>. DEFINE t == Group[c].tp
              d == Group[c].dp
              p == Group[c].pp
              S == 1 .. Group[c].rows
  <1>1. t \in Nat \ {0} /\ d \in Nat \ {0} /\ p \in Nat \ {0} /\ t * d * p \in Nat
    BY GroupSizes
  <1>2. BatchOf(c) /\ padded = RowsSent(c) /\ cp \in 1 .. d
    BY DEF CallInv, BatchOf
  <1>3. padded \in Seq(S)
    BY <1>2, SentAre
  <1>4. CASE ~ Call(c)!Splits
    <2>1. Call(c)!Merged(w) = done[w] /\ done[w] # << 0 >>
      BY <1>4 DEF Call!Merged
    <2>2. done[w] = Call(c)!ShareOf(w)
      BY <2>1 DEF CallInv, WorkOf
    <2>. QED
      BY <1>4, <2>1, <2>2, ShareIs
  <1>5. CASE Call(c)!Splits
    <2>. DEFINE ranks == {v \in Call(c)!DpGroup(w) :
                            Call(c)!MpuDpRank(v) % cp = Call(c)!MpuDpRank(w) % cp}
                i == w % t
                q == w \div (t * d)
                r == RankIn(c, w) % cp
    <2>1. c = "dynamic"
      BY <1>5 DEF Call!Splits
    <2>2. Call(c)!Merged(w) = Call(c)!Joined(ranks, done)
      BY <1>5, Zenon DEF Call!Merged
    <2>3. w \in 0 .. t * d * p - 1 /\ w \in WorkersOf(c)
      BY WorkersAre DEF WorkersOf
    <2>4. i \in 0 .. t - 1 /\ q \in 0 .. p - 1 /\ RankIn(c, w) \in 0 .. d - 1
      BY <1>1, <2>3, RanksOf DEF RankIn
    <2>5. r \in 0 .. cp - 1
      <3>1. RankIn(c, w) \in Nat /\ cp \in Nat \ {0}
        BY <1>1, <1>2, <2>4
      <3>. QED
        BY <3>1, Divided
    <2>6. OfEachGroup(padded, t, d, p, cp, i, q, r, ranks, done)
      <3>. DEFINE size == (Len(padded) + d \div cp - 1) \div (d \div cp)
                  Start(n) == (((n \div t) % d) \div cp) * size
                  End(n) == Start(n) + size
      <3>. SUFFICES ASSUME NEW n \in 0 .. t * d * p - 1
             PROVE  /\ n \in ranks <=> n % t = i /\ n \div (t * d) = q /\ ((n \div t) % d) % cp = r
                    /\ n \in ranks => done[n] = SubSeq(padded, Start(n) + 1,
                                        IF End(n) <= Len(padded) THEN End(n) ELSE Len(padded))
        BY Zenon DEF OfEachGroup
      <3>1. n \in Call(c)!Workers /\ n \in WorkersOf(c)
        BY WorkersAre DEF WorkersOf
      <3>2. n \in ranks <=> n % t = i /\ n \div (t * d) = q /\ ((n \div t) % d) % cp = r
        BY <3>1 DEF Call!DpGroup, Call!TpRank, Call!PpRank, Call!MpuDpRank, RankIn
      <3>3. ASSUME n \in ranks
            PROVE  done[n] = SubSeq(padded, Start(n) + 1,
                               IF End(n) <= Len(padded) THEN End(n) ELSE Len(padded))
        <4>1. done[n] = Call(c)!ShareOf(n)
          BY <1>5, <3>1, <3>3 DEF CallInv, WorkOf
        <4>2. Call(c)!Given(n) = padded
          BY <1>2, <2>1, <3>1, SharesAre
        <4>3. Len(padded) \in Nat
          BY <1>3, LenProperties
        <4>4. Call(c)!ShareOf(n) = SubSeq(padded, Start(n) + 1, Call(c)!Min({End(n), Len(padded)}))
          BY <1>5, <4>2, ShareIs, Zenon DEF RankIn
        <4>5. End(n) \in Int
          <5>1. n \in Nat /\ n \div t \in Nat
            <6>1. n \in Nat
              BY <1>1
            <6>. QED
              BY <1>1, <6>1, Divided
          <5>. DEFINE x == n \div t
          <5>2. x % d \in Nat
            <6>1. x \in Nat /\ d \in Nat \ {0}
              BY <1>1, <5>1
            <6>. HIDE DEF x, d
            <6>2. x % d \in 0 .. d - 1
              BY <6>1, Divided
            <6>. QED
              BY <6>1, <6>2
          <5>. HIDE DEF x
          <5>. DEFINE y == x % d
          <5>. HIDE DEF y
          <5>3. y \div cp \in Nat /\ cp \in Nat \ {0} /\ d \div cp \in Nat /\ cp <= d
            <6>1. cp \in Nat \ {0} /\ cp <= d
              BY <1>1, <1>2
            <6>. QED
              BY <1>1, <5>2, <6>1, Divided DEF y
          <5>4. d \div cp \in Nat \ {0}
            <6>1. (cp * 1 + 0) \div cp = 1 /\ cp * 1 + 0 = cp
              BY <5>3, Euclid
            <6>2. cp \div cp <= d \div cp
              BY <1>1, <5>3, DivGrows
            <6>. QED
              BY <5>3, <6>1, <6>2
          <5>. DEFINE g == d \div cp
                      z == Len(padded) + g - 1
          <5>5. g \in Nat \ {0} /\ z \in Nat
            BY <4>3, <5>4
          <5>. HIDE DEF g, z
          <5>6. z \div g \in Nat
            BY <5>5, Divided
          <5>7. size = z \div g
            BY DEF z, g
          <5>8. size \in Nat
            BY <5>6, <5>7
          <5>. HIDE DEF size
          <5>9. (y \div cp) * size \in Nat
            BY <5>3, <5>8, Products
          <5>10. Start(n) = (y \div cp) * size
            BY DEF x, y
          <5>. QED
            BY <5>8, <5>9, <5>10
        <4>. HIDE DEF End
        <4>6. Call(c)!Min({End(n), Len(padded)}) = Upto(End(n), Len(padded))
          BY <4>3, <4>5, SmallerIs
        <4>. HIDE DEF Start
        <4>. QED
          BY <4>1, <4>4, <4>6 DEF Upto
      <3>. QED
        BY <3>2, <3>3
    <2>. HIDE DEF t, d, p, S, ranks, i, q, r
    <2>. DEFINE N == t * d * p
    <2>. HIDE DEF N
    <2>7. PICK b : Cut(padded, N, b, ranks, done) /\ b[N] = Len(padded)
      <3>1. WholeCut(padded, N, ranks, done)
        BY <1>1, <1>2, <1>3, <2>4, <2>5, <2>6, MergeCut DEF N
      <3>. QED
        BY <3>1 DEF WholeCut
    <2>8. Call(c)!Joined(ranks, done) = SubSeq(padded, 1, b[N])
      BY <1>1, <1>3, <2>7, JoinedIs DEF t, d, p, N
    <2>9. SubSeq(padded, 1, Len(padded)) = padded
      BY <1>3, SubSeqFull
    <2>10. Call(c)!Given(w) = padded
      BY <1>2, <2>1, <2>3, SharesAre
    <2>. QED
      BY <2>2, <2>7, <2>8, <2>9, <2>10
  <1>. QED
    BY <1>4, <1>5

LEMMA CallStarts ==
  ASSUME NEW c \in Calls, Call(c)!Init
  PROVE  CallInv(c)
  <1>1. PICK n \in 1 .. Group[c].rows : batch = [i \in 1 .. n |-> i]
    BY DEF Call!Init, Call!Row
  <1>2. n \in Nat \ {0} /\ batch \in [1 .. n -> 1 .. Group[c].rows]
    <2>1. n \in Nat \ {0}
      OBVIOUS
    <2>2. Group[c].rows \in Nat /\ n <= Group[c].rows
      BY GroupSizes
    <2>3. \A i \in 1 .. n : i \in 1 .. Group[c].rows
      BY <2>1, <2>2
    <2>. QED
      BY <1>1, <2>1, <2>3
  <1>3. batch \in Seq(1 .. Group[c].rows) /\ Len(batch) = n /\ Ordered(batch)
    BY <1>1, <1>2 DEF Ordered
  <1>4. BatchOf(c)
    <2>1. phase = "caller" /\ parts = <<>> /\ padded = <<>>
      BY DEF Call!Init
    <2>2. Len(batch) > 0
      BY <1>2, <1>3
    <2>. QED
      BY <1>3, <2>1, <2>2 DEF BatchOf
  <1>5. WorkOf(c)
    <2>1. << 0 >> \in Seq(Int)
      OBVIOUS
    <2>2. /\ done = [w \in Call(c)!Workers |-> << 0 >>]
          /\ answers = [w \in Call(c)!Workers |-> << 0 >>]
      BY WorkersAre DEF Call!Init
    <2>. QED
      BY <2>1, <2>2 DEF WorkOf
  <1>6. OutputOf(c)
    BY DEF OutputOf, Call!Init
  <1>. QED
    BY <1>4, <1>5, <1>6 DEF CallInv

\* The shares depend on nothing that changes after the call.
LEMMA SharesStay ==
  ASSUME NEW c \in Calls, padded' = padded, cp' = cp, batch' = batch
  PROVE  /\ RowsSent(c)' = RowsSent(c)
         /\ \A w : /\ Call(c)!Given(w)' = Call(c)!Given(w)
                   /\ Call(c)!ShareOf(w)' = Call(c)!ShareOf(w)
  BY DEF RowsSent, Call!Padded, Call!Given, Call!ShareOf, Call!Splits, Call!Chunk

LEMMA BalanceStep ==
  ASSUME NEW c \in Calls, CallInv(c), Call(c)!Balance
  PROVE  CallInv(c)'
  <1>. DEFINE S == 1 .. Group[c].rows
              L == Len(batch)
              d == Group[c].dp
  <1>1. BatchOf(c) /\ WorkOf(c) /\ phase = "caller" /\ phase' = phase /\ c = "balanced"
    BY DEF CallInv, Call!Balance
  <1>2. batch \in Seq(S) /\ L \in Nat \ {0} /\ DOMAIN batch = 1 .. L /\ padded = <<>>
    BY <1>1, LenProperties DEF BatchOf
  <1>3. PICK order \in Call(c)!Bijection(1 .. L, Call(c)!Range(batch)) :
          /\ batch' = order
          /\ parts' = [e \in 1 .. d |-> Call(c)!Range(Call(c)!Chunk(order, e - 1, d))]
    BY DEF Call!Balance
  <1>4. Call(c)!Range(batch) \subseteq S
    <2>1. \A x \in DOMAIN batch : batch[x] \in S
      <3>. HIDE DEF S
      <3>. QED
        BY <1>2
    <2>. QED
      BY <2>1 DEF Call!Range
  <1>. HIDE DEF S, L, d
  <1>5. order \in [1 .. L -> S] /\ Ordered(order)
    BY <1>3, <1>4 DEF Call!Bijection, Call!Injection, Call!IsInjective, Ordered
  <1>6. order \in Seq(S) /\ Len(order) = L
    BY <1>2, <1>5
  <1>7. parts' = [e \in 1 .. d |-> Range(Slice(order, e - 1, d))]
    <2>1. \A e : Call(c)!Range(Call(c)!Chunk(order, e - 1, d)) = Range(Slice(order, e - 1, d))
      BY DEF Call!Range, Range, Call!Chunk, Slice
    <2>. QED
      BY <1>3, <2>1
  <1>8. BatchOf(c)'
    BY <1>1, <1>2, <1>3, <1>5, <1>6, <1>7 DEF BatchOf, S, d, Call!Balance
  <1>9. WorkOf(c)'
    <2>1. done' = done /\ answers' = answers
      BY DEF Call!Balance
    <2>2. \A w \in Call(c)!Workers : done[w] = << 0 >> /\ answers[w] = << 0 >>
      BY <1>1 DEF WorkOf
    <2>3. Call(c)!Workers' = Call(c)!Workers
      BY DEF Call!Workers
    <2>. QED
      BY <1>1, <2>1, <2>2, <2>3 DEF WorkOf
  <1>10. OutputOf(c)'
    BY <1>1 DEF OutputOf
  <1>. QED
    BY <1>8, <1>9, <1>10 DEF CallInv

LEMMA CallerStep ==
  ASSUME NEW c \in Calls, CallInv(c), Call(c)!Call
  PROVE  CallInv(c)'
  <1>1. BatchOf(c) /\ WorkOf(c) /\ phase = "caller" /\ phase' \in {"called", "refused"}
        /\ batch' = batch /\ parts' = parts /\ done' = done /\ answers' = answers
    BY DEF CallInv, Call!Call
  <1>2. padded' = RowsSent(c)
    BY DEF Call!Call, RowsSent, Call!DpSize
  <1>3. RowsSent(c)' = RowsSent(c)
    BY <1>1 DEF RowsSent, Call!Padded
  <1>4. cp' \in 1 .. Group[c].dp
    <2>1. Group[c].dp \in Nat \ {0}
      BY GroupSizes
    <2>. QED
      BY <2>1 DEF Call!Call
  <1>5. BatchOf(c)'
    BY <1>1, <1>2, <1>3, <1>4 DEF BatchOf
  <1>6. WorkOf(c)'
    <2>2. \A w \in Call(c)!Workers : done[w] = << 0 >> /\ answers[w] = << 0 >>
      BY <1>1 DEF WorkOf
    <2>3. Call(c)!Workers' = Call(c)!Workers
      BY DEF Call!Workers
    <2>. QED
      BY <1>1, <2>2, <2>3 DEF WorkOf
  <1>7. OutputOf(c)'
    BY <1>1 DEF OutputOf
  <1>. QED
    BY <1>5, <1>6, <1>7 DEF CallInv

LEMMA ComputeStep ==
  ASSUME NEW c \in Calls, CallInv(c), NEW v \in Call(c)!Workers, Call(c)!Compute(v)
  PROVE  CallInv(c)'
  <1>1. BatchOf(c) /\ WorkOf(c) /\ phase = "called" /\ phase' = phase
        /\ batch' = batch /\ parts' = parts /\ padded' = padded /\ cp' = cp /\ output' = output
        /\ answers' = answers /\ done' = [done EXCEPT ![v] = Call(c)!ShareOf(v)]
    BY DEF CallInv, Call!Compute
  <1>2. /\ RowsSent(c)' = RowsSent(c) /\ Call(c)!Workers' = Call(c)!Workers
        /\ \A w : Call(c)!Given(w)' = Call(c)!Given(w) /\ Call(c)!ShareOf(w)' = Call(c)!ShareOf(w)
    BY <1>1, SharesStay DEF Call!Workers
  <1>3. Call(c)!ShareOf(v) \in Seq(Int)
    <2>1. v \in WorkersOf(c)
      BY WorkersAre
    <2>2. Call(c)!ShareOf(v) \in Seq(1 .. Group[c].rows)
      BY <1>1, <2>1, SharesAre
    <2>3. 1 .. Group[c].rows \subseteq Int
      OBVIOUS
    <2>. HIDE DEF Calls
    <2>. QED
      BY <2>2, <2>3, SeqMonotonic
  <1>4. BatchOf(c)'
    BY <1>1, <1>2 DEF BatchOf
  <1>5. WorkOf(c)'
    <2>1. done' \in [Call(c)!Workers -> Seq(Int)] /\ answers' \in [Call(c)!Workers -> Seq(Int)]
      BY <1>1, <1>3 DEF WorkOf
    <2>2. \A w \in Call(c)!Workers : done'[w] = IF w = v THEN Call(c)!ShareOf(v) ELSE done[w]
      BY <1>1 DEF WorkOf
    <2>3. \A w \in Call(c)!Workers : done[w] # << 0 >> => done[w] = Call(c)!ShareOf(w)
      BY <1>1 DEF WorkOf
    <2>4. \A w \in Call(c)!Workers : answers[w] # << 0 >> => answers[w] = Call(c)!Given(w)
      BY <1>1 DEF WorkOf
    <2>5. \A w \in Call(c)!Workers :
            /\ done'[w] # << 0 >> => phase' # "caller" /\ done'[w] = Call(c)!ShareOf(w)'
            /\ answers'[w] # << 0 >> => phase' # "caller" /\ answers'[w] = Call(c)!Given(w)'
      BY <1>1, <1>2, <2>2, <2>3, <2>4
    <2>. QED
      BY <1>2, <2>1, <2>5 DEF WorkOf
  <1>6. OutputOf(c)'
    BY <1>1 DEF OutputOf
  <1>. QED
    BY <1>4, <1>5, <1>6 DEF CallInv

LEMMA AnswerStep ==
  ASSUME NEW c \in Calls, CallInv(c), NEW v \in Call(c)!Workers, Call(c)!Answer(v)
  PROVE  CallInv(c)'
  <1>1. BatchOf(c) /\ WorkOf(c) /\ phase = "called" /\ phase' = phase
        /\ batch' = batch /\ parts' = parts /\ padded' = padded /\ cp' = cp /\ output' = output
        /\ done' = done /\ answers' = [answers EXCEPT ![v] = Call(c)!Merged(v)]
    BY DEF CallInv, Call!Answer
  <1>2. /\ RowsSent(c)' = RowsSent(c) /\ Call(c)!Workers' = Call(c)!Workers
        /\ \A w : Call(c)!Given(w)' = Call(c)!Given(w) /\ Call(c)!ShareOf(w)' = Call(c)!ShareOf(w)
    BY <1>1, SharesStay DEF Call!Workers
  <1>3. Call(c)!Merged(v) = Call(c)!Given(v)
    <2>1. IF Call(c)!Splits THEN \A w \in Call(c)!DpGroup(v) : done[w] # << 0 >>
          ELSE done[v] # << 0 >>
      BY WorkersAre DEF Call!Answer
    <2>. QED
      BY <1>1, <2>1, MergedIs
  <1>4. Call(c)!Given(v) \in Seq(Int)
    <2>1. v \in WorkersOf(c)
      BY WorkersAre
    <2>2. Call(c)!Given(v) \in Seq(1 .. Group[c].rows)
      BY <1>1, <2>1, SharesAre
    <2>3. 1 .. Group[c].rows \subseteq Int
      OBVIOUS
    <2>. QED
      BY <2>2, <2>3, SeqMonotonic
  <1>5. BatchOf(c)'
    BY <1>1, <1>2 DEF BatchOf
  <1>6. WorkOf(c)'
    <2>1. done' \in [Call(c)!Workers -> Seq(Int)] /\ answers' \in [Call(c)!Workers -> Seq(Int)]
      BY <1>1, <1>3, <1>4 DEF WorkOf
    <2>2. \A w \in Call(c)!Workers : answers'[w] = IF w = v THEN Call(c)!Given(v) ELSE answers[w]
      BY <1>1, <1>3 DEF WorkOf
    <2>3. \A w \in Call(c)!Workers : done[w] # << 0 >> => done[w] = Call(c)!ShareOf(w)
      BY <1>1 DEF WorkOf
    <2>4. \A w \in Call(c)!Workers : answers[w] # << 0 >> => answers[w] = Call(c)!Given(w)
      BY <1>1 DEF WorkOf
    <2>5. \A w \in Call(c)!Workers :
            /\ done'[w] # << 0 >> => phase' # "caller" /\ done'[w] = Call(c)!ShareOf(w)'
            /\ answers'[w] # << 0 >> => phase' # "caller" /\ answers'[w] = Call(c)!Given(w)'
      BY <1>1, <1>2, <2>2, <2>3, <2>4
    <2>. QED
      BY <1>2, <2>1, <2>5 DEF WorkOf
  <1>7. OutputOf(c)'
    BY <1>1 DEF OutputOf
  <1>. QED
    BY <1>5, <1>6, <1>7 DEF CallInv

\* The steps that change nothing but the output.
LEMMA OutputStep ==
  ASSUME NEW c \in Calls, CallInv(c), phase # "caller",
         phase' \in {"called", "collected", "returned", "refused"},
         UNCHANGED <<batch, parts, padded, cp, done, answers>>, OutputOf(c)'
  PROVE  CallInv(c)'
  <1>1. BatchOf(c) /\ WorkOf(c)
    BY DEF CallInv
  <1>2. /\ RowsSent(c)' = RowsSent(c) /\ Call(c)!Workers' = Call(c)!Workers
        /\ \A w : Call(c)!Given(w)' = Call(c)!Given(w) /\ Call(c)!ShareOf(w)' = Call(c)!ShareOf(w)
    BY SharesStay DEF Call!Workers
  <1>3. BatchOf(c)'
    BY <1>1, <1>2 DEF BatchOf
  <1>4. WorkOf(c)'
    BY <1>1, <1>2 DEF WorkOf
  <1>. QED
    BY <1>3, <1>4 DEF CallInv

LEMMA CollectStep ==
  ASSUME NEW c \in Calls, CallInv(c), Call(c)!Collect
  PROVE  CallInv(c)'
  <1>1. phase = "called" /\ phase' = "collected"
        /\ UNCHANGED <<batch, parts, padded, cp, done, answers>>
        /\ output' = Call(c)!Joined({w \in Call(c)!Workers : Call(c)!Collects(w)}, answers)
    BY DEF Call!Collect
  <1>2. \A w \in Call(c)!Workers : answers[w] # << 0 >>
    BY WorkersAre DEF Call!Collect
  <1>3. c # "dynamic" => output' = padded
    BY <1>1, <1>2, CollectedIs
  <1>4. OutputOf(c)'
    BY <1>1, <1>3 DEF OutputOf
  <1>. QED
    BY <1>1, <1>4, OutputStep

LEMMA ReturnStep ==
  ASSUME NEW c \in Calls, CallInv(c), Call(c)!Return
  PROVE  CallInv(c)'
  <1>1. phase = "collected" /\ phase' = "returned"
        /\ UNCHANGED <<batch, parts, padded, cp, done, answers>>
        /\ output' = SubSeq(output, 1, Len(output) - (Len(padded) - Len(batch)))
    BY DEF Call!Return
  <1>2. BatchOf(c) /\ padded = RowsSent(c)
    BY <1>1 DEF CallInv, BatchOf
  <1>3. Len(batch) \in Nat /\ Len(padded) \in Nat /\ SubSeq(padded, 1, Len(batch)) = batch
    BY <1>2, SentAre
  <1>4. Len(padded) - (Len(padded) - Len(batch)) = Len(batch)
    BY <1>3
  <1>5. c # "dynamic" => output = padded
    BY <1>1 DEF CallInv, OutputOf
  <1>6. c # "dynamic" => output' = batch
    BY <1>1, <1>3, <1>4, <1>5, Zenon
  <1>7. OutputOf(c)'
    BY <1>1, <1>6 DEF OutputOf
  <1>. QED
    BY <1>1, <1>7, OutputStep

LEMMA CallSteps ==
  ASSUME NEW c \in Calls, CallInv(c), Call(c)!Next
  PROVE  CallInv(c)'
  <1>1. CASE Call(c)!Balance
    BY <1>1, BalanceStep
  <1>2. CASE Call(c)!Call
    BY <1>2, CallerStep
  <1>3. CASE Call(c)!Collect
    BY <1>3, CollectStep
  <1>4. CASE Call(c)!Return
    BY <1>4, ReturnStep
  <1>5. CASE \E w \in Call(c)!Workers : Call(c)!Compute(w) \/ Call(c)!Answer(w)
    BY <1>5, ComputeStep, AnswerStep
  <1>. QED
    BY <1>1, <1>2, <1>3, <1>4, <1>5 DEF Call!Next

LEMMA CallStays ==
  ASSUME NEW c \in Calls, CallInv(c), UNCHANGED callVars
  PROVE  CallInv(c)'
  <1>1. UNCHANGED <<phase, batch, parts, padded, cp, done, answers, output>>
    BY DEF callVars
  <1>2. /\ RowsSent(c)' = RowsSent(c) /\ Call(c)!Workers' = Call(c)!Workers
        /\ \A w : Call(c)!Given(w)' = Call(c)!Given(w) /\ Call(c)!ShareOf(w)' = Call(c)!ShareOf(w)
    BY <1>1, SharesStay DEF Call!Workers
  <1>3. BatchOf(c)' /\ WorkOf(c)' /\ OutputOf(c)'
    BY <1>1, <1>2 DEF CallInv, BatchOf, WorkOf, OutputOf
  <1>. QED
    BY <1>3 DEF CallInv

-----------------------------------------------------------------------------
(* What the invariant says of a call. *)

LEMMA CallTyped ==
  ASSUME NEW c \in Calls, CallInv(c)
  PROVE  Call(c)!TypeOK
  <1>. DEFINE S == 1 .. Group[c].rows
  <1>1. BatchOf(c) /\ WorkOf(c) /\ batch \in Seq(S) /\ Len(batch) \in Nat /\ Len(batch) > 0
        /\ Group[c].dp \in Nat \ {0}
    BY GroupSizes, LenProperties DEF CallInv, BatchOf
  <1>2. Range(batch) \subseteq S
    <2>. HIDE DEF S
    <2>. QED
      BY <1>1, RangeOfSeq
  <1>3. Range(padded) \subseteq S /\ Len(padded) < Len(batch) + Group[c].dp
    <2>1. CASE phase = "caller"
      <3>1. padded = <<>>
        BY <1>1, <2>1 DEF BatchOf
      <3>. QED
        BY <1>1, <3>1 DEF Range
    <2>2. CASE phase # "caller"
      <3>1. padded = RowsSent(c)
        BY <1>1, <2>2 DEF BatchOf
      <3>2. Range(RowsSent(c)) \subseteq Range(batch) /\ Len(RowsSent(c)) < Len(batch) + Group[c].dp
        BY <1>1, SentAre
      <3>. QED
        BY <1>2, <3>1, <3>2
    <2>. QED
      BY <2>1, <2>2
  <1>4. ASSUME NEW w \in Call(c)!Workers, done[w] # << 0 >>
        PROVE  Range(done[w]) \subseteq Range(batch)
    <2>1. phase # "caller" /\ done[w] = Call(c)!ShareOf(w) /\ w \in WorkersOf(c)
      BY <1>1, <1>4, WorkersAre DEF WorkOf
    <2>. QED
      BY <1>1, <2>1, SharesAre
  <1>5. phase \in {"caller", "called", "collected", "returned", "refused"}
    BY <1>1 DEF BatchOf
  <1>6. \A f : Call(c)!Range(f) = Range(f)
    BY DEF Call!Range, Range
  <1>7. Call(c)!Row = S /\ Call(c)!None = << 0 >>
    BY DEF Call!Row, Call!None
  <1>. HIDE DEF S
  <1>. QED
    BY <1>1, <1>3, <1>4, <1>5, <1>6, <1>7 DEF Call!TypeOK

\* The workers of one rank are given the same rows, and those of two ranks none in common.
LEMMA RowsApart ==
  ASSUME NEW c \in Calls, CallInv(c)
  PROVE  Call(c)!OneRankPerRow
  <1>1. BatchOf(c) /\ WorkOf(c) /\ Group[c].dp \in Nat \ {0}
    BY GroupSizes DEF CallInv
  <1>. SUFFICES ASSUME NEW v \in Call(c)!Workers, NEW w \in Call(c)!Workers,
                       done[v] # << 0 >>, done[w] # << 0 >>
                PROVE  /\ Call(c)!MpuDpRank(v) = Call(c)!MpuDpRank(w) => done[v] = done[w]
                       /\ Call(c)!MpuDpRank(v) # Call(c)!MpuDpRank(w) /\ padded = batch
                          /\ c # "dynamic" => Range(done[v]) \cap Range(done[w]) = {}
    <2>1. \A f : Call(c)!Range(f) = Range(f)
      BY DEF Call!Range, Range
    <2>2. Call(c)!None = << 0 >>
      BY WorkersAre
    <2>. QED
      BY <2>1, <2>2 DEF Call!OneRankPerRow
  <1>2. phase # "caller" /\ done[v] = Call(c)!ShareOf(v) /\ done[w] = Call(c)!ShareOf(w)
        /\ v \in WorkersOf(c) /\ w \in WorkersOf(c)
    BY <1>1, WorkersAre DEF WorkOf
  <1>3. Call(c)!MpuDpRank(v) = RankIn(c, v) /\ Call(c)!MpuDpRank(w) = RankIn(c, w)
    BY DEF Call!MpuDpRank, RankIn
  <1>4. ASSUME RankIn(c, v) = RankIn(c, w) PROVE done[v] = done[w]
    <2>1. Call(c)!Given(v) = Call(c)!Given(w)
      BY <1>4, GivenIs
    <2>2. Call(c)!ShareOf(v) = Call(c)!ShareOf(w)
      BY <1>4, <2>1, ShareIs, Zenon
    <2>. QED
      BY <1>2, <2>2
  <1>5. ASSUME RankIn(c, v) # RankIn(c, w), padded = batch, c # "dynamic"
        PROVE  Range(done[v]) \cap Range(done[w]) = {}
    <2>. DEFINE d == Group[c].dp
                L == Len(batch)
                S == 1 .. Group[c].rows
    <2>1. ~ Call(c)!Splits
      BY <1>5 DEF Call!Splits
    <2>2. done[v] = Slice(batch, RankIn(c, v), d) /\ done[w] = Slice(batch, RankIn(c, w), d)
      BY <1>2, <1>5, <2>1, ShareIs, GivenIs DEF Ranks
    <2>3. RankIn(c, v) \in 0 .. d - 1 /\ RankIn(c, w) \in 0 .. d - 1
      BY <1>1, <1>2, SharesAre
    <2>4. batch \in Seq(S) /\ L \in Nat /\ Ordered(batch) /\ DOMAIN batch = 1 .. L
      BY <1>1, LenProperties DEF BatchOf
    <2>. HIDE DEF d, L, S
    \* Of two different ranks the rows of the lower one come first.
    <2>5. ASSUME NEW i \in 0 .. d - 1, NEW j \in 0 .. d - 1, i < j
          PROVE  Range(Slice(batch, i, d)) \cap Range(Slice(batch, j, d)) = {}
      <3>. SUFFICES ASSUME NEW x \in Range(Slice(batch, i, d)), x \in Range(Slice(batch, j, d))
                    PROVE  FALSE
        OBVIOUS
      <3>0. d \in Nat \ {0}
        BY <1>1 DEF d
      <3>7. ASSUME NEW h \in 0 .. d - 1, x \in Range(Slice(batch, h, d))
            PROVE  InPart(batch, h, d, x)
        BY <2>4, <3>0, <3>7, SlicesApart
      <3>1. PICK m \in 1 .. L : m <= ((i + 1) * L) \div d /\ x = batch[m]
        BY <3>7, Zenon DEF L, InPart
      <3>2. PICK n \in 1 .. L : (j * L) \div d < n /\ x = batch[n]
        BY <3>7, Zenon DEF L, InPart
      <3>3. m = n
        BY <2>4, <3>1, <3>2 DEF Ordered
      <3>4. ((i + 1) * L) \div d <= (j * L) \div d
        <4>1. i + 1 \in Nat /\ j \in Nat /\ i + 1 <= j
          BY <2>5
        <4>2. (i + 1) * L \in Nat /\ j * L \in Nat /\ (i + 1) * L <= j * L
          BY <2>4, <4>1, Products
        <4>. DEFINE y == (i + 1) * L
                    z == j * L
        <4>. HIDE DEF y, z
        <4>3. y \div d <= z \div d
          BY <3>0, <4>2, DivGrows DEF y, z
        <4>. QED
          BY <4>3 DEF y, z
      <3>5. ((i + 1) * L) \div d \in Int /\ (j * L) \div d \in Int
        <4>1. i + 1 \in Nat /\ j \in Nat
          OBVIOUS
        <4>2. (i + 1) * L \in Nat /\ j * L \in Nat
          BY <2>4, <4>1, Products
        <4>. DEFINE y == (i + 1) * L
                    z == j * L
        <4>. HIDE DEF y, z
        <4>3. y \div d \in Nat /\ z \div d \in Nat
          BY <3>0, <4>2, Divided DEF y, z
        <4>. QED
          BY <4>3 DEF y, z
      <3>. DEFINE a == ((i + 1) * L) \div d
                  b == (j * L) \div d
      <3>6. a \in Int /\ b \in Int /\ a <= b /\ m <= a /\ b < m
        BY <3>1, <3>2, <3>3, <3>4, <3>5
      <3>. HIDE DEF a, b
      <3>. QED
        BY <3>6
    <2>6. RankIn(c, v) < RankIn(c, w) \/ RankIn(c, w) < RankIn(c, v)
      BY <1>1, <1>5, <2>3 DEF d
    <2>. QED
      BY <2>2, <2>3, <2>5, <2>6
  <1>. QED
    BY <1>3, <1>4, <1>5

\* A worker computes the partition that was balanced for its rank.
LEMMA PartitionsOwn ==
  ASSUME NEW c \in Calls, CallInv(c)
  PROVE  Call(c)!OwnPartition
  <1>1. BatchOf(c) /\ WorkOf(c)
    BY DEF CallInv
  <1>. SUFFICES ASSUME parts # <<>>, NEW w \in Call(c)!Workers, done[w] # << 0 >>
                PROVE  Range(done[w]) = parts[RankIn(c, w) + 1]
    <2>1. \A f : Call(c)!Range(f) = Range(f)
      BY DEF Call!Range, Range
    <2>2. Call(c)!None = << 0 >>
      BY WorkersAre
    <2>3. \A w : Call(c)!MpuDpRank(w) = RankIn(c, w)
      BY DEF Call!MpuDpRank, RankIn
    <2>. QED
      BY <2>1, <2>2, <2>3 DEF Call!OwnPartition
  <1>2. phase # "caller" /\ done[w] = Call(c)!ShareOf(w) /\ w \in WorkersOf(c)
    BY <1>1, WorkersAre DEF WorkOf
  <1>3. c = "balanced"
        /\ parts = [e \in 1 .. Group[c].dp |-> Range(Slice(batch, e - 1, Group[c].dp))]
    BY <1>1 DEF BatchOf
  <1>4. padded = batch
    BY <1>1, <1>2, <1>3 DEF BatchOf, RowsSent
  <1>5. done[w] = Slice(batch, RankIn(c, w), Group[c].dp)
    <2>1. ~ Call(c)!Splits
      BY <1>3 DEF Call!Splits
    <2>. QED
      BY <1>2, <1>3, <1>4, <2>1, ShareIs, GivenIs DEF Ranks
  <1>6. RankIn(c, w) \in 0 .. Group[c].dp - 1 /\ Group[c].dp \in Nat
    BY <1>1, <1>2, SharesAre, GroupSizes
  <1>7. RankIn(c, w) + 1 \in 1 .. Group[c].dp /\ (RankIn(c, w) + 1) - 1 = RankIn(c, w)
    BY <1>6
  <1>. QED
    BY <1>3, <1>5, <1>7

-----------------------------------------------------------------------------

BatchesInv == \A c \in Calls : part = c => CallInv(c)

\* Every call of a worker group comes back as it was sent, for every size of the groups and of the
\* batch: the chunk that a rank is given, the mask of the workers that collect, the order of their
\* answers, the padding and the split and gathering of dynamic context parallelism fit together.
THEOREM AnswersReturn == MCSpec => []AnswersInPlace
  <1>1. MCInit => BatchesInv
    <2>. SUFFICES ASSUME MCInit, NEW c \in Calls, part = c PROVE CallInv(c)
      BY DEF BatchesInv
    <2>1. CASE c = "balanced"
      <3>1. Call("balanced")!Init
        BY <2>1 DEF MCInit
      <3>. QED
        BY <2>1, <3>1, CallStarts
    <2>2. CASE c = "padded"
      <3>1. Call("padded")!Init
        BY <2>2 DEF MCInit
      <3>. QED
        BY <2>2, <3>1, CallStarts
    <2>3. CASE c = "dynamic"
      <3>1. Call("dynamic")!Init
        BY <2>3 DEF MCInit
      <3>. QED
        BY <2>3, <3>1, CallStarts
    <2>. QED
      BY <2>1, <2>2, <2>3 DEF Calls
  <1>2. BatchesInv /\ [MCNext]_<<part, vars, microVars, callVars>> => BatchesInv'
    <2>. SUFFICES ASSUME BatchesInv, [MCNext]_<<part, vars, microVars, callVars>>,
                         NEW c \in Calls, part' = c
                  PROVE  CallInv(c)'
      BY DEF BatchesInv
    <2>1. part = c
      BY DEF MCNext
    <2>2. CallInv(c)
      BY <2>1 DEF BatchesInv
    <2>3. Call(c)!Next \/ UNCHANGED callVars
      BY <2>1 DEF MCNext, Calls
    <2>. QED
      BY <2>2, <2>3, CallSteps, CallStays
  <1>3. BatchesInv => AnswersInPlace
    <2>. SUFFICES ASSUME NEW c \in Calls, CallInv(c)
                  PROVE  /\ Call(c)!TypeOK /\ Call(c)!OneRankPerRow /\ Call(c)!OwnPartition
                         /\ Call(c)!MergedWhole
                         /\ c # "dynamic" => Call(c)!AnswersInPlace
      BY Zenon DEF BatchesInv, AnswersInPlace
    <2>1. Call(c)!TypeOK /\ Call(c)!OneRankPerRow /\ Call(c)!OwnPartition
      BY CallTyped, RowsApart, PartitionsOwn
    <2>2. Call(c)!MergedWhole
      BY WorkersAre DEF CallInv, WorkOf, Call!MergedWhole
    <2>3. c # "dynamic" => Call(c)!AnswersInPlace
      BY DEF CallInv, OutputOf, Call!AnswersInPlace
    <2>. QED
      BY <2>1, <2>2, <2>3
  <1>. QED
    BY <1>1, <1>2, <1>3, PTL DEF MCSpec
Taken(S) == CHOOSE x \in S : TRUE

IsSum(F, f, S) ==
  f = [s \in SUBSET S |-> IF s = {} THEN 0 ELSE F[Taken(s)] + f[s \ {Taken(s)}]]

SumTable(F, S) == CHOOSE f : IsSum(F, f, S)
SumOf(F, S) == SumTable(F, S)[S]

LEMMA SumUnfolds ==
  ASSUME NEW F, NEW f, NEW S, IsSum(F, f, S)
  PROVE  /\ f[{}] = 0
         /\ \A s \in SUBSET S : s # {} =>
              /\ Taken(s) \in s
              /\ f[s] = F[Taken(s)] + f[s \ {Taken(s)}]
  <1>1. \A s \in SUBSET S : f[s] = IF s = {} THEN 0 ELSE F[Taken(s)] + f[s \ {Taken(s)}]
    BY Zenon DEF IsSum
  <1>2. \A s : s # {} => Taken(s) \in s
    BY DEF Taken
  <1>. QED
    BY <1>1, <1>2

\* Less one element.
LEMMA OneLess ==
  ASSUME NEW S, IsFiniteSet(S), NEW x \in S
  PROVE  /\ IsFiniteSet(S \ {x}) /\ Cardinality(S) \in Nat /\ Cardinality(S \ {x}) \in Nat
         /\ Cardinality(S \ {x}) = Cardinality(S) - 1
  BY FS_RemoveElement, FS_CardinalityType

\* Of the subsets in W, if there are any and they are finite, one is smallest.
LEMMA SmallestSet ==
  ASSUME NEW W, W # {}, \A s \in W : IsFiniteSet(s)
  PROVE  \E s \in W : \A t \in W : Cardinality(s) <= Cardinality(t)
  <1>. DEFINE B == {Cardinality(s) : s \in W}
  <1>1. B \in SUBSET Nat /\ B # {}
    BY FS_CardinalityType
  <1>2. PICK n \in B : \A m \in B : n <= m
    <2>. HIDE DEF B
    <2>. QED
      BY <1>1, LeastNat
  <1>. QED
    BY <1>2

LEMMA SumsAgree ==
  ASSUME NEW F, NEW f, NEW g, NEW S, NEW T, IsSum(F, f, S), IsSum(F, g, T),
         NEW U, IsFiniteSet(U), U \subseteq S, U \subseteq T
  PROVE  f[U] = g[U]
  <1>. DEFINE W == {s \in SUBSET U : f[s] # g[s]}
  <1>. SUFFICES ASSUME W # {} PROVE FALSE
    OBVIOUS
  <1>1. PICK s \in W : \A t \in W : Cardinality(s) <= Cardinality(t)
    <2>1. \A s \in W : IsFiniteSet(s)
      BY FS_Subset
    <2>. HIDE DEF W
    <2>. QED
      BY <2>1, SmallestSet
  <1>2. s \subseteq S /\ s \subseteq T /\ IsFiniteSet(s) /\ f[s] # g[s] /\ s \subseteq U
    BY FS_Subset
  <1>3. s # {}
    BY <1>2, SumUnfolds
  <1>. DEFINE x == Taken(s)
  <1>4. /\ x \in s
        /\ f[s] = F[x] + f[s \ {x}] /\ g[s] = F[x] + g[s \ {x}]
    <2>1. x \in s /\ f[s] = F[x] + f[s \ {x}]
      <3>1. \A t \in SUBSET S : t # {} => Taken(t) \in t /\ f[t] = F[Taken(t)] + f[t \ {Taken(t)}]
        BY SumUnfolds
      <3>. QED
        BY <1>2, <1>3, <3>1
    <2>2. g[s] = F[x] + g[s \ {x}]
      BY <1>2, <1>3, SumUnfolds
    <2>. QED
      BY <2>1, <2>2
  <1>. HIDE DEF x
  <1>5. s \ {x} \in W
    BY <1>2, <1>4
  <1>6. Cardinality(s) <= Cardinality(s \ {x})
    <2>. HIDE DEF W
    <2>. QED
      BY <1>1, <1>5
  <1>. QED
    BY <1>2, <1>4, <1>6, OneLess

LEMMA SumExists ==
  ASSUME NEW F, NEW S, IsFiniteSet(S)
  PROVE  IsSum(F, SumTable(F, S), S)
  <1>. DEFINE W == {s \in SUBSET S : ~ \E f : IsSum(F, f, s)}
  <1>. SUFFICES ASSUME W # {} PROVE FALSE
    <2>1. S \notin W => \E f : IsSum(F, f, S)
      OBVIOUS
    <2>. QED
      BY <2>1, Zenon DEF SumTable
  <1>1. PICK s \in W : \A t \in W : Cardinality(s) <= Cardinality(t)
    <2>1. \A s \in W : IsFiniteSet(s)
      BY FS_Subset
    <2>. HIDE DEF W
    <2>. QED
      BY <2>1, SmallestSet
  <1>2. s \subseteq S /\ IsFiniteSet(s) /\ ~ \E f : IsSum(F, f, s)
    BY FS_Subset
  <1>3. ASSUME NEW t \in SUBSET s, t # s PROVE IsSum(F, SumTable(F, t), t)
    <2>1. Cardinality(t) < Cardinality(s)
      BY <1>2, <1>3, FS_Subset, FS_CardinalityType
    <2>2. Cardinality(t) \in Nat /\ Cardinality(s) \in Nat
      BY <1>2, FS_Subset, FS_CardinalityType
    <2>3. t \notin W
      <3>. HIDE DEF W
      <3>. QED
        BY <1>1, <2>1, <2>2
    <2>4. \E f : IsSum(F, f, t)
      BY <1>2, <2>3
    <2>. QED
      BY <2>4, Zenon DEF SumTable
  <1>. DEFINE
         G(t) == SumTable(F, t)[t]
         f == [t \in SUBSET s |-> IF t = {} THEN 0 ELSE F[Taken(t)] + G(t \ {Taken(t)})]
  <1>4. ASSUME NEW t \in SUBSET s, t # s PROVE f[t] = G(t)
    <2>1. IsFiniteSet(t)
      BY <1>2, FS_Subset
    <2>2. CASE t = {}
      BY <2>2, <1>3, <1>4, SumUnfolds
    <2>3. CASE t # {}
      <3>. DEFINE u == t \ {Taken(t)}
      <3>1. /\ Taken(t) \in t
            /\ G(t) = F[Taken(t)] + SumTable(F, t)[u]
        BY <2>3, <1>3, <1>4, SumUnfolds
      <3>2. IsFiniteSet(u) /\ u \in SUBSET s /\ u # s /\ u \subseteq t
        BY <2>1, <3>1, FS_Subset
      <3>3. SumTable(F, t)[u] = SumTable(F, u)[u]
        <4>1. IsSum(F, SumTable(F, t), t) /\ IsSum(F, SumTable(F, u), u)
          BY <1>3, <1>4, <3>2
        <4>. HIDE DEF u
        <4>. QED
          BY <4>1, <3>2, SumsAgree
      <3>4. f[t] = F[Taken(t)] + G(u)
        BY <2>3
      <3>. QED
        BY <3>1, <3>3, <3>4
    <2>. QED
      BY <2>2, <2>3
  <1>5. ASSUME NEW t \in SUBSET s, t # {} PROVE G(t \ {Taken(t)}) = f[t \ {Taken(t)}]
    <2>1. Taken(t) \in t
      BY <1>5 DEF Taken
    <2>2. t \ {Taken(t)} \in SUBSET s /\ t \ {Taken(t)} # s
      BY <2>1
    <2>. HIDE DEF f, G
    <2>. QED
      BY <1>4, <2>2
  <1>6. \A t \in SUBSET s :
          (IF t = {} THEN 0 ELSE F[Taken(t)] + G(t \ {Taken(t)}))
            = (IF t = {} THEN 0 ELSE F[Taken(t)] + f[t \ {Taken(t)}])
    <2>. HIDE DEF f, G
    <2>. QED
      BY <1>5
  <1>7. f = [t \in SUBSET s |-> IF t = {} THEN 0 ELSE F[Taken(t)] + f[t \ {Taken(t)}]]
    <2>1. f = [t \in SUBSET s |-> IF t = {} THEN 0 ELSE F[Taken(t)] + G(t \ {Taken(t)})]
      OBVIOUS
    <2>. HIDE DEF f, G
    <2>. QED
      BY <2>1, <1>6
  <1>8. IsSum(F, f, s)
    <2>. HIDE DEF f
    <2>. QED
      BY <1>7 DEF IsSum
  <1>. QED
    BY <1>2, <1>8

LEMMA SumStep ==
  ASSUME NEW F, NEW S, IsFiniteSet(S)
  PROVE  /\ SumOf(F, {}) = 0
         /\ S # {} => Taken(S) \in S /\ SumOf(F, S) = F[Taken(S)] + SumOf(F, S \ {Taken(S)})
  <1>1. SumOf(F, {}) = 0
    BY FS_EmptySet, SumExists, SumUnfolds DEF SumOf
  <1>2. ASSUME S # {}
        PROVE  Taken(S) \in S /\ SumOf(F, S) = F[Taken(S)] + SumOf(F, S \ {Taken(S)})
    <2>. DEFINE t == S \ {Taken(S)}
    <2>1. IsSum(F, SumTable(F, S), S)
      BY SumExists
    <2>2. Taken(S) \in S /\ SumOf(F, S) = F[Taken(S)] + SumTable(F, S)[t]
      BY <1>2, <2>1, SumUnfolds DEF SumOf
    <2>3. IsFiniteSet(t) /\ t \subseteq S
      BY FS_Subset
    <2>. HIDE DEF t
    <2>4. IsSum(F, SumTable(F, t), t)
      BY <2>3, SumExists
    <2>5. SumTable(F, S)[t] = SumTable(F, t)[t]
      BY <2>1, <2>3, <2>4, SumsAgree
    <2>. QED
      BY <2>2, <2>5 DEF SumOf, t
  <1>. QED
    BY <1>1, <1>2

LEMMA SumType ==
  ASSUME NEW F, NEW S, IsFiniteSet(S), \A x \in S : F[x] \in Nat
  PROVE  SumOf(F, S) \in Nat
  <1>. DEFINE W == {s \in SUBSET S : SumOf(F, s) \notin Nat}
  <1>. SUFFICES ASSUME W # {} PROVE FALSE
    OBVIOUS
  <1>1. PICK s \in W : \A t \in W : Cardinality(s) <= Cardinality(t)
    <2>1. \A s \in W : IsFiniteSet(s)
      BY FS_Subset
    <2>. HIDE DEF W
    <2>. QED
      BY <2>1, SmallestSet
  <1>2. s \subseteq S /\ IsFiniteSet(s) /\ SumOf(F, s) \notin Nat
    BY FS_Subset
  <1>3. s # {}
    <2>1. SumOf(F, {}) = 0
      BY FS_EmptySet, SumStep
    <2>. QED
      BY <1>2, <2>1
  <1>. DEFINE x == Taken(s)
  <1>4. x \in s /\ SumOf(F, s) = F[x] + SumOf(F, s \ {x})
    BY <1>2, <1>3, SumStep
  <1>. HIDE DEF x
  <1>5. F[x] \in Nat
    BY <1>2, <1>4
  <1>6. s \ {x} \in W
    BY <1>2, <1>4, <1>5
  <1>7. Cardinality(s) <= Cardinality(s \ {x})
    <2>. HIDE DEF W
    <2>. QED
      BY <1>1, <1>6
  <1>8. Cardinality(s) \in Nat /\ Cardinality(s \ {x}) = Cardinality(s) - 1
    BY <1>2, <1>4, OneLess
  <1>. QED
    BY <1>7, <1>8

AnyTaken(F, S) == \A y \in S : SumOf(F, S) = F[y] + SumOf(F, S \ {y})

\* Whichever element is taken.
LEMMA SumTakes ==
  ASSUME NEW F, NEW S, IsFiniteSet(S), \A x \in S : F[x] \in Nat
  PROVE  AnyTaken(F, S)
  <1>. SUFFICES ASSUME NEW y \in S PROVE SumOf(F, S) = F[y] + SumOf(F, S \ {y})
    BY DEF AnyTaken
  <1>. DEFINE W == {s \in SUBSET S : \E u \in s : SumOf(F, s) # F[u] + SumOf(F, s \ {u})}
  <1>. SUFFICES ASSUME W # {} PROVE FALSE
    OBVIOUS
  <1>1. PICK s \in W : \A t \in W : Cardinality(s) <= Cardinality(t)
    <2>1. \A s \in W : IsFiniteSet(s)
      BY FS_Subset
    <2>. HIDE DEF W
    <2>. QED
      BY <2>1, SmallestSet
  <1>2. s \subseteq S /\ IsFiniteSet(s)
    BY FS_Subset
  <1>3. PICK u \in s : SumOf(F, s) # F[u] + SumOf(F, s \ {u})
    OBVIOUS
  <1>. DEFINE v == Taken(s)
  <1>4. v \in s /\ SumOf(F, s) = F[v] + SumOf(F, s \ {v})
    BY <1>2, <1>3, SumStep
  <1>. HIDE DEF v
  <1>5. u # v
    BY <1>3, <1>4
  <1>6. ASSUME NEW t \in SUBSET s, NEW x \in s, x \notin t, NEW w \in t
        PROVE  SumOf(F, t) = F[w] + SumOf(F, t \ {w})
    <2>1. t # s /\ IsFiniteSet(t)
      BY <1>2, <1>6, FS_Subset
    <2>2. Cardinality(t) < Cardinality(s) /\ Cardinality(t) \in Nat /\ Cardinality(s) \in Nat
      BY <1>2, <2>1, FS_Subset, FS_CardinalityType
    <2>3. t \notin W
      <3>. HIDE DEF W
      <3>. QED
        BY <1>1, <2>2
    <2>. QED
      BY <1>2, <2>3
  <1>7. SumOf(F, s \ {v}) = F[u] + SumOf(F, (s \ {v}) \ {u})
    BY <1>4, <1>5, <1>6
  <1>8. SumOf(F, s \ {u}) = F[v] + SumOf(F, (s \ {u}) \ {v})
    BY <1>4, <1>5, <1>6
  <1>9. (s \ {v}) \ {u} = (s \ {u}) \ {v}
    OBVIOUS
  <1>10. F[u] \in Nat /\ F[v] \in Nat /\ SumOf(F, (s \ {u}) \ {v}) \in Nat
    <2>1. IsFiniteSet((s \ {u}) \ {v}) /\ \A x \in (s \ {u}) \ {v} : F[x] \in Nat
      BY <1>2, FS_Subset
    <2>2. SumOf(F, (s \ {u}) \ {v}) \in Nat
      BY <2>1, SumType
    <2>. QED
      BY <1>2, <1>4, <2>2
  <1>. DEFINE rest == SumOf(F, (s \ {u}) \ {v})
  <1>11. SumOf(F, s) = F[v] + (F[u] + rest) /\ F[u] + SumOf(F, s \ {u}) = F[u] + (F[v] + rest)
    BY <1>4, <1>7, <1>8, <1>9
  <1>12. rest \in Nat /\ F[u] \in Nat /\ F[v] \in Nat
    BY <1>10
  <1>. HIDE DEF rest
  <1>13. F[v] + (F[u] + rest) = F[u] + (F[v] + rest)
    BY <1>12
  <1>. QED
    BY <1>3, <1>11, <1>13
\* The sum of two disjoint sets.
LEMMA SumAdds ==
  ASSUME NEW F, NEW S, NEW T, IsFiniteSet(S), IsFiniteSet(T), S \cap T = {},
         \A x \in S \cup T : F[x] \in Nat
  PROVE  SumOf(F, S \cup T) = SumOf(F, S) + SumOf(F, T)
  <1>. DEFINE W == {s \in SUBSET S : SumOf(F, s \cup T) # SumOf(F, s) + SumOf(F, T)}
  <1>. SUFFICES ASSUME W # {} PROVE FALSE
    OBVIOUS
  <1>1. PICK s \in W : \A t \in W : Cardinality(s) <= Cardinality(t)
    <2>1. \A s \in W : IsFiniteSet(s)
      BY FS_Subset
    <2>. HIDE DEF W
    <2>. QED
      BY <2>1, SmallestSet
  <1>2. s \subseteq S /\ IsFiniteSet(s) /\ SumOf(F, s \cup T) # SumOf(F, s) + SumOf(F, T)
    BY FS_Subset
  <1>3. SumOf(F, T) \in Nat
    BY SumType
  <1>4. s # {}
    <2>. SUFFICES ASSUME s = {} PROVE FALSE
      OBVIOUS
    <2>1. SumOf(F, s) = 0
      BY FS_EmptySet, SumStep
    <2>2. s \cup T = T
      OBVIOUS
    <2>3. SumOf(F, s \cup T) = SumOf(F, T)
      BY <2>2, Zenon
    <2>. QED
      BY <1>2, <1>3, <2>1, <2>3
  <1>5. PICK x : x \in s
    BY <1>4
  <1>6. SumOf(F, s) = F[x] + SumOf(F, s \ {x}) /\ SumOf(F, s \ {x}) \in Nat /\ F[x] \in Nat
    <2>1. AnyTaken(F, s)
      BY <1>2, SumTakes
    <2>2. IsFiniteSet(s \ {x}) /\ \A y \in s \ {x} : F[y] \in Nat
      BY <1>2, FS_Subset
    <2>3. SumOf(F, s \ {x}) \in Nat
      BY <2>2, SumType
    <2>. QED
      BY <1>2, <1>5, <2>1, <2>3 DEF AnyTaken
  <1>7. SumOf(F, s \cup T) = F[x] + SumOf(F, (s \ {x}) \cup T)
    <2>1. IsFiniteSet(s \cup T) /\ \A y \in s \cup T : F[y] \in Nat
      BY <1>2, FS_Union
    <2>2. AnyTaken(F, s \cup T)
      BY <2>1, SumTakes
    <2>3. x \in s \cup T /\ (s \cup T) \ {x} = (s \ {x}) \cup T
      BY <1>2, <1>5
    <2>. QED
      BY <2>2, <2>3 DEF AnyTaken
  <1>8. s \ {x} \in SUBSET S /\ s \ {x} \notin W
    <2>1. Cardinality(s \ {x}) = Cardinality(s) - 1 /\ Cardinality(s) \in Nat
      BY <1>2, <1>5, OneLess
    <2>2. ~ (Cardinality(s) <= Cardinality(s) - 1)
      BY <2>1
    <2>. HIDE DEF W
    <2>3. s \ {x} \in W => Cardinality(s) <= Cardinality(s \ {x})
      BY <1>1
    <2>. QED
      BY <1>2, <2>1, <2>2, <2>3
  <1>9. SumOf(F, (s \ {x}) \cup T) = SumOf(F, s \ {x}) + SumOf(F, T)
    BY <1>8
  <1>. QED
    BY <1>2, <1>3, <1>6, <1>7, <1>9

\* What holds of every term, up to a factor, holds of the sum.
LEMMA SumScales ==
  ASSUME NEW F, NEW H, NEW S, IsFiniteSet(S), NEW c \in Nat, NEW d \in Nat,
         \A x \in S : F[x] \in Nat /\ H[x] \in Nat /\ d * F[x] <= c * H[x]
  PROVE  SumOf(F, S) \in Nat /\ SumOf(H, S) \in Nat /\ d * SumOf(F, S) <= c * SumOf(H, S)
  <1>. DEFINE W == {s \in SUBSET S : ~ (d * SumOf(F, s) <= c * SumOf(H, s))}
  <1>0. SumOf(F, S) \in Nat /\ SumOf(H, S) \in Nat
    BY SumType
  <1>. SUFFICES ASSUME W # {} PROVE FALSE
    BY <1>0
  <1>1. PICK s \in W : \A t \in W : Cardinality(s) <= Cardinality(t)
    <2>1. \A s \in W : IsFiniteSet(s)
      BY FS_Subset
    <2>. HIDE DEF W
    <2>. QED
      BY <2>1, SmallestSet
  <1>2. s \subseteq S /\ IsFiniteSet(s) /\ ~ (d * SumOf(F, s) <= c * SumOf(H, s))
    BY FS_Subset
  <1>3. s # {}
    <2>1. SumOf(F, {}) = 0 /\ SumOf(H, {}) = 0
      BY FS_EmptySet, SumStep
    <2>2. d * 0 <= c * 0
      OBVIOUS
    <2>. QED
      BY <1>2, <2>1, <2>2
  <1>. DEFINE x == Taken(s)
              u == SumOf(F, s \ {x})
              v == SumOf(H, s \ {x})
  <1>4. x \in s /\ SumOf(F, s) = F[x] + u /\ SumOf(H, s) = H[x] + v
    BY <1>2, <1>3, SumStep
  <1>. HIDE DEF x
  <1>5. IsFiniteSet(s \ {x}) /\ s \ {x} \subseteq S /\ Cardinality(s \ {x}) < Cardinality(s)
    <2>1. /\ IsFiniteSet(s \ {x}) /\ Cardinality(s) \in Nat
          /\ Cardinality(s \ {x}) = Cardinality(s) - 1
      BY <1>2, <1>4, OneLess
    <2>2. s \ {x} \subseteq S
      BY <1>2
    <2>. QED
      BY <2>1, <2>2
  <1>6. u \in Nat /\ v \in Nat
    BY <1>5, SumType
  <1>7. d * u <= c * v
    <2>1. s \ {x} \notin W
      <3>1. Cardinality(s) \in Nat /\ Cardinality(s \ {x}) \in Nat
        BY <1>2, <1>5, FS_CardinalityType
      <3>. HIDE DEF W
      <3>. QED
        BY <1>1, <1>5, <3>1
    <2>. QED
      BY <1>5, <2>1
  <1>8. F[x] \in Nat /\ H[x] \in Nat /\ d * F[x] <= c * H[x]
    BY <1>2, <1>4
  <1>. HIDE DEF u, v
  <1>9. d * (F[x] + u) = d * F[x] + d * u /\ c * (H[x] + v) = c * H[x] + c * v
    BY <1>6, <1>8
  <1>10. d * F[x] \in Nat /\ d * u \in Nat /\ c * H[x] \in Nat /\ c * v \in Nat
    BY <1>6, <1>8, Products
  <1>11. d * F[x] + d * u <= c * H[x] + c * v
    BY <1>7, <1>8, <1>10
  <1>. QED
    BY <1>2, <1>4, <1>9, <1>11

\* Two functions with the same terms have the same sum.
LEMMA SumsSame ==
  ASSUME NEW F, NEW H, NEW S, IsFiniteSet(S), \A x \in S : F[x] \in Nat /\ H[x] = F[x]
  PROVE  SumOf(F, S) = SumOf(H, S)
  <1>1. \A x \in S : F[x] \in Nat /\ H[x] \in Nat /\ 1 * F[x] <= 1 * H[x] /\ 1 * H[x] <= 1 * F[x]
    OBVIOUS
  <1>2. SumOf(F, S) \in Nat /\ SumOf(H, S) \in Nat /\ 1 * SumOf(F, S) <= 1 * SumOf(H, S)
    BY <1>1, SumScales
  <1>3. 1 * SumOf(H, S) <= 1 * SumOf(F, S)
    BY <1>1, SumScales
  <1>. QED
    BY <1>2, <1>3

\* A sum of ones.
LEMMA SumCounts ==
  ASSUME NEW F, NEW S, IsFiniteSet(S), \A x \in S : F[x] = 1
  PROVE  SumOf(F, S) = Cardinality(S)
  <1>. DEFINE W == {s \in SUBSET S : SumOf(F, s) # Cardinality(s)}
  <1>. SUFFICES ASSUME W # {} PROVE FALSE
    OBVIOUS
  <1>1. PICK s \in W : \A t \in W : Cardinality(s) <= Cardinality(t)
    <2>1. \A s \in W : IsFiniteSet(s)
      BY FS_Subset
    <2>. HIDE DEF W
    <2>. QED
      BY <2>1, SmallestSet
  <1>2. s \subseteq S /\ IsFiniteSet(s) /\ SumOf(F, s) # Cardinality(s)
    BY FS_Subset
  <1>3. s # {}
    <2>1. SumOf(F, {}) = 0 /\ Cardinality({}) = 0
      BY FS_EmptySet, SumStep
    <2>. QED
      BY <1>2, <2>1
  <1>. DEFINE x == Taken(s)
  <1>4. x \in s /\ SumOf(F, s) = F[x] + SumOf(F, s \ {x})
    BY <1>2, <1>3, SumStep
  <1>. HIDE DEF x
  <1>5. /\ IsFiniteSet(s \ {x}) /\ s \ {x} \subseteq S /\ Cardinality(s) \in Nat
        /\ Cardinality(s \ {x}) = Cardinality(s) - 1
    BY <1>2, <1>4, OneLess
  <1>6. s \ {x} \notin W
    <2>1. ~ (Cardinality(s) <= Cardinality(s \ {x}))
      BY <1>5
    <2>. HIDE DEF W
    <2>. QED
      BY <1>1, <2>1
  <1>7. SumOf(F, s \ {x}) = Cardinality(s \ {x}) /\ F[x] = 1
    BY <1>2, <1>4, <1>5, <1>6
  <1>. QED
    BY <1>2, <1>4, <1>5, <1>7

\* Terms that are all at least, or at most, m.
LEMMA SumBounded ==
  ASSUME NEW F, NEW S, IsFiniteSet(S), NEW m \in Nat, \A x \in S : F[x] \in Nat
  PROVE  /\ (\A x \in S : F[x] >= m) => Cardinality(S) * m <= SumOf(F, S)
         /\ (\A x \in S : F[x] <= m) => SumOf(F, S) <= Cardinality(S) * m
         /\ SumOf(F, S) \in Nat /\ Cardinality(S) \in Nat
  <1>. DEFINE one == [x \in S |-> 1]
  <1>1. \A x \in S : one[x] \in Nat /\ one[x] = 1
    OBVIOUS
  <1>. HIDE DEF one
  <1>2. SumOf(one, S) = Cardinality(S)
    BY <1>1, SumCounts
  <1>3. SumOf(F, S) \in Nat /\ Cardinality(S) \in Nat
    BY SumType, FS_CardinalityType
  <1>4. ASSUME \A x \in S : F[x] >= m PROVE Cardinality(S) * m <= SumOf(F, S)
    <2>1. \A x \in S : one[x] \in Nat /\ F[x] \in Nat /\ m * one[x] <= 1 * F[x]
      BY <1>1, <1>4
    <2>2. m * SumOf(one, S) <= 1 * SumOf(F, S)
      BY <2>1, SumScales
    <2>. QED
      BY <1>2, <1>3, <2>2
  <1>5. ASSUME \A x \in S : F[x] <= m PROVE SumOf(F, S) <= Cardinality(S) * m
    <2>1. \A x \in S : F[x] \in Nat /\ one[x] \in Nat /\ 1 * F[x] <= m * one[x]
      BY <1>1, <1>5
    <2>2. 1 * SumOf(F, S) <= m * SumOf(one, S)
      BY <2>1, SumScales
    <2>. QED
      BY <1>2, <1>3, <2>2
  <1>. QED
    BY <1>3, <1>4, <1>5

Whole(fam, I) == UNION {fam[i] : i \in I}

\* The sum of the sums of disjoint sets is the sum of their union.
LEMMA SumOfSums ==
  ASSUME NEW F, NEW H, NEW I, NEW fam, IsFiniteSet(I),
         \A i \in I : IsFiniteSet(fam[i]) /\ H[i] = SumOf(F, fam[i]),
         \A i \in I : \A x \in fam[i] : F[x] \in Nat,
         \A i, j \in I : i # j => fam[i] \cap fam[j] = {}
  PROVE  SumOf(H, I) = SumOf(F, Whole(fam, I))
  <1>. DEFINE all(s) == UNION {fam[i] : i \in s}
              W == {s \in SUBSET I : SumOf(H, s) # SumOf(F, all(s))}
  <1>. SUFFICES ASSUME W # {} PROVE FALSE
    BY DEF Whole
  <1>1. PICK s \in W : \A t \in W : Cardinality(s) <= Cardinality(t)
    <2>1. \A s \in W : IsFiniteSet(s)
      BY FS_Subset
    <2>. HIDE DEF W
    <2>. QED
      BY <2>1, SmallestSet
  <1>2. s \subseteq I /\ IsFiniteSet(s) /\ SumOf(H, s) # SumOf(F, all(s))
    BY FS_Subset
  <1>3. s # {}
    <2>1. SumOf(H, {}) = 0 /\ SumOf(F, {}) = 0
      BY FS_EmptySet, SumStep
    <2>2. s = {} => all(s) = {}
      OBVIOUS
    <2>. HIDE DEF all
    <2>. QED
      BY <1>2, <2>1, <2>2
  <1>. DEFINE i == Taken(s)
              rest == all(s \ {i})
  <1>4. i \in s /\ SumOf(H, s) = H[i] + SumOf(H, s \ {i})
    BY <1>2, <1>3, SumStep
  <1>. HIDE DEF i
  <1>5. IsFiniteSet(s \ {i}) /\ s \ {i} \subseteq I /\ Cardinality(s \ {i}) < Cardinality(s)
    <2>1. /\ IsFiniteSet(s \ {i}) /\ Cardinality(s) \in Nat
          /\ Cardinality(s \ {i}) = Cardinality(s) - 1
      BY <1>2, <1>4, OneLess
    <2>2. s \ {i} \subseteq I
      BY <1>2
    <2>. QED
      BY <2>1, <2>2
  <1>6. SumOf(H, s \ {i}) = SumOf(F, rest)
    <2>1. s \ {i} \notin W
      <3>1. Cardinality(s) \in Nat /\ Cardinality(s \ {i}) \in Nat
        BY <1>2, <1>5, FS_CardinalityType
      <3>. HIDE DEF W
      <3>. QED
        BY <1>1, <1>5, <3>1
    <2>. QED
      BY <1>5, <2>1
  <1>7. all(s) = fam[i] \cup rest /\ fam[i] \cap rest = {}
    BY <1>2, <1>4
  <1>8. IsFiniteSet(rest)
    <2>. DEFINE fams == {fam[j] : j \in s \ {i}}
                img == [j \in s \ {i} |-> fam[j]]
    <2>1. img \in Surjection(s \ {i}, fams)
      BY DEF Surjection
    <2>2. IsFiniteSet(fams)
      <3>. HIDE DEF img, fams
      <3>. QED
        BY <1>5, <2>1, FS_Surjection
    <2>3. \A t \in fams : IsFiniteSet(t)
      BY <1>5
    <2>. HIDE DEF fams
    <2>4. IsFiniteSet(UNION fams)
      BY <2>2, <2>3, FS_UNION
    <2>. QED
      BY <2>4 DEF fams
  <1>9. IsFiniteSet(fam[i]) /\ H[i] = SumOf(F, fam[i]) /\ \A x \in fam[i] \cup rest : F[x] \in Nat
    BY <1>2, <1>4
  <1>. HIDE DEF rest
  <1>10. SumOf(F, fam[i] \cup rest) = SumOf(F, fam[i]) + SumOf(F, rest)
    BY <1>7, <1>8, <1>9, SumAdds
  <1>. QED
    BY <1>2, <1>4, <1>6, <1>7, <1>9, <1>10

-----------------------------------------------------------------------------
(***************************************************************************)
(* Sorting by rank: below[x] are the elements of S that come before x.     *)
(***************************************************************************)

IsOrder(S, below) ==
  /\ below \in [S -> SUBSET S]
  /\ \A x \in S : x \notin below[x]
  /\ \A x, y \in S : y \in below[x] => below[y] \subseteq below[x]
  /\ \A x, y \in S : x = y \/ x \in below[y] \/ y \in below[x]

\* Every element of S once, in the order.
Sorts(seq, S, below) ==
  /\ seq \in Bijection(1 .. Cardinality(S), S)
  /\ \A i, j \in 1 .. Cardinality(S) : i < j => seq[i] \in below[seq[j]]

LEMMA Ranked ==
  ASSUME NEW S, IsFiniteSet(S), NEW below, IsOrder(S, below)
  PROVE  /\ \A x \in S : Cardinality(below[x]) \in 0 .. Cardinality(S) - 1
         /\ \A x, y \in S : Cardinality(below[x]) = Cardinality(below[y]) => x = y
         /\ \A x, y \in S : Cardinality(below[x]) < Cardinality(below[y]) => x \in below[y]
         /\ \A i \in 1 .. Cardinality(S) : \E x \in S : Cardinality(below[x]) = i - 1
  <1>. DEFINE n == Cardinality(S)
              rank == [x \in S |-> Cardinality(below[x])]
  <1>1. n \in Nat
    BY FS_CardinalityType
  <1>2. \A x \in S : IsFiniteSet(below[x]) /\ rank[x] \in Nat
    BY FS_Subset, FS_CardinalityType DEF IsOrder
  <1>3. \A x \in S : rank[x] \in 0 .. n - 1
    <2>. SUFFICES ASSUME NEW x \in S PROVE rank[x] < n
      BY <1>1, <1>2
    <2>1. below[x] \in SUBSET S /\ below[x] # S
      BY DEF IsOrder
    <2>2. Cardinality(below[x]) <= Cardinality(S) /\ Cardinality(S) # Cardinality(below[x])
      BY <2>1, FS_Subset
    <2>. QED
      BY <1>1, <1>2, <2>2
  <1>4. ASSUME NEW x \in S, NEW y \in S, x \in below[y] PROVE rank[x] < rank[y]
    <2>1. below[x] \in SUBSET below[y] /\ below[x] # below[y] /\ IsFiniteSet(below[y])
      BY <1>2, <1>4 DEF IsOrder
    <2>2. /\ Cardinality(below[x]) <= Cardinality(below[y])
          /\ Cardinality(below[y]) # Cardinality(below[x])
      BY <2>1, FS_Subset
    <2>. QED
      BY <1>2, <2>2
  <1>5. ASSUME NEW x \in S, NEW y \in S
        PROVE  /\ rank[x] = rank[y] => x = y
               /\ rank[x] < rank[y] => x \in below[y]
    <2>1. /\ x \in below[y] => rank[x] < rank[y]
          /\ y \in below[x] => rank[y] < rank[x]
      <3>. HIDE DEF rank
      <3>. QED
        BY <1>4
    <2>2. x = y \/ x \in below[y] \/ y \in below[x]
      BY DEF IsOrder
    <2>3. rank[x] \in Nat /\ rank[y] \in Nat
      BY <1>2
    <2>. HIDE DEF rank
    <2>. QED
      BY <2>1, <2>2, <2>3
  <1>6. rank \in Surjection(S, 0 .. n - 1)
    <2>1. rank \in [S -> 0 .. n - 1]
      BY <1>3
    <2>2. rank \in Injection(S, 0 .. n - 1)
      <3>1. \A x, y \in S : rank[x] = rank[y] => x = y
        BY <1>5
      <3>. HIDE DEF rank
      <3>. QED
        BY <2>1, <3>1 DEF Injection, IsInjective
    <2>3. IsFiniteSet(0 .. n - 1) /\ Cardinality(0 .. n - 1) = n
      BY <1>1, FS_Interval
    <2>. HIDE DEF rank
    <2>. QED
      BY <2>2, <2>3, FS_Injection
  <1>7. \A i \in 1 .. n : \E x \in S : Cardinality(below[x]) = i - 1
    <2>. SUFFICES ASSUME NEW i \in 1 .. n PROVE \E x \in S : rank[x] = i - 1
      OBVIOUS
    <2>1. i - 1 \in 0 .. n - 1
      BY <1>1
    <2>. HIDE DEF rank
    <2>. QED
      BY <1>6, <2>1 DEF Surjection
  <1>8. \A x \in S : rank[x] = Cardinality(below[x])
    OBVIOUS
  <1>. HIDE DEF rank
  <1>. QED
    BY <1>3, <1>5, <1>7, <1>8

LEMMA RankSorts ==
  ASSUME NEW S, IsFiniteSet(S), NEW below, IsOrder(S, below),
         NEW seq \in [1 .. Cardinality(S) -> S],
         \A i \in 1 .. Cardinality(S) : Cardinality(below[seq[i]]) = i - 1
  PROVE  Sorts(seq, S, below)
  <1>. DEFINE n == Cardinality(S)
  <1>1. n \in Nat
    BY FS_CardinalityType
  <1>2. ASSUME NEW i \in 1 .. n, NEW j \in 1 .. n
        PROVE  /\ seq[i] = seq[j] => i = j
               /\ i < j => seq[i] \in below[seq[j]]
    <2>1. Cardinality(below[seq[i]]) = i - 1 /\ Cardinality(below[seq[j]]) = j - 1
      OBVIOUS
    <2>2. seq[i] \in S /\ seq[j] \in S
      OBVIOUS
    <2>3. Cardinality(below[seq[i]]) < Cardinality(below[seq[j]]) => seq[i] \in below[seq[j]]
      BY <2>2, Ranked
    <2>4. i \in Int /\ j \in Int
      OBVIOUS
    <2>. QED
      BY <2>1, <2>3, <2>4
  <1>3. ASSUME NEW x \in S PROVE \E i \in 1 .. n : seq[i] = x
    <2>. DEFINE r == Cardinality(below[x])
    <2>1. r \in 0 .. n - 1
      BY Ranked
    <2>2. r + 1 \in 1 .. n /\ (r + 1) - 1 = r
      BY <1>1, <2>1
    <2>3. seq[r + 1] \in S /\ Cardinality(below[seq[r + 1]]) = r
      <3>. HIDE DEF r
      <3>. QED
        BY <2>2
    <2>4. seq[r + 1] = x
      BY <2>3, Ranked
    <2>. HIDE DEF r
    <2>. QED
      BY <2>2, <2>4
  <1>. QED
    BY <1>2, <1>3 DEF Sorts, Bijection, Injection, IsInjective, Surjection

\* Numbers, the smallest first.
LEMMA SortedUpward ==
  ASSUME NEW S \in SUBSET Nat, IsFiniteSet(S)
  PROVE  /\ Cardinality(S) \in Nat
         /\ SortedBy(S, <) \in Bijection(1 .. Cardinality(S), S)
         /\ Len(SortedBy(S, <)) = Cardinality(S)
  <1>. DEFINE below == [x \in S |-> {y \in S : y < x}]
              seq == SortedBy(S, <)
              n == Cardinality(S)
  <1>1. n \in Nat
    BY FS_CardinalityType
  <1>2. IsOrder(S, below)
    <2>1. below \in [S -> SUBSET S]
      OBVIOUS
    <2>2. \A x, y \in S : y \in below[x] <=> y < x
      OBVIOUS
    <2>3. \A x, y \in S : y \in below[x] => below[y] \subseteq below[x]
      <3>. SUFFICES ASSUME NEW x \in S, NEW y \in S, y < x, NEW z \in below[y] PROVE z \in below[x]
        BY <2>2
      <3>1. z \in S /\ z < y
        OBVIOUS
      <3>2. x \in Nat /\ y \in Nat /\ z \in Nat
        BY <3>1
      <3>3. z < x
        BY <3>1, <3>2
      <3>. QED
        BY <3>1, <3>3
    <2>4. \A x, y \in S : x \in Nat /\ y \in Nat /\ ~ (x < x) /\ (x = y \/ x < y \/ y < x)
      OBVIOUS
    <2>. HIDE DEF below
    <2>. QED
      BY <2>1, <2>2, <2>3, <2>4 DEF IsOrder
  <1>3. \A i \in 1 .. n : \E x \in S : Cardinality({y \in S : y < x}) = i - 1
    <2>1. \A i \in 1 .. n : \E x \in S : Cardinality(below[x]) = i - 1
      <3>. HIDE DEF below
      <3>. QED
        BY <1>2, Ranked
    <2>. QED
      BY <2>1
  <1>4. /\ seq = [i \in 1 .. n |-> CHOOSE x \in S : Cardinality({y \in S : y < x}) = i - 1]
        /\ DOMAIN seq = 1 .. n
    BY Zenon DEF SortedBy
  <1>5. \A i \in 1 .. n : seq[i] \in S /\ Cardinality({y \in S : y < seq[i]}) = i - 1
    <2>. SUFFICES ASSUME NEW i \in 1 .. n
                  PROVE  seq[i] \in S /\ Cardinality({y \in S : y < seq[i]}) = i - 1
      OBVIOUS
    <2>1. seq[i] = CHOOSE x \in S : Cardinality({y \in S : y < x}) = i - 1
      <3>. HIDE DEF seq
      <3>. QED
        BY <1>4, Zenon
    <2>2. \E x \in S : Cardinality({y \in S : y < x}) = i - 1
      BY <1>3
    <2>. HIDE DEF seq
    <2>. QED
      BY <2>1, <2>2, Zenon
  <1>6. /\ seq \in [1 .. n -> S]
        /\ \A i \in 1 .. n : Cardinality(below[seq[i]]) = i - 1
    <2>. HIDE DEF seq
    <2>. QED
      BY <1>4, <1>5
  <1>7. Sorts(seq, S, below)
    <2>. HIDE DEF seq, below
    <2>. QED
      BY <1>2, <1>6, RankSorts
  <1>8. Len(seq) = n
    <2>. HIDE DEF seq
    <2>. QED
      BY <1>1, <1>6
  <1>. QED
    BY <1>1, <1>7, <1>8 DEF Sorts

\* The heaviest micro-batch first, when their items are apart and none is empty.
LEMMA SortedDownward ==
  ASSUME NEW P, IsFiniteSet(P),
         \A p \in P : p.sum \in Nat /\ p.items \in SUBSET Nat /\ p.items # {},
         \A p, q \in P : p # q => p.items \cap q.items = {}
  PROVE  /\ Cardinality(P) \in Nat
         /\ SortedBy(P, HeavierThan) \in Bijection(1 .. Cardinality(P), P)
         /\ Len(SortedBy(P, HeavierThan)) = Cardinality(P)
         /\ \A i, j \in 1 .. Cardinality(P) : i < j =>
              SortedBy(P, HeavierThan)[i].sum >= SortedBy(P, HeavierThan)[j].sum
  <1>. DEFINE below == [x \in P |-> {y \in P : HeavierThan(y, x)}]
              seq == SortedBy(P, HeavierThan)
              n == Cardinality(P)
  <1>1. n \in Nat
    BY FS_CardinalityType
  <1>2. \A x, y \in P : y \in below[x] <=> HeavierThan(y, x)
    OBVIOUS
  <1>3. \A p \in P : Min(p.items) \in p.items /\ Min(p.items) \in Nat
    <2>. SUFFICES ASSUME NEW p \in P PROVE Min(p.items) \in p.items
      OBVIOUS
    <2>1. \E m \in p.items : \A y \in p.items : m <= y
      BY LeastNat
    <2>2. Min(p.items) = CHOOSE m \in p.items : \A y \in p.items : m <= y
      BY Zenon DEF Min
    <2>. QED
      BY <2>1, <2>2, Zenon
  <1>4. \A p, q \in P : p # q => Min(p.items) # Min(q.items)
    BY <1>3
  <1>5. IsOrder(P, below)
    <2>1. below \in [P -> SUBSET P]
      OBVIOUS
    <2>. HIDE DEF below
    <2>2. \A x, y, z \in P : HeavierThan(z, y) /\ HeavierThan(y, x) => HeavierThan(z, x)
      <3>. SUFFICES ASSUME NEW x \in P, NEW y \in P, NEW z \in P,
                           HeavierThan(z, y), HeavierThan(y, x)
                    PROVE  HeavierThan(z, x)
        OBVIOUS
      <3>1. x.sum \in Nat /\ y.sum \in Nat /\ z.sum \in Nat
        OBVIOUS
      <3>2. Min(x.items) \in Nat /\ Min(y.items) \in Nat /\ Min(z.items) \in Nat
        BY <1>3
      <3>. QED
        BY <3>1, <3>2 DEF HeavierThan
    <2>3. \A x \in P : ~ HeavierThan(x, x)
      <3>. SUFFICES ASSUME NEW x \in P PROVE ~ HeavierThan(x, x)
        OBVIOUS
      <3>1. x.sum \in Nat /\ Min(x.items) \in Nat
        BY <1>3
      <3>. QED
        BY <3>1 DEF HeavierThan
    <2>4. \A x, y \in P : x = y \/ HeavierThan(x, y) \/ HeavierThan(y, x)
      <3>. SUFFICES ASSUME NEW x \in P, NEW y \in P, x # y
                    PROVE  HeavierThan(x, y) \/ HeavierThan(y, x)
        OBVIOUS
      <3>1. /\ x.sum \in Nat /\ Min(x.items) \in Nat /\ y.sum \in Nat /\ Min(y.items) \in Nat
            /\ Min(x.items) # Min(y.items)
        BY <1>3, <1>4
      <3>. QED
        BY <3>1 DEF HeavierThan
    <2>5. \A x, y \in P : y \in below[x] => below[y] \subseteq below[x]
      BY <1>2, <2>1, <2>2
    <2>. QED
      BY <1>2, <2>1, <2>3, <2>4, <2>5 DEF IsOrder
  <1>6. \A i \in 1 .. n : \E x \in P : Cardinality({y \in P : HeavierThan(y, x)}) = i - 1
    <2>1. \A i \in 1 .. n : \E x \in P : Cardinality(below[x]) = i - 1
      <3>. HIDE DEF below
      <3>. QED
        BY <1>5, Ranked
    <2>. QED
      BY <2>1
  <1>7. /\ seq = [i \in 1 .. n |->
                    CHOOSE x \in P : Cardinality({y \in P : HeavierThan(y, x)}) = i - 1]
        /\ DOMAIN seq = 1 .. n
    BY Zenon DEF SortedBy
  <1>8. \A i \in 1 .. n :
          seq[i] \in P /\ Cardinality({y \in P : HeavierThan(y, seq[i])}) = i - 1
    <2>. SUFFICES ASSUME NEW i \in 1 .. n
                  PROVE  seq[i] \in P /\ Cardinality({y \in P : HeavierThan(y, seq[i])}) = i - 1
      OBVIOUS
    <2>1. seq[i] = CHOOSE x \in P : Cardinality({y \in P : HeavierThan(y, x)}) = i - 1
      <3>. HIDE DEF seq
      <3>. QED
        BY <1>7, Zenon
    <2>. DEFINE Q(x) == Cardinality({y \in P : HeavierThan(y, x)}) = i - 1
    <2>2. seq[i] = CHOOSE x \in P : Q(x)
      BY <2>1, Zenon
    <2>3. \E x \in P : Q(x)
      BY <1>6
    <2>. HIDE DEF seq, Q
    <2>4. seq[i] \in P /\ Q(seq[i])
      BY <2>2, <2>3, Zenon
    <2>. QED
      BY <2>4, Zenon DEF Q
  <1>9. /\ seq \in [1 .. n -> P]
        /\ \A i \in 1 .. n : Cardinality(below[seq[i]]) = i - 1
    <2>. HIDE DEF seq
    <2>. QED
      BY <1>7, <1>8
  <1>10. Sorts(seq, P, below)
    <2>. HIDE DEF seq, below
    <2>. QED
      BY <1>5, <1>9, RankSorts
  <1>11. Len(seq) = n
    <2>. HIDE DEF seq
    <2>. QED
      BY <1>1, <1>9
  <1>12. \A i, j \in 1 .. n : i < j => seq[i].sum >= seq[j].sum
    <2>. SUFFICES ASSUME NEW i \in 1 .. n, NEW j \in 1 .. n, i < j PROVE seq[i].sum >= seq[j].sum
      OBVIOUS
    <2>. HIDE DEF seq, below
    <2>1. seq[i] \in P /\ seq[j] \in P /\ seq[i] \in below[seq[j]]
      BY <1>9, <1>10 DEF Sorts
    <2>2. HeavierThan(seq[i], seq[j])
      BY <1>2, <2>1
    <2>3. seq[i].sum \in Nat /\ seq[j].sum \in Nat
      BY <2>1
    <2>. QED
      BY <2>2, <2>3 DEF HeavierThan
  <1>. QED
    BY <1>1, <1>10, <1>11, <1>12 DEF Sorts

-----------------------------------------------------------------------------
(***************************************************************************)
(* The outputs one micro-batch after another: what FlattenSeq goes through *)
(* up to the i-th of the sequences.                                        *)
(***************************************************************************)

IsFlat(f, seqs, m) ==
  f = [i \in 1 .. m |-> IF i = 1 THEN seqs[i] ELSE f[i - 1] \o seqs[i]]

LEMMA FlatExists ==
  ASSUME NEW seqs, NEW m \in Nat
  PROVE  \E f : IsFlat(f, seqs, m)
  <1>. DEFINE B == {n \in 0 .. m : ~ \E f : IsFlat(f, seqs, n)}
  <1>. SUFFICES ASSUME B # {} PROVE FALSE
    <2>1. m \in 0 .. m
      OBVIOUS
    <2>. QED
      BY <2>1
  <1>1. PICK n \in B : \A i \in B : n <= i
    <2>1. B \in SUBSET Nat
      OBVIOUS
    <2>. HIDE DEF B
    <2>. QED
      BY <2>1, LeastNat
  <1>2. n \in 0 .. m /\ ~ \E f : IsFlat(f, seqs, n)
    OBVIOUS
  <1>3. n # 0
    <2>. DEFINE none == [i \in 1 .. 0 |-> IF i = 1 THEN seqs[i] ELSE <<>>]
    <2>1. none = [i \in 1 .. 0 |-> IF i = 1 THEN seqs[i] ELSE none[i - 1] \o seqs[i]]
      OBVIOUS
    <2>. HIDE DEF none
    <2>2. IsFlat(none, seqs, 0)
      BY <2>1 DEF IsFlat
    <2>. QED
      BY <1>2, <2>2
  <1>4. n - 1 \in 0 .. m /\ n - 1 < n
    BY <1>2, <1>3
  <1>5. PICK f : IsFlat(f, seqs, n - 1)
    <2>1. n - 1 \notin B
      <3>. HIDE DEF B
      <3>. QED
        BY <1>1, <1>4, <1>2
    <2>. QED
      BY <1>4, <2>1
  <1>. DEFINE g == [i \in 1 .. n |-> IF i = 1 THEN seqs[i] ELSE f[i - 1] \o seqs[i]]
  <1>6. \A i \in 1 .. n - 1 : f[i] = IF i = 1 THEN seqs[i] ELSE f[i - 1] \o seqs[i]
    BY <1>5, Zenon DEF IsFlat
  <1>7. \A i \in 1 .. n - 1 : i \in 1 .. n
    BY <1>2
  <1>8. \A i \in 1 .. n - 1 : g[i] = f[i]
    BY <1>6, <1>7
  <1>9. \A i \in 1 .. n : i # 1 => i - 1 \in 1 .. n - 1
    BY <1>2
  <1>10. g = [i \in 1 .. n |-> IF i = 1 THEN seqs[i] ELSE g[i - 1] \o seqs[i]]
    <2>1. \A i \in 1 .. n : (IF i = 1 THEN seqs[i] ELSE f[i - 1] \o seqs[i])
                              = (IF i = 1 THEN seqs[i] ELSE g[i - 1] \o seqs[i])
      <3>. HIDE DEF g
      <3>. QED
        BY <1>8, <1>9
    <2>2. g = [i \in 1 .. n |-> IF i = 1 THEN seqs[i] ELSE f[i - 1] \o seqs[i]]
      OBVIOUS
    <2>. HIDE DEF g
    <2>. QED
      BY <2>1, <2>2
  <1>11. IsFlat(g, seqs, n)
    <2>. HIDE DEF g
    <2>. QED
      BY <1>10 DEF IsFlat
  <1>. QED
    BY <1>2, <1>11

\* The sequences of seqs hold no element twice, and no two of them the same.
Apart(seqs, m) ==
  \A b, c \in 1 .. m : \A x \in DOMAIN seqs[b] : \A y \in DOMAIN seqs[c] :
    seqs[b][x] = seqs[c][y] => b = c /\ x = y

\* The elements of the first n sequences are those of s, each once.
Flat(s, seqs, n, T) ==
  /\ s \in Seq(T)
  /\ \A x \in DOMAIN s : \E b \in 1 .. n : \E y \in DOMAIN seqs[b] : s[x] = seqs[b][y]
  /\ \A b \in 1 .. n : \A y \in DOMAIN seqs[b] : \E x \in DOMAIN s : s[x] = seqs[b][y]
  /\ Ordered(s)

LEMMA FlatStep ==
  ASSUME NEW T, NEW m \in Nat, NEW seqs \in [1 .. m -> Seq(T)], Apart(seqs, m),
         NEW n \in 1 .. m, n # 1, NEW s, Flat(s, seqs, n - 1, T)
  PROVE  Flat(s \o seqs[n], seqs, n, T)
  <1>. DEFINE t == seqs[n]
              u == s \o t
              a == Len(s)
  <1>1. /\ s \in Seq(T) /\ t \in Seq(T) /\ a \in Nat /\ Len(t) \in Nat
        /\ DOMAIN s = 1 .. a /\ DOMAIN t = 1 .. Len(t)
    BY DEF Flat
  <1>2. /\ u \in Seq(T) /\ DOMAIN u = 1 .. a + Len(t)
        /\ \A x \in 1 .. a : u[x] = s[x]
        /\ \A y \in 1 .. Len(t) : a + y \in DOMAIN u /\ u[a + y] = t[y]
    BY <1>1
  <1>3. \A x \in DOMAIN u : x \in 1 .. a \/ \E y \in 1 .. Len(t) : x = a + y
    <2>. SUFFICES ASSUME NEW x \in DOMAIN u, x \notin 1 .. a
                  PROVE  \E y \in 1 .. Len(t) : x = a + y
      OBVIOUS
    <2>. HIDE DEF u, t, a
    <2>1. x - a \in 1 .. Len(t) /\ x = a + (x - a)
      BY <1>1, <1>2
    <2>. QED
      BY <2>1
  <1>4. \A b \in 1 .. n - 1 : b \in 1 .. n /\ b \in 1 .. m /\ b # n
    OBVIOUS
  <1>5. \A b \in 1 .. n : b \in 1 .. n - 1 \/ b = n
    OBVIOUS
  <1>6. n \in 1 .. n /\ 1 .. a \subseteq DOMAIN u
    BY <1>1, <1>2
  <1>. HIDE DEF u, t, a
  <1>7. \A x \in DOMAIN u : \E b \in 1 .. n : \E y \in DOMAIN seqs[b] : u[x] = seqs[b][y]
    <2>. SUFFICES ASSUME NEW x \in DOMAIN u
                  PROVE  \E b \in 1 .. n : \E y \in DOMAIN seqs[b] : u[x] = seqs[b][y]
      OBVIOUS
    <2>1. CASE x \in 1 .. a
      <3>1. PICK b \in 1 .. n - 1 : \E y \in DOMAIN seqs[b] : s[x] = seqs[b][y]
        BY <1>1, <2>1 DEF Flat
      <3>2. b \in 1 .. n /\ u[x] = s[x]
        BY <1>2, <1>4, <2>1
      <3>. QED
        BY <3>1, <3>2
    <2>2. CASE \E y \in 1 .. Len(t) : x = a + y
      <3>1. \E y \in DOMAIN t : u[x] = t[y]
        BY <1>1, <1>2, <2>2
      <3>. QED
        BY <1>6, <3>1 DEF t
    <2>. QED
      BY <1>3, <2>1, <2>2
  <1>8. \A b \in 1 .. n : \A y \in DOMAIN seqs[b] : \E x \in DOMAIN u : u[x] = seqs[b][y]
    <2>. SUFFICES ASSUME NEW b \in 1 .. n, NEW y \in DOMAIN seqs[b]
                  PROVE  \E x \in DOMAIN u : u[x] = seqs[b][y]
      OBVIOUS
    <2>1. CASE b = n
      <3>1. y \in DOMAIN t
        BY <2>1 DEF t
      <3>. QED
        BY <1>1, <1>2, <2>1, <3>1 DEF t
    <2>2. CASE b \in 1 .. n - 1
      BY <1>1, <1>2, <1>6, <2>2 DEF Flat
    <2>. QED
      BY <1>5, <2>1, <2>2
  <1>9. ASSUME NEW x \in 1 .. a, NEW y \in 1 .. Len(t) PROVE s[x] # t[y]
    <2>1. PICK b \in 1 .. n - 1 : \E z \in DOMAIN seqs[b] : s[x] = seqs[b][z]
      BY <1>1 DEF Flat
    <2>2. b \in 1 .. m /\ b # n
      BY <1>4
    <2>3. y \in DOMAIN seqs[n] /\ t[y] = seqs[n][y]
      BY <1>1 DEF t
    <2>. QED
      BY <2>1, <2>2, <2>3 DEF Apart
  <1>10. Ordered(u)
    <2>. SUFFICES ASSUME NEW x \in DOMAIN u, NEW y \in DOMAIN u, u[x] = u[y] PROVE x = y
      BY DEF Ordered
    <2>1. CASE x \in 1 .. a /\ y \in 1 .. a
      BY <1>1, <1>2, <2>1 DEF Flat, Ordered
    <2>2. ASSUME NEW z \in 1 .. Len(t), NEW w \in 1 .. Len(t), x = a + z, y = a + w PROVE x = y
      <3>1. z \in DOMAIN seqs[n] /\ w \in DOMAIN seqs[n] /\ seqs[n][z] = seqs[n][w]
        BY <1>1, <1>2, <2>2 DEF t
      <3>. QED
        BY <2>2, <3>1 DEF Apart
    <2>3. ASSUME NEW v \in 1 .. a, NEW w \in 1 .. Len(t) PROVE u[v] # u[a + w]
      BY <1>2, <1>9
    <2>. QED
      BY <1>3, <2>1, <2>2, <2>3
  <1>. QED
    BY <1>2, <1>7, <1>8, <1>10 DEF Flat, u, t

LEMMA FlattenIs ==
  ASSUME NEW T, NEW m \in Nat \ {0}, NEW seqs \in [1 .. m -> Seq(T)], Apart(seqs, m)
  PROVE  Flat(FlattenSeq(seqs), seqs, m, T)
  <1>1. Len(seqs) = m
    BY LenProperties
  <1>. DEFINE h == CHOOSE f : IsFlat(f, seqs, m)
  <1>2. FlattenSeq(seqs) = h[m]
    <2>1. Len(seqs) # 0
      BY <1>1
    <2>2. FlattenSeq(seqs) = (CHOOSE f : IsFlat(f, seqs, Len(seqs)))[Len(seqs)]
      BY <2>1, Zenon DEF FlattenSeq, IsFlat
    <2>. QED
      BY <1>1, <2>2
  <1>3. IsFlat(h, seqs, m)
    BY FlatExists
  <1>. HIDE DEF h
  <1>4. \A i \in 1 .. m : h[i] = IF i = 1 THEN seqs[i] ELSE h[i - 1] \o seqs[i]
    BY <1>3, Zenon DEF IsFlat
  <1>. DEFINE B == {i \in 1 .. m : ~ Flat(h[i], seqs, i, T)}
  <1>5. B = {}
    <2>. SUFFICES ASSUME B # {} PROVE FALSE
      OBVIOUS
    <2>1. B \in SUBSET Nat
      OBVIOUS
    <2>2. PICK n \in B : \A i \in B : n <= i
      <3>. HIDE DEF B
      <3>. QED
        BY <2>1, LeastNat
    <2>3. n \in 1 .. m /\ ~ Flat(h[n], seqs, n, T)
      OBVIOUS
    <2>4. CASE n = 1
      <3>1. h[n] = seqs[1] /\ seqs[1] \in Seq(T) /\ 1 \in 1 .. m /\ \A b \in 1 .. 1 : b = 1
        BY <1>4, <2>3, <2>4
      <3>2. Ordered(seqs[1])
        BY <3>1 DEF Ordered, Apart
      <3>. QED
        BY <2>3, <2>4, <3>1, <3>2 DEF Flat
    <2>5. CASE n # 1
      <3>1. n - 1 \in 1 .. m /\ n - 1 < n
        BY <2>3, <2>5
      <3>2. Flat(h[n - 1], seqs, n - 1, T)
        <4>1. n - 1 \notin B
          <5>. HIDE DEF B
          <5>. QED
            BY <2>2, <2>3, <3>1
        <4>. QED
          BY <3>1, <4>1
      <3>3. Flat(h[n - 1] \o seqs[n], seqs, n, T)
        BY <2>3, <2>5, <3>2, FlatStep
      <3>4. h[n] = h[n - 1] \o seqs[n]
        BY <1>4, <2>3, <2>5
      <3>. QED
        BY <2>3, <3>3, <3>4
    <2>. QED
      BY <2>4, <2>5
  <1>6. m \in 1 .. m
    OBVIOUS
  <1>. QED
    BY <1>2, <1>5, <1>6

-----------------------------------------------------------------------------
(***************************************************************************)
(* The samples of one rank, in groups, and the rows of a micro-batch.      *)
(***************************************************************************)

Weights == [i \in Samples |-> calculate_workload(seq_len[i])]

Grouped ==
  /\ args \in Arguments
  /\ \E n \in Nat \ {0} : seq_len \in [0 .. n * args.group - 1 -> Lengths]
  /\ \A i \in Samples : seq_len[i] <= args.max_token_len

Sampled == Grouped /\ workload = [g \in 0 .. num_groups - 1 |-> SumOf(Weights, Members(g))]

LEMMA GroupedIs ==
  ASSUME Grouped
  PROVE  /\ args.group \in Nat \ {0} /\ args.max_token_len \in Nat \ {0} /\ args.min \in Nat
         /\ args.peers \in Nat /\ args.divided_by \in Nat \ {0} /\ args.balance \in BOOLEAN
         /\ num_groups \in Nat \ {0}
         /\ Samples = 0 .. num_groups * args.group - 1 /\ IsFiniteSet(Samples)
         /\ Cardinality(Samples) = num_groups * args.group
         /\ \A i \in Samples : seq_len[i] \in Nat \ {0} /\ seq_len[i] <= args.max_token_len
  <1>. DEFINE G == args.group
  <1>1. /\ G \in Nat \ {0} /\ args.max_token_len \in Nat \ {0} /\ args.min \in Nat
        /\ args.peers \in Nat /\ args.divided_by \in Nat \ {0} /\ args.balance \in BOOLEAN
    BY MicroBatchesAssumption DEF Grouped
  <1>2. PICK n \in Nat \ {0} : seq_len \in [0 .. n * G - 1 -> Lengths]
    BY DEF Grouped
  <1>. HIDE DEF G
  <1>3. n * G \in Nat /\ n * G > 0
    BY <1>1, Products
  <1>. DEFINE m == n * G
  <1>4. Samples = 0 .. m - 1 /\ IsFiniteSet(Samples) /\ Cardinality(Samples) = m
    <2>1. Samples = 0 .. m - 1
      BY <1>2 DEF Samples
    <2>2. m \in Nat /\ m > 0
      BY <1>3
    <2>. HIDE DEF m
    <2>. QED
      BY <2>1, <2>2, FS_Interval
  <1>5. num_groups = n
    <2>1. 0 \in 0 .. G - 1
      BY <1>1
    <2>2. (G * n + 0) \div G = n
      BY <1>1, <2>1, Euclid
    <2>3. G * n + 0 = n * G
      BY <1>1
    <2>. QED
      BY <1>4, <2>2, <2>3 DEF num_groups, G
  <1>6. \A i \in Samples : seq_len[i] \in Nat \ {0}
    BY <1>2, <1>4, MicroBatchesAssumption
  <1>. QED
    BY <1>1, <1>4, <1>5, <1>6 DEF Grouped, G

LEMMA ItemsAre ==
  ASSUME Sampled
  PROVE  /\ Items = 0 .. num_groups - 1 /\ IsFiniteSet(Items) /\ Cardinality(Items) = num_groups
         /\ \A g \in Items : workload[g] = SumOf(Weights, Members(g))
  <1>1. num_groups \in Nat \ {0}
    BY GroupedIs DEF Sampled
  <1>2. Items = 0 .. num_groups - 1 /\ \A g \in Items : workload[g] = SumOf(Weights, Members(g))
    BY DEF Sampled, Items
  <1>. QED
    BY <1>1, <1>2, FS_Interval

\* Every sample is a member of one group, every group has as many.
LEMMA MembersAre ==
  ASSUME Grouped
  PROVE  /\ \A g \in 0 .. num_groups - 1 :
              /\ Members(g) \subseteq Samples /\ IsFiniteSet(Members(g))
              /\ Cardinality(Members(g)) = args.group
         /\ \A g, h \in 0 .. num_groups - 1 : g # h => Members(g) \cap Members(h) = {}
         /\ \A i \in Samples : \E g \in 0 .. num_groups - 1 : i \in Members(g)
  <1>. DEFINE G == args.group
              N == num_groups
              groups == 0 .. N - 1
  <1>1. /\ G \in Nat \ {0} /\ N \in Nat \ {0} /\ Samples = 0 .. N * G - 1 /\ IsFiniteSet(Samples)
    BY GroupedIs
  <1>2. \A g : Members(g) = {g * G + j : j \in 0 .. G - 1}
    BY DEF Members
  <1>. HIDE DEF G, N
  <1>3. ASSUME NEW g \in groups, NEW j \in 0 .. G - 1 PROVE g * G + j \in Samples
    <2>1. g \in Nat /\ g + 1 \in Nat /\ g + 1 <= N
      BY <1>1
    <2>2. (g + 1) * G <= N * G /\ (g + 1) * G = g * G + G /\ g * G \in Nat /\ N * G \in Nat
      BY <1>1, <2>1, Multiples
    <2>. DEFINE a == g * G
                b == N * G
    <2>3. a \in Nat /\ b \in Nat /\ a + G <= b
      BY <2>2
    <2>. HIDE DEF a, b
    <2>4. a + j \in 0 .. b - 1
      BY <1>1, <2>3
    <2>. QED
      BY <1>1, <2>4 DEF a, b
  <1>4. ASSUME NEW g \in groups, NEW h \in groups, NEW j \in 0 .. G - 1, NEW l \in 0 .. G - 1,
               g * G + j = h * G + l
        PROVE  g = h /\ j = l
    BY <1>1, <1>4, OneQuotient
  <1>5. ASSUME NEW g \in groups
        PROVE  /\ Members(g) \subseteq Samples /\ IsFiniteSet(Members(g))
               /\ Cardinality(Members(g)) = G
    <2>1. Members(g) \subseteq Samples
      BY <1>2, <1>3
    <2>2. IsFiniteSet(Members(g))
      BY <1>1, <2>1, FS_Subset
    <2>. DEFINE f == [j \in 0 .. G - 1 |-> g * G + j]
    <2>3. f \in Bijection(0 .. G - 1, Members(g))
      <3>1. f \in [0 .. G - 1 -> Members(g)]
        BY <1>2
      <3>2. \A j, l \in 0 .. G - 1 : f[j] = f[l] => j = l
        BY <1>4
      <3>3. \A i \in Members(g) : \E j \in 0 .. G - 1 : f[j] = i
        BY <1>2
      <3>. HIDE DEF f
      <3>. QED
        BY <3>1, <3>2, <3>3 DEF Bijection, Injection, IsInjective, Surjection
    <2>4. IsFiniteSet(0 .. G - 1) /\ Cardinality(0 .. G - 1) = G
      BY <1>1, FS_Interval
    <2>5. ExistsBijection(0 .. G - 1, Members(g))
      BY <2>3 DEF ExistsBijection
    <2>. QED
      BY <2>1, <2>2, <2>4, <2>5, FS_Bijection
  <1>6. \A g, h \in groups : g # h => Members(g) \cap Members(h) = {}
    BY <1>2, <1>4
  <1>7. ASSUME NEW i \in Samples PROVE \E g \in groups : i \in Members(g)
    <2>. DEFINE q == i \div G
                r == i % G
    <2>1. i \in Nat /\ q \in Nat /\ r \in 0 .. G - 1 /\ i = q * G + r
      <3>1. i \in Nat /\ G \in Nat /\ G >= 1
        BY <1>1
      <3>. QED
        BY <3>1, Division
    <2>2. q < N
      <3>. SUFFICES ASSUME N <= q PROVE FALSE
        BY <1>1, <2>1
      <3>1. N * G <= q * G /\ N * G \in Nat /\ q * G \in Nat
        BY <1>1, <2>1, Multiples
      <3>2. i < N * G
        BY <1>1, <3>1
      <3>. DEFINE a == N * G
                  b == q * G
      <3>3. a \in Nat /\ b \in Nat /\ a <= b /\ i < a /\ i = b + r
        BY <2>1, <3>1, <3>2
      <3>. HIDE DEF a, b, q, r
      <3>. QED
        BY <2>1, <3>3
    <2>. HIDE DEF q, r
    <2>3. q \in groups
      BY <1>1, <2>1, <2>2
    <2>. QED
      BY <1>2, <2>1, <2>3
  <1>. QED
    BY <1>5, <1>6, <1>7 DEF G, N

\* The rows of a micro-batch are the members of its groups, each once, those of a group together.
RowsOfGroups(s, groups) ==
  /\ s \in Seq(Samples) /\ Ordered(s)
  /\ \A x \in DOMAIN s : \E g \in groups : s[x] \in Members(g)
  /\ \A g \in groups : \E r \in 0 .. Len(s) : \A j \in 0 .. args.group - 1 :
       r + j + 1 \in DOMAIN s /\ s[r + j + 1] = g * args.group + j

LEMMA RowsAre ==
  ASSUME Sampled, NEW p, p.items \in SUBSET Items
  PROVE  RowsOfGroups(Rows(p), p.items)
  <1>. DEFINE G == args.group
              P == p.items
              c == Cardinality(P)
              s == SortedBy(P, <)
  <1>0. Grouped
    BY DEF Sampled
  <1>1. G \in Nat \ {0} /\ Items \in SUBSET Nat /\ IsFiniteSet(Items)
    BY <1>0, GroupedIs, ItemsAre
  <1>2. c \in Nat /\ s \in Bijection(1 .. c, P) /\ Len(s) = c
    <2>1. P \in SUBSET Nat /\ IsFiniteSet(P)
      BY <1>1, FS_Subset
    <2>. QED
      BY <2>1, SortedUpward
  <1>3. /\ \A q \in 1 .. c : s[q] \in P
        /\ \A q, r \in 1 .. c : s[q] = s[r] => q = r
        /\ \A g \in P : \E q \in 1 .. c : s[q] = g
    <2>. HIDE DEF s, c
    <2>. QED
      BY <1>2 DEF Bijection, Injection, IsInjective, Surjection
  <1>. DEFINE quo(x) == (x - 1) \div G
              rem(x) == (x - 1) % G
              n == c * G
  <1>4. n \in Nat
    BY <1>1, <1>2, Products
  <1>5. Rows(p) = [x \in 1 .. n |-> s[quo(x) + 1] * G + rem(x)]
    BY <1>2 DEF Rows
  <1>. HIDE DEF s, c, P, G
  <1>6. ASSUME NEW x \in 1 .. n
        PROVE  /\ quo(x) + 1 \in 1 .. c /\ rem(x) \in 0 .. G - 1 /\ quo(x) \in Nat
               /\ x = quo(x) * G + rem(x) + 1
    <2>. DEFINE q == quo(x)
                r == rem(x)
    <2>1. x - 1 \in Nat /\ x - 1 < n /\ x \in Nat
      BY <1>4
    <2>2. q \in Nat /\ r \in 0 .. G - 1 /\ x - 1 = q * G + r
      BY <1>1, <2>1, Division
    <2>3. q < c
      <3>. SUFFICES ASSUME c <= q PROVE FALSE
        BY <1>2, <2>2
      <3>1. c * G <= q * G /\ c * G \in Nat /\ q * G \in Nat
        BY <1>1, <1>2, <2>2, Multiples
      <3>. DEFINE a == c * G
                  b == q * G
      <3>2. a \in Nat /\ b \in Nat /\ a <= b /\ x - 1 < a /\ x - 1 = b + r
        BY <2>1, <2>2, <3>1
      <3>. HIDE DEF a, b, q, r, n
      <3>. QED
        BY <2>1, <2>2, <3>2
    <2>4. x = q * G + r + 1 /\ q + 1 \in 1 .. c
      <3>1. q * G \in Nat
        BY <1>1, <2>2, Products
      <3>. HIDE DEF q, r, n
      <3>. QED
        BY <1>2, <2>1, <2>2, <2>3, <3>1
    <2>. QED
      BY <2>2, <2>4
  <1>. HIDE DEF n
  <1>7. \A x \in 1 .. n : Rows(p)[x] = s[quo(x) + 1] * G + rem(x)
    BY <1>5
  <1>. HIDE DEF quo, rem
  <1>8. \A x \in 1 .. n : s[quo(x) + 1] \in P /\ Rows(p)[x] \in Members(s[quo(x) + 1])
    BY <1>3, <1>6, <1>7 DEF Members, G
  <1>9. \A g \in P : Members(g) \subseteq Samples
    BY <1>0, MembersAre, ItemsAre DEF P
  <1>10. /\ Rows(p) \in Seq(Samples) /\ Len(Rows(p)) = n /\ DOMAIN Rows(p) = 1 .. n
    <2>1. DOMAIN Rows(p) = 1 .. n /\ Rows(p) = [x \in 1 .. n |-> Rows(p)[x]]
      BY <1>5
    <2>2. Rows(p) \in [1 .. n -> Samples]
      BY <1>8, <1>9, <2>1
    <2>. QED
      BY <1>4, <2>2
  <1>11. Ordered(Rows(p))
    <2>. SUFFICES ASSUME NEW x \in 1 .. n, NEW y \in 1 .. n, Rows(p)[x] = Rows(p)[y]
                  PROVE  x = y
      BY <1>10 DEF Ordered
    <2>. DEFINE a == s[quo(x) + 1]
                b == s[quo(y) + 1]
    <2>1. a \in Nat /\ b \in Nat /\ a * G + rem(x) = b * G + rem(y)
      BY <1>1, <1>7, <1>8 DEF P
    <2>2. rem(x) \in 0 .. G - 1 /\ rem(y) \in 0 .. G - 1
      BY <1>6
    <2>. HIDE DEF a, b
    <2>3. a = b /\ rem(x) = rem(y)
      BY <1>1, <2>1, <2>2, OneQuotient
    <2>4. quo(x) + 1 = quo(y) + 1 /\ quo(x) \in Nat /\ quo(y) \in Nat
      BY <1>3, <1>6, <2>3 DEF a, b
    <2>5. quo(x) = quo(y)
      BY <2>4
    <2>. QED
      BY <1>6, <2>3, <2>5
  <1>12. ASSUME NEW g \in P
         PROVE  \E r \in 0 .. n : \A j \in 0 .. G - 1 :
                  r + j + 1 \in 1 .. n /\ Rows(p)[r + j + 1] = g * G + j
    <2>1. PICK q \in 1 .. c : s[q] = g
      BY <1>3
    <2>. DEFINE d == q - 1
                r == d * G
    <2>2. d \in Nat /\ d + 1 = q /\ d + 1 <= c
      BY <1>2
    <2>3. r \in Nat /\ r + G <= n
      <3>1. (d + 1) * G <= c * G /\ (d + 1) * G = d * G + G /\ d * G \in Nat /\ c * G \in Nat
        BY <1>1, <1>2, <2>2, Multiples
      <3>. QED
        BY <3>1 DEF n
    <2>4. ASSUME NEW j \in 0 .. G - 1
          PROVE  r + j + 1 \in 1 .. n /\ Rows(p)[r + j + 1] = g * G + j
      <3>1. r + j + 1 \in 1 .. n
        <4>. HIDE DEF r
        <4>. QED
          BY <1>1, <1>4, <2>3
      <3>. DEFINE x == r + j + 1
      <3>2. quo(x) = d /\ rem(x) = j
        <4>1. (G * d + j) \div G = d /\ (G * d + j) % G = j
          BY <1>1, <2>2, Euclid
        <4>2. x - 1 = G * d + j
          <5>1. r = G * d
            BY <1>1, <2>2
          <5>2. x - 1 = r + j
            <6>. HIDE DEF r
            <6>. QED
              BY <2>3
          <5>. QED
            BY <5>1, <5>2
        <4>. QED
          BY <4>1, <4>2 DEF quo, rem
      <3>. HIDE DEF r, d
      <3>3. Rows(p)[x] = s[quo(x) + 1] * G + rem(x)
        BY <1>7, <3>1
      <3>. HIDE DEF x
      <3>4. Rows(p)[x] = g * G + j
        BY <2>1, <2>2, <3>2, <3>3
      <3>. QED
        BY <3>1, <3>4 DEF x
    <2>5. r \in 0 .. n
      <3>. HIDE DEF r
      <3>. QED
        BY <1>1, <1>4, <2>3
    <2>. HIDE DEF r
    <2>. QED
      BY <2>4, <2>5
  <1>. HIDE DEF n
  <1>. QED
    BY <1>8, <1>9, <1>10, <1>11, <1>12 DEF G, P, RowsOfGroups

-----------------------------------------------------------------------------
(***************************************************************************)
(* Workloads are sums: of the samples of a micro-batch, of the groups of   *)
(* a part, of the parts of a state.                                        *)
(***************************************************************************)

LEMMA LoadIs ==
  ASSUME NEW S \in SUBSET Samples
  PROVE  Load(S) = SumOf(Weights, S)
  <1>. DEFINE IsLoad(f) ==
         f = [s \in SUBSET S |-> IF s = {} THEN 0
                                 ELSE calculate_workload(seq_len[Taken(s)]) + f[s \ {Taken(s)}]]
  <1>1. Load(S) = (CHOOSE f : IsLoad(f))[S]
    BY Zenon DEF Load, MapThenSumSet, MapThenFoldSet, Taken
  <1>2. \A s \in SUBSET S : s # {} => Weights[Taken(s)] = calculate_workload(seq_len[Taken(s)])
    <2>1. \A s \in SUBSET S : s # {} => Taken(s) \in Samples
      BY DEF Taken
    <2>. QED
      BY <2>1 DEF Weights
  <1>3. \A f : IsLoad(f) <=> IsSum(Weights, f, S)
    <2>. SUFFICES ASSUME NEW f PROVE IsLoad(f) <=> IsSum(Weights, f, S)
      OBVIOUS
    <2>1. \A s \in SUBSET S :
            (IF s = {} THEN 0 ELSE calculate_workload(seq_len[Taken(s)]) + f[s \ {Taken(s)}])
              = (IF s = {} THEN 0 ELSE Weights[Taken(s)] + f[s \ {Taken(s)}])
      BY <1>2
    <2>. DEFINE a(s) == IF s = {} THEN 0
                        ELSE calculate_workload(seq_len[Taken(s)]) + f[s \ {Taken(s)}]
                b(s) == IF s = {} THEN 0 ELSE Weights[Taken(s)] + f[s \ {Taken(s)}]
    <2>2. \A s \in SUBSET S : a(s) = b(s)
      BY <2>1
    <2>3. (IsLoad(f) <=> f = [s \in SUBSET S |-> a(s)])
          /\ (IsSum(Weights, f, S) <=> f = [s \in SUBSET S |-> b(s)])
      BY DEF IsSum
    <2>. HIDE DEF a, b, IsLoad
    <2>4. [s \in SUBSET S |-> a(s)] = [s \in SUBSET S |-> b(s)]
      BY <2>2
    <2>. QED
      BY <2>3, <2>4
  <1>. HIDE DEF IsLoad
  <1>4. (CHOOSE f : IsLoad(f)) = (CHOOSE f : IsSum(Weights, f, S))
    BY <1>3
  <1>. QED
    BY <1>1, <1>4 DEF SumOf, SumTable

LEMMA TokensIs == \A S : Tokens(S) = SumOf(seq_len, S)
  BY Zenon DEF Tokens, MapThenSumSet, MapThenFoldSet, IsSum, Taken, SumTable, SumOf

\* The workload of a full micro-batch.
Full == calculate_workload(args.max_token_len)

LEMMA WeightsAre ==
  ASSUME Grouped
  PROVE  /\ Full \in Nat \ {0} /\ Full = (24576 + args.max_token_len) * args.max_token_len
         /\ \A i \in Samples : /\ Weights[i] \in Nat /\ Weights[i] <= Full
                               /\ Weights[i] <= (24576 + args.max_token_len) * seq_len[i]
  <1>. DEFINE L == args.max_token_len
  <1>1. L \in Nat \ {0} /\ \A i \in Samples : seq_len[i] \in Nat \ {0} /\ seq_len[i] <= L
    BY GroupedIs
  <1>. HIDE DEF L
  <1>2. \A m \in Nat : (24576 + L) * m = 24576 * m + L * m
    BY <1>1
  <1>3. \A m, l \in Nat : m <= l => m * m \in Nat /\ l * m \in Nat /\ l * l \in Nat
                                    /\ m * m <= l * m /\ l * m <= l * l
    <2>. SUFFICES ASSUME NEW m \in Nat, NEW l \in Nat, m <= l
                  PROVE  m * m \in Nat /\ l * m \in Nat /\ l * l \in Nat
                         /\ m * m <= l * m /\ l * m <= l * l
      OBVIOUS
    <2>1. m * m \in Nat /\ l * m \in Nat /\ m * m <= l * m
      BY Multiples
    <2>2. l * l \in Nat /\ l * m <= l * l
      BY Products
    <2>. QED
      BY <2>1, <2>2
  <1>4. Full = 24576 * L + L * L
    BY DEF Full, calculate_workload, L
  <1>5. Full \in Nat \ {0} /\ Full = (24576 + L) * L
    <2>1. L * L \in Nat /\ (24576 + L) * L = 24576 * L + L * L
      BY <1>1, <1>2, <1>3
    <2>. QED
      BY <1>1, <1>4, <2>1
  <1>6. ASSUME NEW i \in Samples
        PROVE  Weights[i] \in Nat /\ Weights[i] <= Full /\ Weights[i] <= (24576 + L) * seq_len[i]
    <2>. DEFINE m == seq_len[i]
    <2>1. m \in Nat /\ m <= L
      BY <1>1
    <2>2. Weights[i] = 24576 * m + m * m
      BY DEF Weights, calculate_workload
    <2>. HIDE DEF m
    <2>. DEFINE a == m * m
                b == L * m
                c == L * L
    <2>3. a \in Nat /\ b \in Nat /\ c \in Nat /\ a <= b /\ b <= c
      BY <1>1, <1>3, <2>1
    <2>4. (24576 + L) * m = 24576 * m + b
      BY <1>2, <2>1
    <2>. HIDE DEF a, b, c
    <2>5. Weights[i] \in Nat /\ Weights[i] <= Full
      BY <1>1, <1>4, <2>1, <2>2, <2>3 DEF a, c
    <2>6. Weights[i] <= (24576 + L) * m
      BY <2>1, <2>2, <2>3, <2>4 DEF a
    <2>. QED
      BY <2>5, <2>6 DEF m
  <1>. QED
    BY <1>5, <1>6 DEF L

\* The workload of groups is that of their members; one group weighs no more than its samples may.
LEMMA GroupLoads ==
  ASSUME Sampled
  PROVE  /\ \A g \in Items : workload[g] \in Nat /\ workload[g] <= args.group * Full
         /\ \A P \in SUBSET Items :
              SumOf(workload, P) = SumOf(Weights, UNION {Members(g) : g \in P})
  <1>1. /\ \A g \in Items : /\ Members(g) \subseteq Samples /\ IsFiniteSet(Members(g))
                            /\ Cardinality(Members(g)) = args.group
        /\ \A g, h \in Items : g # h => Members(g) \cap Members(h) = {}
    BY MembersAre, ItemsAre DEF Sampled
  <1>2. Full \in Nat /\ \A i \in Samples : Weights[i] \in Nat /\ Weights[i] <= Full
    BY WeightsAre DEF Sampled
  <1>3. \A g \in Items : workload[g] = SumOf(Weights, Members(g))
    BY ItemsAre
  <1>4. ASSUME NEW g \in Items PROVE workload[g] \in Nat /\ workload[g] <= args.group * Full
    <2>. DEFINE M == Members(g)
    <2>1. /\ IsFiniteSet(M) /\ Cardinality(M) = args.group
          /\ \A x \in M : Weights[x] \in Nat /\ Weights[x] <= Full
      BY <1>1, <1>2
    <2>. HIDE DEF M
    <2>2. SumOf(Weights, M) \in Nat /\ SumOf(Weights, M) <= Cardinality(M) * Full
      BY <1>2, <2>1, SumBounded
    <2>. QED
      BY <1>3, <2>1, <2>2 DEF M
  <1>5. ASSUME NEW P \in SUBSET Items
        PROVE  SumOf(workload, P) = SumOf(Weights, UNION {Members(g) : g \in P})
    <2>. DEFINE fam == [g \in P |-> Members(g)]
    <2>1. IsFiniteSet(P)
      BY ItemsAre, FS_Subset
    <2>2. \A g \in P : fam[g] = Members(g) /\ g \in Items
      OBVIOUS
    <2>3. UNION {fam[g] : g \in P} = UNION {Members(g) : g \in P}
      OBVIOUS
    <2>. HIDE DEF fam
    <2>4. /\ \A g \in P : IsFiniteSet(fam[g]) /\ workload[g] = SumOf(Weights, fam[g])
          /\ \A g \in P : \A x \in fam[g] : Weights[x] \in Nat
          /\ \A g, h \in P : g # h => fam[g] \cap fam[h] = {}
      BY <1>1, <1>2, <1>3, <2>2
    <2>5. SumOf(workload, P) = SumOf(Weights, Whole(fam, P))
      BY <2>1, <2>4, SumOfSums
    <2>. QED
      BY <2>3, <2>5 DEF Whole
  <1>. QED
    BY <1>4, <1>5

\* A part's sum is that of its items.
Summed == \A s \in states_pq : \A i \in Parts : s[i].sum = SumOf(workload, s[i].items)

LEMMA SumOne ==
  ASSUME NEW F, NEW x, F[x] \in Nat
  PROVE  SumOf(F, {x}) = F[x] /\ SumOf(F, {}) = 0
  <1>1. IsFiniteSet({x}) /\ {x} # {} /\ \A y \in {x} : y = x
    BY FS_Singleton
  <1>2. Taken({x}) \in {x} /\ SumOf(F, {x}) = F[Taken({x})] + SumOf(F, {x} \ {Taken({x})})
    BY <1>1, SumStep
  <1>3. Taken({x}) = x
    BY <1>2
  <1>4. {x} \ {x} = {} /\ SumOf(F, {}) = 0
    BY <1>1, SumStep
  <1>. QED
    BY <1>2, <1>3, <1>4

LEMMA SumsStart == Pushes /\ ~ equal_size => Summed
  <1>. SUFFICES ASSUME Pushes, ~ equal_size, NEW s \in states_pq, NEW i \in Parts
                PROVE  s[i].sum = SumOf(workload, s[i].items)
    BY DEF Summed
  <1>1. PICK x \in Items : s = Alone(x)
    BY DEF Pushes, Push
  <1>2. workload[x] \in Nat
    BY Sizes DEF Pushes
  <1>3. SumOf(workload, {x}) = workload[x] /\ SumOf(workload, {}) = 0
    BY <1>2, SumOne
  <1>4. s[i] = IF i = 1 THEN Single(x) ELSE Empty
    BY <1>1 DEF Alone
  <1>. QED
    BY <1>3, <1>4 DEF Single, Empty

LEMMA SumsStep == IInv /\ Summed /\ [Next]_vars => Summed'
  <1>. SUFFICES ASSUME IInv, Summed, [Next]_vars PROVE Summed'
    OBVIOUS
  <1>1. CASE Merge
    <2>1. UNCHANGED <<workload, k, equal_size>>
      BY <1>1 DEF Merge
    <2>2. PICK s \in states_pq, t \in states_pq : s # t /\ \E u \in Sortings(Merged(s, t)) :
            states_pq' = (states_pq \ {s, t}) \cup {u}
      BY <1>1 DEF Merge, Top
    <2>3. PICK u \in Sortings(Merged(s, t)) : states_pq' = (states_pq \ {s, t}) \cup {u}
      BY <2>2
    <2>4. PICK p \in Arrangements : u = [i \in Parts |-> Merged(s, t)[p[i]]]
      BY <2>3 DEF Sortings
    <2>5. Parameters /\ s \in [Parts -> Part] /\ t \in [Parts -> Part]
      BY DEF IInv, Typed
    <2>6. IsFiniteSet(Items) /\ k \in Nat /\ \A x \in Items : workload[x] \in Nat
      BY <2>5, Sizes
    <2>7. ASSUME NEW i \in Parts PROVE u[i].sum = SumOf(workload, u[i].items)
      <3>1. p[i] \in Parts
        BY DEF Arrangements, Arrangements, Parts
      <3>. DEFINE j == p[i]
                  l == k + 1 - j
      <3>2. j \in Parts /\ l \in Parts
        BY <2>6, <3>1 DEF Parts
      <3>3. u[i] = Join(s[j], t[l])
        BY <2>4, <3>2 DEF Merged
      <3>. HIDE DEF j, l
      <3>. DEFINE a == s[j].items
                  b == t[l].items
      <3>4. s[j].sum = SumOf(workload, a) /\ t[l].sum = SumOf(workload, b)
        BY <3>2 DEF Summed
      <3>5. a \subseteq Items /\ b \subseteq Items
        BY <2>5, <3>2 DEF Part
      <3>6. IsFiniteSet(a) /\ IsFiniteSet(b) /\ \A x \in a \cup b : workload[x] \in Nat
        BY <2>6, <3>5, FS_Subset
      <3>7. a \cap b = {}
        BY <2>2, <3>2 DEF IInv, EachItemOnce
      <3>8. u[i].items = a \cup b /\ u[i].sum = SumOf(workload, a) + SumOf(workload, b)
        BY <3>3, <3>4 DEF Join
      <3>. HIDE DEF a, b
      <3>9. SumOf(workload, a \cup b) = SumOf(workload, a) + SumOf(workload, b)
        BY <3>6, <3>7, SumAdds
      <3>. QED
        BY <3>8, <3>9
    <2>8. \A v \in states_pq' : \A i \in Parts : v[i].sum = SumOf(workload, v[i].items)
      BY <2>3, <2>7 DEF Summed
    <2>. QED
      BY <2>1, <2>8 DEF Summed, Parts
  <1>2. CASE UNCHANGED vars
    <2>1. UNCHANGED <<workload, k, states_pq>>
      BY <1>2 DEF vars
    <2>. QED
      BY <2>1 DEF Summed, Parts
  <1>. QED
    BY <1>1, <1>2 DEF Next

-----------------------------------------------------------------------------
(***************************************************************************)
(* The call: how many micro-batches there are, and that its steps are the  *)
(* differencing method on the workloads of the groups.                     *)
(***************************************************************************)

Larger(x, a, b) == x \in {a, b} /\ x >= a /\ x >= b
Lesser(x, a, b) == x \in {a, b} /\ x <= a /\ x <= b

LEMMA TwoNumbers ==
  ASSUME NEW a \in Int, NEW b \in Int
  PROVE  Larger(Max({a, b}), a, b) /\ Lesser(Min({a, b}), a, b)
  <1>1. Max({a, b}) = CHOOSE x \in {a, b} : \A y \in {a, b} : x >= y
    BY Zenon DEF Max
  <1>2. Min({a, b}) = CHOOSE x \in {a, b} : \A y \in {a, b} : x <= y
    BY Zenon DEF Min
  <1>3. \E x \in {a, b} : \A y \in {a, b} : x >= y
    OBVIOUS
  <1>4. \E x \in {a, b} : \A y \in {a, b} : x <= y
    OBVIOUS
  <1>5. Max({a, b}) \in {a, b} /\ \A y \in {a, b} : Max({a, b}) >= y
    BY <1>1, <1>3, Zenon
  <1>6. Min({a, b}) \in {a, b} /\ \A y \in {a, b} : Min({a, b}) <= y
    BY <1>2, <1>4, Zenon
  <1>. QED
    BY <1>5, <1>6 DEF Larger, Lesser

LEMMA Rounded ==
  ASSUME NEW a \in Nat, NEW b \in Nat \ {0}
  PROVE  /\ ceildiv(a, b) \in Nat /\ ceildiv(a, b) * b \in Nat /\ ceildiv(a, b) * b >= a
         /\ roundup_divisible(a, b) = ceildiv(a, b) * b
  <1>. DEFINE x == a + b - 1
              q == x \div b
              r == x % b
  <1>1. x \in Nat /\ b >= 1 /\ b \in Nat
    OBVIOUS
  <1>2. q \in Nat /\ r \in 0 .. b - 1 /\ x = q * b + r
    <2>. HIDE DEF x
    <2>. QED
      BY <1>1, Division
  <1>3. q * b \in Nat
    BY <1>1, <1>2, Products
  <1>4. ceildiv(a, b) = q /\ roundup_divisible(a, b) = q * b
    BY DEF ceildiv, roundup_divisible
  <1>. DEFINE z == q * b
  <1>5. z \in Nat /\ a + b - 1 = z + r
    BY <1>2, <1>3
  <1>. HIDE DEF z, q, r
  <1>6. z >= a
    BY <1>1, <1>2, <1>5
  <1>. QED
    BY <1>2, <1>4, <1>5, <1>6 DEF z

\* As many micro-batches as hold all tokens, or one for every group.
LEMMA BatchCount ==
  ASSUME Grouped
  PROVE  /\ num_micro_batches \in Nat \ {0}
         /\ num_micro_batches >= num_groups
              \/ SumOf(seq_len, Samples) <= num_micro_batches * args.max_token_len
  <1>. DEFINE T == Tokens(Samples)
              L == args.max_token_len
              c == ceildiv(T, L)
              m == Min({num_groups, c})
              w == Max({args.min, m})
              v == Max({w, args.peers})
              n == num_micro_batches
  <1>1. /\ L \in Nat \ {0} /\ args.min \in Nat /\ args.peers \in Nat
        /\ args.divided_by \in Nat \ {0}
        /\ num_groups \in Nat \ {0} /\ IsFiniteSet(Samples) /\ Cardinality(Samples) > 0
        /\ \A i \in Samples : seq_len[i] \in Nat /\ seq_len[i] >= 1
    <2>1. args.group \in Nat \ {0} /\ num_groups \in Nat \ {0}
      BY GroupedIs
    <2>2. num_groups * args.group > 0
      BY <2>1, Products
    <2>. QED
      BY <2>1, <2>2, GroupedIs
  <1>2. T = SumOf(seq_len, Samples)
    BY TokensIs
  <1>3. T \in Nat /\ T > 0
    <2>1. /\ Cardinality(Samples) * 1 <= SumOf(seq_len, Samples)
          /\ SumOf(seq_len, Samples) \in Nat /\ Cardinality(Samples) \in Nat
      BY <1>1, SumBounded
    <2>. QED
      BY <1>1, <1>2, <2>1
  <1>. HIDE DEF T, L
  <1>4. c \in Nat /\ c * L \in Nat /\ c * L >= T
    BY <1>1, <1>3, Rounded
  <1>5. c > 0
    <2>1. c = 0 => c * L = 0
      BY <1>1
    <2>. HIDE DEF c
    <2>. QED
      BY <1>3, <1>4, <2>1
  <1>. HIDE DEF c
  <1>6. m \in Nat \ {0} /\ (m = num_groups \/ m = c)
    <2>1. Lesser(m, num_groups, c)
      BY <1>1, <1>4, TwoNumbers
    <2>. QED
      BY <1>1, <1>4, <1>5, <2>1 DEF Lesser
  <1>7. w = Wanted
    BY DEF w, m, c, T, L, Wanted
  <1>. HIDE DEF m
  <1>8. w \in Nat /\ w >= m
    <2>1. Larger(w, args.min, m)
      BY <1>1, <1>6, TwoNumbers
    <2>. QED
      BY <1>1, <1>6, <2>1 DEF Larger
  <1>. HIDE DEF w
  <1>9. v \in Nat /\ v >= w
    <2>1. Larger(v, w, args.peers)
      BY <1>1, <1>8, TwoNumbers
    <2>. QED
      BY <1>1, <1>8, <2>1 DEF Larger
  <1>10. n = roundup_divisible(v, args.divided_by)
    BY <1>7 DEF num_micro_batches
  <1>. HIDE DEF v, n
  <1>11. n \in Nat /\ n >= v
    BY <1>1, <1>9, <1>10, Rounded
  <1>12. n >= m /\ n \in Nat \ {0}
    BY <1>6, <1>8, <1>9, <1>11
  <1>13. CASE m = num_groups
    BY <1>12, <1>13 DEF n
  <1>14. CASE m = c
    <2>1. c * L <= n * L /\ n * L \in Nat
      BY <1>1, <1>4, <1>12, <1>14, Multiples
    <2>2. T <= n * L
      <3>. DEFINE a == c * L
                  b == n * L
      <3>1. a \in Nat /\ b \in Nat /\ a >= T /\ a <= b
        BY <1>4, <2>1
      <3>. HIDE DEF a, b
      <3>2. T <= b
        BY <1>3, <3>1
      <3>. QED
        BY <3>2 DEF b
    <2>. QED
      BY <1>2, <1>12, <2>2 DEF n, L
  <1>. QED
    BY <1>6, <1>13, <1>14

Running ==
  /\ k \in 1 .. num_groups
  /\ k = num_groups \/ SumOf(seq_len, Samples) <= k * args.max_token_len
  /\ IInv /\ Summed

\* The answer of state s: of K parts, of groups of G samples, in order b.
HeaviestFirst(S) == SortedBy(S, HeavierThan)
Upward(S) == SortedBy(S, <)

RowsOf(p, G) ==
  [r \in 1 .. Len(Upward(p.items)) * G |->
     Upward(p.items)[(r - 1) \div G + 1] * G + ((r - 1) % G)]

OrderingOf(s, K, b) == IF b THEN LightAtEnds(HeaviestFirst({s[i] : i \in 1 .. K})) ELSE s

AnswerOf(s, K, G, b) == [i \in 1 .. K |-> RowsOf(OrderingOf(s, K, b)[i], G)]

Answered == \E s \in states_pq : micro_bsz_idx = AnswerOf(s, k, args.group, args.balance)

MicroInv ==
  /\ Sampled /\ equal_size = FALSE
  /\ seq_len \in [Samples -> Lengths]
  /\ pc \in {"split", "merge", "done", "failed"}
  /\ pc \in {"split", "failed"} => states_pq = {}
  /\ pc \in {"merge", "done"} => Running
  /\ pc = "done" => Done /\ Answered

LEMMA MicroStarts == MInit => MicroInv
  <1>. SUFFICES ASSUME MInit PROVE MicroInv
    OBVIOUS
  <1>. DEFINE G == args.group
  <1>1. args \in Arguments /\ G \in Nat \ {0}
    BY MicroBatchesAssumption DEF MInit
  <1>2. PICK n \in 1 .. MaxSamples + args.group - 1 :
          /\ n % args.group = 0
          /\ seq_len \in [0 .. n - 1 -> {l \in Lengths : l <= args.max_token_len}]
    BY DEF MInit
  <1>3. n \in Nat /\ n >= 1 /\ G >= 1
    BY <1>1, <1>2, MicroBatchesAssumption
  <1>. DEFINE m == n \div G
  <1>4. m \in Nat /\ n = m * G
    <2>1. m \in Nat /\ n = m * G + (n % G)
      BY <1>1, <1>3, Division
    <2>2. m * G \in Nat
      BY <1>1, <2>1, Products
    <2>. HIDE DEF m
    <2>. QED
      BY <1>2, <1>3, <2>1, <2>2
  <1>5. m # 0
    <2>1. m = 0 => m * G = 0
      BY <1>1
    <2>. HIDE DEF m
    <2>. QED
      BY <1>3, <1>4, <2>1
  <1>6. /\ seq_len \in [0 .. m * G - 1 -> Lengths]
        /\ \A i \in Samples : seq_len[i] <= args.max_token_len
        /\ seq_len \in [Samples -> Lengths]
    <2>1. seq_len \in [0 .. n - 1 -> Lengths]
      BY <1>2
    <2>2. 0 .. n - 1 = 0 .. m * G - 1
      BY <1>4, Zenon
    <2>3. \A i \in Samples : seq_len[i] <= args.max_token_len
      BY <1>2 DEF Samples
    <2>4. seq_len \in [Samples -> Lengths]
      BY <2>1 DEF Samples
    <2>. HIDE DEF m
    <2>. QED
      BY <2>1, <2>2, <2>3, <2>4, Zenon
  <1>. HIDE DEF m
  <1>7. Grouped
    BY <1>1, <1>4, <1>5, <1>6 DEF Grouped
  <1>8. \A g \in 0 .. num_groups - 1 : Load(Members(g)) = SumOf(Weights, Members(g))
    BY <1>7, MembersAre, LoadIs
  <1>9. workload = [g \in 0 .. num_groups - 1 |-> Load(Members(g))]
    BY DEF MInit
  <1>10. Sampled
    BY <1>7, <1>8, <1>9 DEF Sampled
  <1>. QED
    BY <1>6, <1>10 DEF MInit, MicroInv

LEMMA SplitStep ==
  ASSUME MicroInv, Split
  PROVE  (Sampled /\ Pushes /\ equal_size = FALSE)' /\ pc' = "merge"
         /\ k' \in 1 .. num_groups
         /\ (k' = num_groups \/ SumOf(seq_len, Samples) <= k' * args.max_token_len)
         /\ UNCHANGED <<workload, equal_size, seq_len, args, micro_bsz_idx>>
  <1>1. /\ k' = num_micro_batches /\ num_micro_batches <= num_groups /\ pc' = "merge"
        /\ states_pq' = {[i \in 1 .. k' |-> IF i = 1 THEN Single(g) ELSE Empty] : g \in Items}
        /\ UNCHANGED <<workload, equal_size, seq_len, args, micro_bsz_idx>>
    BY DEF Split
  <1>2. Sampled /\ equal_size = FALSE /\ Grouped
    BY DEF MicroInv, Sampled
  <1>3. /\ num_micro_batches \in Nat \ {0} /\ num_groups \in Nat \ {0}
        /\ num_micro_batches >= num_groups
             \/ SumOf(seq_len, Samples) <= num_micro_batches * args.max_token_len
    BY <1>2, BatchCount, GroupedIs
  <1>4. /\ k' \in 1 .. num_groups
        /\ k' = num_groups \/ SumOf(seq_len, Samples) <= k' * args.max_token_len
    BY <1>1, <1>3
  <1>5. Sampled'
    BY <1>1, <1>2 DEF Sampled, Grouped, Samples, num_groups, Weights, calculate_workload, Members
  <1>6. workload \in [0 .. num_groups - 1 -> Nat]
    <2>1. workload = [g \in Items |-> workload[g]]
      BY <1>2 DEF Sampled, Items
    <2>. QED
      BY <1>2, <2>1, GroupLoads, ItemsAre
  <1>7. Parameters'
    BY <1>1, <1>3, <1>4, <1>6 DEF Parameters
  <1>8. Push'
    <2>1. equal_size' = FALSE
      BY <1>1, <1>2
    <2>2. states_pq' = {[i \in 1 .. k' |-> IF i = 1 THEN [items |-> {x}, sum |-> workload'[x]]
                                           ELSE [items |-> {}, sum |-> 0]] : x \in DOMAIN workload'}
      BY <1>1 DEF Single, Empty, Items
    <2>. QED
      BY <2>1, <2>2 DEF Push, Alone, Single, Empty, Items, Parts
  <1>9. Pushes'
    BY <1>1, <1>2, <1>7, <1>8 DEF Pushes
  <1>. QED
    BY <1>1, <1>2, <1>4, <1>5, <1>9

LEMMA MicroSteps == MicroInv /\ [MNext]_mvars => MicroInv'
  <1>1. (Pushes => IInv)' /\ (Pushes /\ ~ equal_size => Summed)'
    <2>1. (Pushes => IInv) /\ (Pushes /\ ~ equal_size => Summed)
      BY Pushed, SumsStart
    <2>. QED
      BY <2>1, PTL
  <1>. SUFFICES ASSUME MicroInv, [MNext]_mvars PROVE MicroInv'
    OBVIOUS
  <1>2. ASSUME UNCHANGED <<args, seq_len, workload, equal_size>>
        PROVE  /\ Sampled' /\ (equal_size = FALSE)' /\ (seq_len \in [Samples -> Lengths])'
               /\ num_groups' = num_groups /\ Samples' = Samples
    BY <1>2 DEF MicroInv, Sampled, Grouped, Samples, num_groups, Weights, calculate_workload,
                Members
  <1>3. ASSUME Running, [Next]_vars, UNCHANGED <<args, seq_len, workload, k, equal_size>>
        PROVE  Running'
    <2>1. IInv' /\ Summed'
      BY <1>3, Step, SumsStep DEF Running
    <2>2. num_groups' = num_groups /\ Samples' = Samples
      BY <1>2, <1>3
    <2>. QED
      BY <1>3, <2>1, <2>2 DEF Running
  <1>4. CASE Refuse
    <2>1. /\ pc' = "failed" /\ states_pq' = {}
          /\ UNCHANGED <<args, seq_len, workload, equal_size>>
      BY <1>4 DEF Refuse, MicroInv, vars
    <2>. QED
      BY <1>2, <2>1 DEF MicroInv
  <1>5. CASE Split
    <2>1. /\ (Sampled /\ Pushes /\ equal_size = FALSE)' /\ pc' = "merge"
          /\ k' \in 1 .. num_groups
          /\ (k' = num_groups \/ SumOf(seq_len, Samples) <= k' * args.max_token_len)
          /\ UNCHANGED <<workload, equal_size, seq_len, args, micro_bsz_idx>>
      BY <1>5, SplitStep
    <2>2. IInv' /\ Summed'
      BY <1>1, <2>1
    <2>3. /\ (seq_len \in [Samples -> Lengths])' /\ num_groups' = num_groups /\ Samples' = Samples
      BY <1>2, <2>1
    <2>4. Running'
      BY <2>1, <2>2, <2>3 DEF Running
    <2>. QED
      BY <2>1, <2>3, <2>4 DEF MicroInv
  <1>6. CASE MergeTop
    <2>1. pc = "merge" /\ Merge /\ UNCHANGED <<seq_len, args, micro_bsz_idx, pc>>
      BY <1>6 DEF MergeTop
    <2>2. UNCHANGED <<workload, k, equal_size>> /\ [Next]_vars
      BY <2>1 DEF Merge, Next
    <2>3. Running'
      BY <1>3, <2>1, <2>2 DEF MicroInv
    <2>. QED
      BY <1>2, <2>1, <2>2, <2>3 DEF MicroInv
  <1>7. CASE Order
    <2>1. pc = "merge" /\ Done /\ pc' = "done" /\ UNCHANGED <<vars, seq_len, args>>
      BY <1>7 DEF Order
    <2>2. UNCHANGED <<workload, k, equal_size, states_pq>> /\ [Next]_vars
      BY <2>1 DEF vars
    <2>3. Running'
      BY <1>3, <2>1, <2>2 DEF MicroInv
    <2>4. \E s \in states_pq : micro_bsz_idx' = AnswerOf(s, k, args.group, args.balance)
      BY <1>7, Zenon DEF Order, AnswerOf, OrderingOf, RowsOf, Rows, HeaviestFirst, Upward, Parts
    <2>5. PICK s \in states_pq : micro_bsz_idx' = AnswerOf(s, k, args.group, args.balance)
      BY <2>4
    <2>6. states_pq' = states_pq /\ k' = k /\ args' = args
      BY <2>1, <2>2
    <2>7. Answered'
      BY <2>5, <2>6 DEF Answered
    <2>8. Done'
      BY <2>1, <2>6 DEF Done
    <2>. QED
      BY <1>2, <2>1, <2>2, <2>3, <2>7, <2>8 DEF MicroInv
  <1>8. CASE UNCHANGED mvars
    <2>1. UNCHANGED <<workload, k, equal_size, states_pq, seq_len, args, micro_bsz_idx, pc>>
          /\ [Next]_vars
      BY <1>8 DEF mvars, vars
    <2>2. Running => Running'
      BY <1>3, <2>1
    <2>3. Done /\ Answered => Done' /\ Answered'
      <3>1. /\ states_pq' = states_pq /\ k' = k /\ args' = args
            /\ micro_bsz_idx' = micro_bsz_idx
        BY <2>1
      <3>. QED
        BY <3>1 DEF Done, Answered
    <2>. QED
      BY <1>2, <2>1, <2>2, <2>3 DEF MicroInv
  <1>. QED
    BY <1>4, <1>5, <1>6, <1>7, <1>8 DEF MNext

-----------------------------------------------------------------------------
(***************************************************************************)
(* The result: what the micro-batches of a call that is done hold, and in  *)
(* what order they run.                                                    *)
(***************************************************************************)

\* Which of the n micro-batches, from the heaviest on, runs as the i-th.
Place(i, n) ==
  IF i <= (n + 1) \div 2 THEN 2 * (((n + 1) \div 2) - i) + 1 ELSE 2 * (i - ((n + 1) \div 2))

LEMMA Places ==
  ASSUME NEW n \in Nat \ {0}
  PROVE  /\ \A i \in 1 .. n : Place(i, n) \in 1 .. n
         /\ \A i, j \in 1 .. n : Place(i, n) = Place(j, n) => i = j
         /\ \A j \in 1 .. n : \E i \in 1 .. n : Place(i, n) = j
         /\ \A a, b, d \in 1 .. n :
              a < b /\ b < d => Place(b, n) < Place(a, n) \/ Place(b, n) < Place(d, n)
  <1>. DEFINE h == (n + 1) \div 2
  <1>1. h \in Nat /\ (n = 2 * h \/ n = 2 * h - 1)
    OBVIOUS
  <1>2. \A i : Place(i, n) = IF i <= h THEN 2 * (h - i) + 1 ELSE 2 * (i - h)
    BY DEF Place
  <1>. HIDE DEF h
  <1>3. \A i \in 1 .. n : Place(i, n) \in 1 .. n
    BY <1>1, <1>2
  <1>4. \A i, j \in 1 .. n : Place(i, n) = Place(j, n) => i = j
    BY <1>1, <1>2
  <1>5. ASSUME NEW j \in 1 .. n PROVE \E i \in 1 .. n : Place(i, n) = j
    <2>1. PICK x \in Nat : j = 2 * x \/ j = 2 * x + 1
      <3>1. j \div 2 \in Nat /\ (j = 2 * (j \div 2) \/ j = 2 * (j \div 2) + 1)
        OBVIOUS
      <3>. QED
        BY <3>1
    <2>2. CASE j = 2 * x
      <3>1. h + x \in 1 .. n /\ Place(h + x, n) = j
        BY <1>1, <1>2, <2>1, <2>2
      <3>. QED
        BY <3>1
    <2>3. CASE j = 2 * x + 1
      <3>1. h - x \in 1 .. n /\ Place(h - x, n) = j
        BY <1>1, <1>2, <2>1, <2>3
      <3>. QED
        BY <3>1
    <2>. QED
      BY <2>1, <2>2, <2>3
  <1>6. \A a, b, d \in 1 .. n :
          a < b /\ b < d => Place(b, n) < Place(a, n) \/ Place(b, n) < Place(d, n)
    BY <1>1, <1>2
  <1>. QED
    BY <1>3, <1>4, <1>5, <1>6

\* c deals the groups to the micro-batches.
Deal(c) ==
  /\ c \in [Parts -> Part]
  /\ \A b \in Parts : c[b].items # {} /\ c[b].sum = SumOf(workload, c[b].items)
  /\ \A b, d \in Parts : b # d => c[b].items \cap c[d].items = {}
  /\ \A g \in Items : \E b \in Parts : g \in c[b].items

\* No two differ by more than one group weighs.
Even(c) == \E x \in Items : \A b, d \in Parts : c[b].sum <= c[d].sum + workload[x]

\* The lightest run first and last.
EndsLight(c) ==
  \A a, b, d \in Parts : a < b /\ b < d => c[b].sum >= c[a].sum \/ c[b].sum >= c[d].sum

LEMMA ResultDeals ==
  ASSUME MicroInv, pc = "done", NEW s \in states_pq
  PROVE  Deal(s) /\ Even(s)
  <1>1. Running /\ Done
    BY DEF MicroInv
  <1>2. /\ Parameters /\ s \in [Parts -> Part] /\ Shaped(s) /\ InnerDisjoint(s)
        /\ ItemsOf(s) = Items
    BY <1>1, Result DEF Running
  <1>3. NoneEmpty
    BY <1>1, NotEmpty DEF Running
  <1>4. Deal(s)
    <2>1. \A b \in Parts : s[b].items # {} /\ s[b].sum = SumOf(workload, s[b].items)
      BY <1>1, <1>3 DEF NoneEmpty, Running, Summed
    <2>. QED
      BY <1>2, <2>1 DEF Deal, InnerDisjoint, ItemsOf
  <1>5. Even(s)
    <2>1. PICK x \in Items : s[1].sum - s[k].sum <= workload[x]
      BY <1>2 DEF Shaped, SmallSpread, Spread
    <2>2. k \in Nat /\ k >= 1 /\ workload[x] \in Nat
      BY <1>2, Sizes
    <2>3. 1 \in Parts /\ k \in Parts /\ \A b \in Parts : s[b].sum \in Nat
      BY <1>2, <2>2 DEF Parts, Part
    <2>4. \A b \in Parts : s[1].sum >= s[b].sum /\ s[b].sum >= s[k].sum
      BY <1>2, <2>2, <2>3 DEF Shaped, InOrder, Parts
    <2>5. \A b, d \in Parts : s[b].sum <= s[d].sum + workload[x]
      BY <2>1, <2>2, <2>3, <2>4
    <2>. QED
      BY <2>5 DEF Even
  <1>. QED
    BY <1>4, <1>5

LEMMA Answer ==
  ASSUME MicroInv, pc = "done"
  PROVE  \E c : /\ Deal(c) /\ Even(c) /\ (args.balance => EndsLight(c))
                /\ micro_bsz_idx = [b \in Parts |-> Rows(c[b])]
  <1>1. Running /\ Answered /\ Sampled
    BY DEF MicroInv
  <1>2. PICK s \in states_pq : micro_bsz_idx = AnswerOf(s, k, args.group, args.balance)
    BY <1>1 DEF Answered
  <1>. DEFINE c == OrderingOf(s, k, args.balance)
  <1>3. micro_bsz_idx = [b \in Parts |-> Rows(c[b])]
    BY <1>2, Zenon DEF AnswerOf, RowsOf, Rows, Upward, Parts
  <1>4. Deal(s) /\ Even(s)
    BY ResultDeals
  <1>5. CASE ~ args.balance
    <2>1. c = s
      BY <1>5 DEF OrderingOf
    <2>. QED
      BY <1>3, <1>4, <1>5, <2>1
  <1>6. CASE args.balance
    <2>. DEFINE P == {s[i] : i \in Parts}
                h == HeaviestFirst(P)
    <2>1. c = LightAtEnds(h)
      BY <1>6 DEF OrderingOf, Parts
    <2>2. k \in Nat \ {0} /\ Parameters /\ Parts = 1 .. k
          /\ IsFiniteSet(Parts) /\ Cardinality(Parts) = k
      <3>1. Parameters
        BY <1>1 DEF Running, IInv, Typed
      <3>2. k \in Nat \ {0}
        BY <3>1, Sizes
      <3>. QED
        BY <3>1, <3>2, FS_Interval DEF Parts
    <2>3. \A i, j \in Parts : s[i] = s[j] => i = j
      BY <1>4 DEF Deal
    <2>4. IsFiniteSet(P) /\ Cardinality(P) = k
      <3>. DEFINE f == [i \in Parts |-> s[i]]
      <3>1. f \in Bijection(Parts, P)
        BY <2>3 DEF Bijection, Injection, IsInjective, Surjection
      <3>2. ExistsBijection(Parts, P)
        BY <3>1 DEF ExistsBijection
      <3>. QED
        BY <2>2, <3>2, FS_Bijection
    <2>5. /\ \A p \in P : p.sum \in Nat /\ p.items \in SUBSET Nat /\ p.items # {}
          /\ \A p, q \in P : p # q => p.items \cap q.items = {}
      <3>1. Items \subseteq Nat
        BY <2>2, Sizes
      <3>2. \A i \in Parts : s[i].sum \in Nat /\ s[i].items \in SUBSET Nat /\ s[i].items # {}
        BY <1>4, <3>1 DEF Deal, Part
      <3>. QED
        BY <1>4, <3>2 DEF Deal
    <2>6. /\ h \in Bijection(1 .. k, P) /\ Len(h) = k
          /\ \A i, j \in 1 .. k : i < j => h[i].sum >= h[j].sum
      BY <2>4, <2>5, SortedDownward DEF HeaviestFirst
    <2>7. /\ \A p \in P : \E j \in Parts : p = s[j]
          /\ \A j \in Parts : s[j] \in P
      OBVIOUS
    <2>. HIDE DEF h, P
    <2>8. /\ h \in [1 .. k -> P] /\ DOMAIN h = 1 .. k
          /\ \A i, j \in 1 .. k : h[i] = h[j] => i = j
          /\ \A p \in P : \E i \in 1 .. k : h[i] = p
      BY <2>6 DEF Bijection, Injection, IsInjective, Surjection
    <2>9. c = [i \in 1 .. k |-> h[Place(i, k)]]
      <3>1. c = [i \in 1 .. k |-> IF i <= (k + 1) \div 2 THEN h[2 * (((k + 1) \div 2) - i) + 1]
                                  ELSE h[2 * (i - ((k + 1) \div 2))]]
        BY <2>1, <2>6, <2>8 DEF LightAtEnds
      <3>2. \A i \in 1 .. k : (IF i <= (k + 1) \div 2 THEN h[2 * (((k + 1) \div 2) - i) + 1]
                               ELSE h[2 * (i - ((k + 1) \div 2))]) = h[Place(i, k)]
        BY DEF Place
      <3>. QED
        BY <3>1, <3>2
    <2>. HIDE DEF c
    <2>10. /\ \A i \in 1 .. k : Place(i, k) \in 1 .. k
           /\ \A i, j \in 1 .. k : Place(i, k) = Place(j, k) => i = j
           /\ \A j \in 1 .. k : \E i \in 1 .. k : Place(i, k) = j
           /\ \A a, b, d \in 1 .. k :
                a < b /\ b < d => Place(b, k) < Place(a, k) \/ Place(b, k) < Place(d, k)
      BY <2>2, Places
    <2>11. /\ c \in [1 .. k -> P]
           /\ \A i, j \in 1 .. k : c[i] = c[j] => i = j
           /\ \A p \in P : \E i \in 1 .. k : c[i] = p
      <3>1. c \in [1 .. k -> P] /\ \A i \in 1 .. k : c[i] = h[Place(i, k)]
        BY <2>8, <2>9, <2>10
      <3>2. \A i, j \in 1 .. k : c[i] = c[j] => i = j
        BY <2>8, <2>10, <3>1
      <3>3. ASSUME NEW p \in P PROVE \E i \in 1 .. k : c[i] = p
        <4>1. PICK j \in 1 .. k : h[j] = p
          BY <2>8
        <4>2. PICK i \in 1 .. k : Place(i, k) = j
          BY <2>10
        <4>. QED
          BY <3>1, <4>1, <4>2
      <3>. QED
        BY <3>1, <3>2, <3>3
    <2>12. \A i \in Parts : \E j \in Parts : c[i] = s[j]
      BY <2>2, <2>11, <2>7
    <2>13. \A j \in Parts : \E i \in Parts : c[i] = s[j]
      BY <2>2, <2>11, <2>7
    <2>14. Deal(c)
      <3>1. c \in [Parts -> Part]
        <4>1. DOMAIN c = Parts /\ c = [i \in Parts |-> c[i]]
          BY <2>2, <2>11
        <4>2. \A i \in Parts : c[i] \in Part
          BY <1>4, <2>12 DEF Deal
        <4>. QED
          BY <4>1, <4>2
      <3>2. \A b \in Parts : c[b].items # {} /\ c[b].sum = SumOf(workload, c[b].items)
        BY <1>4, <2>12 DEF Deal
      <3>3. ASSUME NEW b \in Parts, NEW d \in Parts, b # d
            PROVE  c[b].items \cap c[d].items = {}
        <4>1. PICK i \in Parts : c[b] = s[i]
          BY <2>12
        <4>2. PICK j \in Parts : c[d] = s[j]
          BY <2>12
        <4>3. i # j
          BY <2>2, <2>11, <3>3, <4>1, <4>2
        <4>. QED
          BY <1>4, <4>1, <4>2, <4>3 DEF Deal
      <3>4. \A g \in Items : \E b \in Parts : g \in c[b].items
        <4>. SUFFICES ASSUME NEW g \in Items PROVE \E b \in Parts : g \in c[b].items
          OBVIOUS
        <4>1. PICK j \in Parts : g \in s[j].items
          BY <1>4 DEF Deal
        <4>2. PICK i \in Parts : c[i] = s[j]
          BY <2>13
        <4>. QED
          BY <4>1, <4>2
      <3>. QED
        BY <3>1, <3>2, <3>3, <3>4 DEF Deal
    <2>15. Even(c)
      <3>1. PICK x \in Items : \A b, d \in Parts : s[b].sum <= s[d].sum + workload[x]
        BY <1>4 DEF Even
      <3>2. \A b, d \in Parts : c[b].sum <= c[d].sum + workload[x]
        BY <2>12, <3>1
      <3>. QED
        BY <3>2 DEF Even
    <2>16. EndsLight(c)
      <3>. SUFFICES ASSUME NEW a \in 1 .. k, NEW b \in 1 .. k, NEW d \in 1 .. k, a < b, b < d
                    PROVE  c[b].sum >= c[a].sum \/ c[b].sum >= c[d].sum
        BY <2>2 DEF EndsLight
      <3>1. Place(b, k) < Place(a, k) \/ Place(b, k) < Place(d, k)
        BY <2>10
      <3>2. /\ c[a] = h[Place(a, k)] /\ c[b] = h[Place(b, k)] /\ c[d] = h[Place(d, k)]
            /\ Place(a, k) \in 1 .. k /\ Place(b, k) \in 1 .. k /\ Place(d, k) \in 1 .. k
        BY <2>9, <2>10
      <3>. QED
        BY <2>6, <3>1, <3>2
    <2>. QED
      BY <1>3, <2>14, <2>15, <2>16
  <1>. QED
    BY <1>5, <1>6

\* Every sample is an element of one micro-batch, once, and the members of a group are together.
LEMMA Restored == MicroInv => MTypeOK /\ OutputsRestored /\ GroupsStay
  <1>. SUFFICES ASSUME MicroInv PROVE MTypeOK /\ OutputsRestored /\ GroupsStay
    OBVIOUS
  <1>1. /\ args \in Arguments /\ seq_len \in [Samples -> Lengths]
        /\ pc \in {"split", "merge", "done", "failed"}
    BY DEF MicroInv, Sampled, Grouped
  <1>2. CASE pc # "done"
    BY <1>1, <1>2 DEF MTypeOK, OutputsRestored, GroupsStay
  <1>3. CASE pc = "done"
    <2>1. PICK c : Deal(c) /\ micro_bsz_idx = [b \in Parts |-> Rows(c[b])]
      BY <1>3, Answer
    <2>2. Sampled /\ Grouped /\ Parameters /\ k \in Nat \ {0} /\ Parts = 1 .. k
      <3>1. Sampled /\ Parameters
        BY <1>3 DEF MicroInv, Running, IInv, Typed
      <3>. QED
        BY <3>1, Sizes DEF Sampled, Parts
    <2>3. ASSUME NEW b \in Parts
          PROVE  RowsOfGroups(micro_bsz_idx[b], c[b].items)
      <3>1. c[b].items \in SUBSET Items
        BY <2>1 DEF Deal, Part
      <3>2. micro_bsz_idx[b] = Rows(c[b])
        BY <2>1
      <3>. QED
        BY <2>2, <3>1, <3>2, RowsAre
    <2>4. micro_bsz_idx \in [Parts -> Seq(Samples)] /\ DOMAIN micro_bsz_idx = Parts
      <3>1. \A b \in Parts : micro_bsz_idx[b] \in Seq(Samples)
        BY <2>3 DEF RowsOfGroups
      <3>. QED
        BY <2>1, <3>1
    <2>5. /\ Items = 0 .. num_groups - 1
          /\ \A g, h \in Items : g # h => Members(g) \cap Members(h) = {}
          /\ \A i \in Samples : \E g \in Items : i \in Members(g)
      BY <2>2, ItemsAre, MembersAre
    <2>6. Apart(micro_bsz_idx, k)
      <3>. SUFFICES ASSUME NEW b \in Parts, NEW d \in Parts, NEW x \in DOMAIN micro_bsz_idx[b],
                           NEW y \in DOMAIN micro_bsz_idx[d],
                           micro_bsz_idx[b][x] = micro_bsz_idx[d][y]
                    PROVE  b = d /\ x = y
        BY <2>2 DEF Apart
      <3>1. PICK g \in c[b].items : micro_bsz_idx[b][x] \in Members(g)
        BY <2>3 DEF RowsOfGroups
      <3>2. PICK h \in c[d].items : micro_bsz_idx[d][y] \in Members(h)
        BY <2>3 DEF RowsOfGroups
      <3>3. g \in Items /\ h \in Items
        BY <2>1 DEF Deal, Part
      <3>4. g = h
        BY <2>5, <3>1, <3>2, <3>3
      <3>5. b = d
        BY <2>1, <3>4 DEF Deal
      <3>. QED
        BY <2>3, <3>5 DEF RowsOfGroups, Ordered
    <2>7. Flat(indices, micro_bsz_idx, k, Samples)
      BY <2>2, <2>4, <2>6, FlattenIs DEF indices
    <2>8. GroupsStay
      <3>. SUFFICES ASSUME NEW g \in Items
                    PROVE  \E b \in DOMAIN micro_bsz_idx :
                             \E r \in 0 .. Len(micro_bsz_idx[b]) : \A j \in 0 .. args.group - 1 :
                               /\ r + j + 1 \in DOMAIN micro_bsz_idx[b]
                               /\ micro_bsz_idx[b][r + j + 1] = g * args.group + j
        BY DEF GroupsStay
      <3>1. PICK b \in Parts : g \in c[b].items
        BY <2>1 DEF Deal
      <3>. QED
        BY <2>3, <2>4, <3>1 DEF RowsOfGroups
    <2>9. \A j \in Samples : \E x \in DOMAIN indices : indices[x] = j
      <3>. SUFFICES ASSUME NEW j \in Samples PROVE \E x \in DOMAIN indices : indices[x] = j
        OBVIOUS
      <3>1. PICK g \in Items : j \in Members(g)
        BY <2>5
      <3>2. PICK b \in DOMAIN micro_bsz_idx : \E r \in 0 .. Len(micro_bsz_idx[b]) :
              \A l \in 0 .. args.group - 1 :
                /\ r + l + 1 \in DOMAIN micro_bsz_idx[b]
                /\ micro_bsz_idx[b][r + l + 1] = g * args.group + l
        BY <1>3, <2>8 DEF GroupsStay
      <3>3. PICK y \in DOMAIN micro_bsz_idx[b] : micro_bsz_idx[b][y] = j
        BY <3>1, <3>2 DEF Members
      <3>. QED
        BY <2>2, <2>4, <2>7, <3>3 DEF Flat
    <2>. DEFINE s == indices
                n == Len(s)
    <2>10. s \in Seq(Samples) /\ Ordered(s) /\ n \in Nat /\ DOMAIN s = 1 .. n
      BY <2>7, LenProperties DEF Flat
    <2>11. Range(s) = Samples
      BY <2>9, <2>10 DEF Range
    <2>12. Len(indices) = Cardinality(Samples)
      <3>1. s \in Bijection(1 .. n, Samples)
        BY <2>9, <2>10 DEF Ordered, Bijection, Injection, IsInjective, Surjection
      <3>2. IsFiniteSet(1 .. n) /\ Cardinality(1 .. n) = n
        BY <2>10, FS_Interval
      <3>3. ExistsBijection(1 .. n, Samples)
        BY <3>1 DEF ExistsBijection
      <3>. QED
        BY <3>2, <3>3, FS_Bijection
    <2>13. restore_dynamic_batch(indices) = [j \in Samples |-> j]
      <3>. DEFINE place == [j \in Range(s) |-> CHOOSE i \in DOMAIN s : s[i] = j]
      <3>1. get_reverse_idx(s) = place
        BY DEF get_reverse_idx
      <3>2. restore_dynamic_batch(s) = [j \in DOMAIN place |-> s[place[j]]]
        BY <3>1, Zenon DEF restore_dynamic_batch
      <3>3. \A j \in Samples : s[place[j]] = j
        BY <2>9, <2>11
      <3>4. DOMAIN place = Samples
        BY <2>11
      <3>. HIDE DEF place, s
      <3>5. [j \in DOMAIN place |-> s[place[j]]] = [j \in Samples |-> j]
        BY <3>3, <3>4
      <3>. QED
        BY <3>2, <3>5 DEF s
    <2>. QED
      BY <1>1, <2>4, <2>8, <2>12, <2>13 DEF MTypeOK, OutputsRestored
  <1>. QED
    BY <1>2, <1>3

\* The load of a micro-batch is the sum of its part.
LEMMA LoadOf ==
  ASSUME Sampled, Parameters, NEW c, Deal(c), micro_bsz_idx = [b \in Parts |-> Rows(c[b])],
         NEW b \in Parts
  PROVE  Load(Range(micro_bsz_idx[b])) = c[b].sum /\ c[b].sum \in Nat
  <1>. DEFINE p == c[b]
              S == UNION {Members(g) : g \in p.items}
  <1>1. p.items \in SUBSET Items /\ p.sum = SumOf(workload, p.items) /\ p.sum \in Nat
    BY DEF Deal, Part
  <1>2. /\ \A x \in DOMAIN Rows(p) : \E g \in p.items : Rows(p)[x] \in Members(g)
        /\ \A g \in p.items : \E r \in 0 .. Len(Rows(p)) : \A j \in 0 .. args.group - 1 :
             r + j + 1 \in DOMAIN Rows(p) /\ Rows(p)[r + j + 1] = g * args.group + j
    BY <1>1, RowsAre DEF RowsOfGroups
  <1>3. Range(Rows(p)) = S
    <2>1. Range(Rows(p)) \subseteq S
      BY <1>2 DEF Range
    <2>2. ASSUME NEW g \in p.items, NEW i \in Members(g) PROVE i \in Range(Rows(p))
      BY <1>2 DEF Members, Range
    <2>. QED
      BY <2>1, <2>2
  <1>4. S \in SUBSET Samples
    BY <1>1, ItemsAre, MembersAre DEF Sampled
  <1>5. Load(S) = SumOf(Weights, S) /\ SumOf(workload, p.items) = SumOf(Weights, S)
    BY <1>1, <1>4, LoadIs, GroupLoads
  <1>. QED
    BY <1>1, <1>3, <1>5

LEMMA Lighter == MicroInv => LightEnds
  <1>. SUFFICES ASSUME MicroInv, pc = "done", args.balance,
                       NEW a \in DOMAIN micro_bsz_idx, NEW b \in DOMAIN micro_bsz_idx,
                       NEW d \in DOMAIN micro_bsz_idx, a < b, b < d
                PROVE  Load(Range(micro_bsz_idx[b]))
                         >= Min({Load(Range(micro_bsz_idx[a])), Load(Range(micro_bsz_idx[d]))})
    BY DEF LightEnds
  <1>1. PICK c : Deal(c) /\ EndsLight(c) /\ micro_bsz_idx = [e \in Parts |-> Rows(c[e])]
    BY Answer
  <1>2. Sampled /\ Parameters /\ a \in Parts /\ b \in Parts /\ d \in Parts
    BY <1>1 DEF MicroInv, Running, IInv, Typed
  <1>. DEFINE At(e) == Load(Range(micro_bsz_idx[e]))
  <1>3. \A e \in Parts : At(e) = c[e].sum /\ At(e) \in Nat
    BY <1>1, <1>2, LoadOf
  <1>4. At(b) >= At(a) \/ At(b) >= At(d)
    BY <1>1, <1>2, <1>3 DEF EndsLight
  <1>5. At(a) \in Nat /\ At(b) \in Nat /\ At(d) \in Nat
    BY <1>2, <1>3
  <1>. HIDE DEF At
  <1>6. Lesser(Min({At(a), At(d)}), At(a), At(d))
    BY <1>5, TwoNumbers
  <1>7. At(b) >= Min({At(a), At(d)})
    BY <1>4, <1>5, <1>6 DEF Lesser
  <1>. QED
    BY <1>7 DEF At

\* As many micro-batches as groups: each is one group.
LEMMA OneEach ==
  ASSUME Sampled, Parameters, NEW c, Deal(c), k = num_groups, NEW b \in Parts
  PROVE  c[b].sum <= args.group * Full
  <1>1. PICK g \in c[b].items : TRUE
    BY DEF Deal
  <1>2. /\ IsFiniteSet(Items) /\ Cardinality(Items) = k /\ k \in Nat
        /\ IsFiniteSet(Parts) /\ Cardinality(Parts) = k
    <2>1. IsFiniteSet(Items) /\ Cardinality(Items) = k /\ k \in Nat
      BY ItemsAre, Sizes
    <2>. QED
      BY <2>1, FS_Interval DEF Parts
  <1>3. ASSUME NEW h \in c[b].items, h # g PROVE FALSE
    <2>. DEFINE first == [d \in Parts |-> IF d = b THEN g ELSE CHOOSE x \in c[d].items : TRUE]
    <2>1. \A d \in Parts : first[d] \in c[d].items
      BY DEF Deal
    <2>2. first[b] = g
      OBVIOUS
    <2>. HIDE DEF first
    <2>3. \A d \in Parts : first[d] \in Items \ {h}
      <3>. SUFFICES ASSUME NEW d \in Parts PROVE first[d] \in Items /\ first[d] # h
        OBVIOUS
      <3>1. first[d] \in Items
        BY <2>1 DEF Deal, Part
      <3>2. CASE d = b
        BY <1>3, <2>2, <3>1, <3>2
      <3>3. CASE d # b
        BY <1>3, <2>1, <3>1, <3>3 DEF Deal
      <3>. QED
        BY <3>2, <3>3
    <2>4. first \in Injection(Parts, Items \ {h})
      <3>1. \A d, e \in Parts : first[d] = first[e] => d = e
        BY <2>1 DEF Deal
      <3>2. first \in [Parts -> Items \ {h}]
        BY <2>3 DEF first
      <3>. QED
        BY <3>1, <3>2 DEF Injection, IsInjective
    <2>5. h \in Items
      BY <1>3 DEF Deal, Part
    <2>6. IsFiniteSet(Items \ {h}) /\ Cardinality(Items \ {h}) = k - 1
      BY <1>2, <2>5, FS_RemoveElement
    <2>7. Cardinality(Parts) <= Cardinality(Items \ {h})
      BY <2>4, <2>6, FS_Injection
    <2>. QED
      BY <1>2, <2>6, <2>7
  <1>4. c[b].items = {g} /\ g \in Items
    BY <1>1, <1>3 DEF Deal, Part
  <1>5. workload[g] \in Nat /\ workload[g] <= args.group * Full
    BY <1>4, GroupLoads
  <1>6. SumOf(workload, {g}) = workload[g]
    BY <1>5, SumOne
  <1>. QED
    BY <1>4, <1>5, <1>6 DEF Deal

\* All workloads together, when the tokens fit.
LEMMA AllLoads ==
  ASSUME Sampled, Parameters, NEW c, Deal(c),
         SumOf(seq_len, Samples) <= k * args.max_token_len
  PROVE  LET H == [d \in Parts |-> c[d].sum] IN SumOf(H, Parts) <= k * Full
  <1>. DEFINE H == [d \in Parts |-> c[d].sum]
              L == args.max_token_len
              W == 24576 + L
              T == SumOf(seq_len, Samples)
              fam == [d \in Parts |-> c[d].items]
              mem == [g \in Items |-> Members(g)]
  <1>1. /\ k \in Nat \ {0} /\ IsFiniteSet(Items) /\ IsFiniteSet(Parts)
        /\ Grouped /\ Items = 0 .. num_groups - 1
    <2>1. k \in Nat \ {0}
      BY Sizes
    <2>. QED
      BY <2>1, ItemsAre, FS_Interval DEF Parts, Sampled
  <1>2. SumOf(H, Parts) = SumOf(workload, Items)
    <2>1. /\ \A d \in Parts : IsFiniteSet(fam[d]) /\ H[d] = SumOf(workload, fam[d])
          /\ \A d \in Parts : \A x \in fam[d] : workload[x] \in Nat
          /\ \A d, e \in Parts : d # e => fam[d] \cap fam[e] = {}
      <3>1. \A d \in Parts : fam[d] \in SUBSET Items
        BY DEF Deal, Part
      <3>2. \A d \in Parts : IsFiniteSet(fam[d])
        BY <1>1, <3>1, FS_Subset
      <3>3. \A d \in Parts : H[d] = SumOf(workload, fam[d])
        BY DEF Deal
      <3>4. \A g \in Items : workload[g] \in Nat
        BY GroupLoads
      <3>. QED
        BY <3>1, <3>2, <3>3, <3>4 DEF Deal
    <2>2. SumOf(H, Parts) = SumOf(workload, Whole(fam, Parts))
      <3>. HIDE DEF H, fam
      <3>. QED
        BY <1>1, <2>1, SumOfSums
    <2>3. Whole(fam, Parts) = Items
      BY DEF Whole, Deal, Part
    <2>. QED
      BY <2>2, <2>3
  <1>3. SumOf(workload, Items) = SumOf(Weights, Samples)
    <2>1. SumOf(workload, Items) = SumOf(Weights, UNION {Members(g) : g \in Items})
      BY GroupLoads
    <2>2. UNION {Members(g) : g \in Items} = Samples
      BY <1>1, MembersAre
    <2>. QED
      BY <2>1, <2>2
  <1>4. /\ IsFiniteSet(Samples) /\ L \in Nat \ {0} /\ Full \in Nat /\ Full = W * L
        /\ \A i \in Samples : /\ Weights[i] \in Nat /\ seq_len[i] \in Nat
                              /\ Weights[i] <= W * seq_len[i]
    <2>1. IsFiniteSet(Samples) /\ L \in Nat \ {0} /\ \A i \in Samples : seq_len[i] \in Nat
      BY <1>1, GroupedIs
    <2>2. Full \in Nat /\ Full = W * L
      BY <1>1, WeightsAre
    <2>3. \A i \in Samples : Weights[i] \in Nat /\ Weights[i] <= W * seq_len[i]
      BY <1>1, WeightsAre
    <2>. QED
      BY <2>1, <2>2, <2>3
  <1>. HIDE DEF L
  <1>5. W \in Nat
    BY <1>4
  <1>. HIDE DEF W
  <1>6. SumOf(Weights, Samples) \in Nat /\ T \in Nat /\ SumOf(Weights, Samples) <= W * T
    <2>1. \A i \in Samples : Weights[i] \in Nat /\ seq_len[i] \in Nat
                             /\ 1 * Weights[i] <= W * seq_len[i]
      BY <1>4
    <2>2. SumOf(Weights, Samples) \in Nat /\ SumOf(seq_len, Samples) \in Nat
          /\ 1 * SumOf(Weights, Samples) <= W * SumOf(seq_len, Samples)
      BY <1>4, <1>5, <2>1, SumScales
    <2>. QED
      BY <2>2
  <1>7. T <= k * L
    BY DEF L
  <1>. HIDE DEF T
  <1>8. k * L \in Nat /\ W * T <= W * (k * L) /\ W * T \in Nat /\ W * (k * L) \in Nat
    <2>1. k * L \in Nat
      BY <1>1, <1>4, Products
    <2>. DEFINE y == k * L
    <2>2. y \in Nat /\ T <= y
      BY <1>7, <2>1
    <2>. HIDE DEF y
    <2>3. W * T <= W * y /\ W * T \in Nat /\ W * y \in Nat
      BY <1>5, <1>6, <2>2, Products
    <2>. QED
      BY <2>1, <2>3 DEF y
  <1>9. W * (k * L) = k * Full
    BY <1>1, <1>4, <1>5
  <1>. HIDE DEF H
  <1>10. SumOf(H, Parts) <= k * Full
    <2>. DEFINE a == W * T
                b == W * (k * L)
                s == SumOf(Weights, Samples)
    <2>1. s \in Nat /\ a \in Nat /\ b \in Nat /\ s <= a /\ a <= b /\ SumOf(H, Parts) = s
          /\ b = k * Full
      BY <1>2, <1>3, <1>6, <1>8, <1>9
    <2>. HIDE DEF a, b, s
    <2>2. s <= b
      BY <2>1
    <2>. QED
      BY <2>1, <2>2
  <1>. QED
    BY <1>10 DEF H

\* Were one micro-batch as heavy as that, all others would be at least full, for no two differ by
\* more than a group: together they would hold more than their tokens may weigh.
LEMMA LoadsBounded == MicroInv => LoadBounded
  <1>. DEFINE G == args.group
              F == Full
  <1>. SUFFICES ASSUME MicroInv, pc = "done", NEW b \in DOMAIN micro_bsz_idx
                PROVE  Load(Range(micro_bsz_idx[b])) < (G + 1) * F
    BY DEF LoadBounded, Full
  <1>1. PICK c : Deal(c) /\ Even(c) /\ micro_bsz_idx = [e \in Parts |-> Rows(c[e])]
    BY Answer
  <1>2. /\ Sampled /\ Grouped /\ Parameters /\ b \in Parts
        /\ k = num_groups \/ SumOf(seq_len, Samples) <= k * args.max_token_len
    BY <1>1 DEF MicroInv, Running, IInv, Typed, Sampled
  <1>3. Load(Range(micro_bsz_idx[b])) = c[b].sum /\ \A d \in Parts : c[d].sum \in Nat
    BY <1>1, <1>2, LoadOf
  <1>4. /\ G \in Nat \ {0} /\ F \in Nat \ {0} /\ k \in Nat \ {0}
        /\ IsFiniteSet(Parts) /\ Cardinality(Parts) = k
    <2>1. k \in Nat \ {0}
      BY <1>2, Sizes
    <2>. QED
      BY <1>2, <2>1, GroupedIs, WeightsAre, FS_Interval DEF Parts
  <1>5. PICK x \in Items : \A d, e \in Parts : c[d].sum <= c[e].sum + workload[x]
    BY <1>1 DEF Even
  <1>6. workload[x] \in Nat /\ workload[x] <= G * F
    BY <1>2, GroupLoads
  <1>. HIDE DEF G, F
  <1>7. G * F \in Nat /\ (G + 1) * F = G * F + F /\ G * F >= F
    <2>1. G \in Nat /\ F \in Nat /\ 1 \in Nat /\ 1 <= G
      BY <1>4
    <2>2. G * F \in Nat /\ 1 * F <= G * F /\ (G + 1) * F = G * F + F
      BY <2>1, Multiples
    <2>. QED
      BY <1>4, <2>2
  <1>. DEFINE a == G * F
  <1>8. CASE k = num_groups
    <2>1. c[b].sum <= a
      BY <1>1, <1>2, <1>8, OneEach DEF G, F
    <2>2. a \in Nat /\ (G + 1) * F = a + F
      BY <1>7
    <2>. HIDE DEF a
    <2>3. c[b].sum < a + F
      BY <1>2, <1>3, <1>4, <2>1, <2>2
    <2>. QED
      BY <1>3, <2>2, <2>3
  <1>9. CASE SumOf(seq_len, Samples) <= k * args.max_token_len
    <2>. DEFINE H == [d \in Parts |-> c[d].sum]
    <2>1. SumOf(H, Parts) <= k * F
      BY <1>1, <1>2, <1>9, AllLoads DEF F
    <2>. SUFFICES ASSUME c[b].sum >= a + F PROVE FALSE
      <3>1. a + F \in Nat /\ (G + 1) * F = a + F
        BY <1>4, <1>7
      <3>. HIDE DEF a
      <3>2. c[b].sum < a + F
        BY <1>2, <1>3, <3>1
      <3>. QED
        BY <1>3, <3>1, <3>2
    <2>2. a \in Nat /\ a >= F /\ workload[x] <= a
      BY <1>6, <1>7
    <2>. HIDE DEF a
    <2>3. \A d \in Parts : c[d].sum >= F
      BY <1>2, <1>3, <1>4, <1>5, <1>6, <2>2
    <2>4. \A d \in Parts : H[d] \in Nat /\ H[d] >= F
      BY <1>3, <2>3
    <2>5. H[b] = c[b].sum
      BY <1>2
    <2>. HIDE DEF H
    <2>. DEFINE R == Parts \ {b}
                r == SumOf(H, R)
    <2>6. IsFiniteSet(R) /\ Cardinality(R) = k - 1
      BY <1>2, <1>4, FS_RemoveElement
    <2>7. SumOf(H, Parts) = H[b] + r
      <3>1. AnyTaken(H, Parts)
        BY <1>4, <2>4, SumTakes
      <3>. QED
        BY <1>2, <3>1 DEF AnyTaken
    <2>8. (k - 1) * F <= r /\ r \in Nat
      <3>1. \A d \in R : H[d] \in Nat /\ H[d] >= F
        BY <2>4
      <3>2. F \in Nat
        BY <1>4
      <3>. HIDE DEF R
      <3>3. Cardinality(R) * F <= SumOf(H, R) /\ SumOf(H, R) \in Nat
        BY <2>6, <3>1, <3>2, SumBounded
      <3>. QED
        BY <2>6, <3>3
    <2>9. (k - 1) * F \in Nat /\ ((k - 1) + 1) * F = (k - 1) * F + F /\ (k - 1) + 1 = k
      <3>1. k - 1 \in Nat /\ k \in Nat /\ k - 1 <= k /\ F \in Nat
        BY <1>4
      <3>2. (k - 1) * F \in Nat /\ ((k - 1) + 1) * F = (k - 1) * F + F
        BY <3>1, Multiples
      <3>. QED
        BY <3>1, <3>2
    <2>. DEFINE y == (k - 1) * F
                z == k * F
                t == SumOf(H, Parts)
    <2>10. y \in Nat /\ z = y + F /\ y <= r /\ t <= z /\ t = H[b] + r
      BY <2>1, <2>7, <2>8, <2>9
    <2>. HIDE DEF r, y, z, t
    <2>. QED
      BY <1>3, <1>4, <1>2, <2>2, <2>5, <2>8, <2>10
  <1>. QED
    BY <1>2, <1>8, <1>9

-----------------------------------------------------------------------------
(* The micro-batches beside the other parts. *)

HeapInv == IF part = "micro" THEN MicroInv ELSE IInv

LEMMA HeapStarts == MCInit => HeapInv
  <1>. SUFFICES ASSUME MCInit PROVE HeapInv
    OBVIOUS
  <1>1. CASE part = "micro"
    BY <1>1, MicroStarts DEF MCInit, HeapInv
  <1>2. CASE part = "partition"
    BY <1>2, Initially DEF MCInit, HeapInv
  <1>3. CASE part \notin {"micro", "partition"}
    <2>1. NoPartition
      BY <1>3 DEF MCInit
    <2>2. workload \in [0 .. 1 - 1 -> Nat] /\ k \in 1 .. 1 /\ equal_size = FALSE /\ Push
      BY <2>1 DEF NoPartition
    <2>3. Parameters
      <3>1. \E n \in Nat \ {0} : workload \in [0 .. n - 1 -> Nat] /\ k \in 1 .. n
        BY <2>2
      <3>. QED
        BY <3>1 DEF Parameters
    <2>4. Pushes
      BY <2>2, <2>3 DEF Pushes
    <2>. QED
      BY <1>3, <2>4, Pushed DEF HeapInv
  <1>. QED
    BY <1>1, <1>2, <1>3

LEMMA HeapSteps == HeapInv /\ [MCNext]_<<part, vars, microVars, callVars>> => HeapInv'
  <1>. SUFFICES ASSUME HeapInv, [MCNext]_<<part, vars, microVars, callVars>> PROVE HeapInv'
    OBVIOUS
  <1>1. part' = part
    BY DEF MCNext
  <1>2. CASE part = "micro"
    <2>1. MNext \/ UNCHANGED <<vars, microVars>>
      BY <1>2 DEF MCNext
    <2>2. [MNext]_mvars
      BY <2>1 DEF mvars, microVars
    <2>. QED
      BY <1>1, <1>2, <2>2, MicroSteps DEF HeapInv
  <1>3. CASE part # "micro"
    <2>1. [Next]_vars
      BY <1>3 DEF MCNext
    <2>. QED
      BY <1>1, <1>3, <2>1, Step DEF HeapInv
  <1>. QED
    BY <1>2, <1>3

THEOREM HeapInductive == MCSpec => []HeapInv
  BY HeapStarts, HeapSteps, PTL DEF MCSpec

\* The output of every sample comes back to the row of that sample, for every list of lengths and
\* every call: the rows of the micro-batches, one after another, are the samples in an order, each
\* once, and the inverse of that order undoes it.  The samples of a group stay together.
THEOREM OutputsReturn == MCSpec => []RestoredInOrder
  <1>1. HeapInv => RestoredInOrder
    BY Restored DEF HeapInv, RestoredInOrder
  <1>. QED
    BY <1>1, HeapInductive, PTL

\* No micro-batch weighs as much as group + 1 full samples, though nothing in the code compares one
\* with the limit, and no one is lighter than one before it and one after it.
THEOREM LoadsHold == MCSpec => []Loads
  <1>1. HeapInv => Loads
    BY LoadsBounded, Lighter DEF HeapInv, Loads
  <1>. QED
    BY <1>1, HeapInductive, PTL

\* The spread of a state is at most one workload, also among the micro-batches.
THEOREM HeapBalanced == MCSpec => []Balanced
  <1>1. IInv => Balanced
    BY DEF IInv, Shaped, SmallSpread, Balanced
  <1>2. MicroInv => Balanced
    <2>1. MicroInv => states_pq = {} \/ IInv
      BY DEF MicroInv, Running
    <2>2. states_pq = {} => Balanced
      BY DEF Balanced
    <2>. QED
      BY <1>1, <2>1, <2>2
  <1>3. HeapInv => Balanced
    BY <1>1, <1>2 DEF HeapInv
  <1>. QED
    BY <1>3, HeapInductive, PTL
=============================================================================
