------------------------- MODULE MessageQueueProofs -------------------------
(***************************************************************************)
(* Proofs about the message queue, for every size, every set of items and  *)
(* every number of consumers: its counters account for every entry         *)
(* (QueueAccounted), entries leave in the order they came in               *)
(* (QueueInOrder) and each once, the queue gives up only entries it has    *)
(* max_queue_size newer ones for (QueueOldestFirst), and no consumer       *)
(* sleeps beside an entry or after the shutdown (QueueWakes).              *)
(***************************************************************************)
EXTENDS MessageQueue, SequenceTheorems, TLAPS

\* QueueIsSuffix entry by entry.
Suffix ==
  /\ Len(queue) <= Len(order)
  /\ \A i \in 1 .. Len(queue) : queue[i] = order[Len(order) - Len(queue) + i]

\* What was put, has left the queue and was not delivered made room for newer entries, or was
\* cleared; what was delivered came before what is queued.
Left(p) == p \in 1 .. (Len(order) - Len(queue))
Delivered ==
  /\ \A p, q \in DOMAIN order : order[p] = order[q] => p = q
  /\ \A i \in DOMAIN taken : \E p \in DOMAIN order : Left(p) /\ order[p] = taken[i]
  /\ \A i, j \in DOMAIN taken : i < j =>
       \A p, q \in DOMAIN order : order[p] = taken[i] /\ order[q] = taken[j] => p < q
  /\ \A p \in DOMAIN order : Left(p) /\ p > clearedAt =>
       order[p] \in Entries(taken) \/ Len(order) >= p + MaxQueueSize

IInv == TypeOK /\ Accounted /\ NoLostWakeup /\ Suffix /\ Delivered

LEMMA Initially == Init => IInv
  <1>. SUFFICES ASSUME Init PROVE IInv
    OBVIOUS
  <1>. USE DEF Init, QInit
  <1>1. /\ queue \in Seq(Item) /\ order \in Seq(Item) /\ taken \in Seq(Item)
        /\ Len(queue) = 0 /\ DOMAIN order = {} /\ DOMAIN taken = {}
    BY EmptySeq
  <1>2. TypeOK
    BY <1>1, MaxQueueSizeAssumption DEF TypeOK, QTypeOK, CallState
  <1>3. Accounted /\ NoLostWakeup /\ Suffix
    BY <1>1 DEF Accounted, NoLostWakeup, Suffix
  <1>4. Delivered
    BY <1>1 DEF Delivered
  <1>. QED
    BY <1>2, <1>3, <1>4 DEF IInv

\* What put_sample does to the queue.
LEMMA PutEntry ==
  ASSUME QTypeOK, Accounted, NEW x \in Item, Put(x)
  PROVE  /\ QTypeOK' /\ Accounted'
         /\ Len(queue') \in 1 .. Len(queue) + 1 /\ queue'[Len(queue')] = x
         /\ \A i \in 1 .. Len(queue') - 1 :
              queue'[i] = queue[i + Len(queue) + 1 - Len(queue')]
         /\ Len(queue') <= Len(queue) => Len(queue') = Len(queue) /\ Len(queue) >= MaxQueueSize
  <1>. USE MaxQueueSizeAssumption DEF QTypeOK
  <1>0. Len(queue) \in Nat
    OBVIOUS
  <1>1. CASE Full
    <2>1. queue # <<>>
      BY <1>1, <1>0, EmptySeq DEF Full
    <2>. DEFINE rest == Tail(queue)
    <2>2. rest \in Seq(Item) /\ Len(rest) = Len(queue) - 1
          /\ \A i \in 1 .. Len(rest) : rest[i] = queue[i + 1]
      BY <2>1, HeadTailProperties
    <2>3. queue' = Append(rest, x)
      BY <1>1 DEF Put
    <2>. HIDE DEF rest
    <2>4. queue' \in Seq(Item) /\ Len(queue') = Len(queue) /\ queue'[Len(queue')] = x
          /\ \A i \in 1 .. Len(rest) : queue'[i] = rest[i]
      BY <2>2, <2>3, <1>0
    <2>5. QTypeOK' /\ Accounted'
      <3>1. produced' = produced + 1 /\ dropped' = dropped + 1 /\ UNCHANGED <<consumed, cleared>>
        BY <1>1 DEF Put
      <3>. QED
        BY <1>0, <2>4, <3>1 DEF Accounted
    <2>6. Len(queue) >= 1
      BY <1>0, <1>1 DEF Full
    <2>7. \A i \in 1 .. Len(queue') - 1 : queue'[i] = queue[i + 1]
      BY <1>0, <2>2, <2>4
    <2>. QED
      BY <1>0, <1>1, <2>4, <2>5, <2>6, <2>7 DEF Full
  <1>2. CASE ~Full
    <2>1. queue' = Append(queue, x) /\ dropped' = dropped
      BY <1>2 DEF Put
    <2>2. queue' \in Seq(Item) /\ Len(queue') = Len(queue) + 1 /\ queue'[Len(queue')] = x
          /\ \A i \in 1 .. Len(queue) : queue'[i] = queue[i]
      BY <2>1, <1>0
    <2>3. QTypeOK' /\ Accounted'
      BY <1>0, <1>2, <2>1, <2>2 DEF Put, Accounted, Full
    <2>. QED
      BY <1>0, <2>2, <2>3
  <1>. QED
    BY <1>1, <1>2

\* What a get_sample that returns does to it.
LEMMA GetEntry ==
  ASSUME QTypeOK, Accounted, NEW x \in Item, Get(x)
  PROVE  /\ QTypeOK' /\ Accounted'
         /\ Len(queue') = Len(queue) - 1 /\ Len(queue) \in Nat
         /\ \A i \in 1 .. Len(queue') : queue'[i] = queue[i + 1]
         /\ Len(queue) >= 1 /\ x = queue[1]
  <1>1. queue \in Seq(Item) /\ queue # <<>> /\ queue' = Tail(queue)
    BY DEF QTypeOK, Get
  <1>2. queue' \in Seq(Item) /\ Len(queue') = Len(queue) - 1 /\ Len(queue) \in Nat
        /\ \A i \in 1 .. Len(queue') : queue'[i] = queue[i + 1]
    BY <1>1, HeadTailProperties
  <1>3. QTypeOK' /\ Accounted'
    BY <1>2, MaxQueueSizeAssumption DEF QTypeOK, Get, Accounted
  <1>4. Len(queue) >= 1 /\ x = queue[1]
    BY <1>1, HeadTailProperties, EmptySeq DEF Get
  <1>. QED
    BY <1>2, <1>3, <1>4

LEMMA Frame ==
  ASSUME Delivered, UNCHANGED queue, UNCHANGED history
  PROVE  Delivered'
  BY DEF Delivered, history, Left, Entries

LEMMA PutDelivered ==
  ASSUME TypeOK, Suffix, Delivered, NEW x \in Item,
         \A i \in DOMAIN order : order[i] # x,
         order' = Append(order, x), UNCHANGED <<taken, clearedAt>>,
         Len(queue') \in 1 .. Len(queue) + 1,
         Len(queue') <= Len(queue) => Len(queue') = Len(queue) /\ Len(queue) >= MaxQueueSize
  PROVE  Delivered'
  <1>. DEFINE n == Len(order)
              l == Len(queue)
  <1>1. /\ n \in Nat /\ l \in Nat /\ l <= n /\ DOMAIN order = 1 .. n
        /\ MaxQueueSize \in Nat /\ clearedAt \in Nat
    BY MaxQueueSizeAssumption DEF TypeOK, QTypeOK, Suffix
  <1>2. /\ Len(order') = n + 1 /\ DOMAIN order' = 1 .. (n + 1) /\ order'[n + 1] = x
        /\ \A i \in 1 .. n : order'[i] = order[i]
    BY DEF TypeOK
  <1>3. taken' = taken /\ clearedAt' = clearedAt /\ Entries(taken') = Entries(taken)
    BY DEF Entries
  <1>4. \A i \in DOMAIN taken : \E p \in 1 .. n : p <= n - l /\ order[p] = taken[i]
    BY <1>1 DEF Delivered, Left
  <1>5. \A i \in DOMAIN taken : taken[i] # x
    BY <1>1, <1>4
  <1>6. /\ Len(queue') \in Nat /\ Len(queue') <= l + 1
        /\ Len(queue') <= l => Len(queue') = l /\ l >= MaxQueueSize
    BY <1>1
  <1>. HIDE DEF n, l
  <1>7. \A p, q \in DOMAIN order' : order'[p] = order'[q] => p = q
    BY <1>1, <1>2 DEF Delivered
  <1>8. \A i \in DOMAIN taken' : \E p \in DOMAIN order' : Left(p)' /\ order'[p] = taken'[i]
    <2>. SUFFICES ASSUME NEW i \in DOMAIN taken
                  PROVE  \E p \in DOMAIN order' : Left(p)' /\ order'[p] = taken[i]
      BY <1>3
    <2>1. PICK p \in 1 .. n : p <= n - l /\ order[p] = taken[i]
      BY <1>4
    <2>2. p \in DOMAIN order' /\ Left(p)' /\ order'[p] = taken[i]
      BY <1>1, <1>2, <1>6, <2>1 DEF Left
    <2>. QED
      BY <2>2
  <1>9. \A i, j \in DOMAIN taken' : i < j =>
          \A p, q \in DOMAIN order' : order'[p] = taken'[i] /\ order'[q] = taken'[j] => p < q
    <2>. SUFFICES ASSUME NEW i \in DOMAIN taken, NEW j \in DOMAIN taken, i < j,
                         NEW p \in 1 .. (n + 1), NEW q \in 1 .. (n + 1),
                         order'[p] = taken[i], order'[q] = taken[j]
                  PROVE  p < q
      BY <1>2, <1>3
    <2>1. p \in 1 .. n /\ q \in 1 .. n /\ order[p] = taken[i] /\ order[q] = taken[j]
      BY <1>1, <1>2, <1>5
    <2>. QED
      BY <1>1, <2>1 DEF Delivered
  <1>10. \A p \in DOMAIN order' : Left(p)' /\ p > clearedAt' =>
           order'[p] \in Entries(taken') \/ Len(order') >= p + MaxQueueSize
    <2>. SUFFICES ASSUME NEW p \in 1 .. (n + 1), Left(p)', p > clearedAt
                  PROVE  order'[p] \in Entries(taken) \/ n + 1 >= p + MaxQueueSize
      BY <1>2, <1>3
    <2>1. p <= n + 1 - Len(queue')
      BY <1>1, <1>2, <1>6 DEF Left
    <2>2. CASE p <= n - l
      <3>1. p \in DOMAIN order /\ Left(p) /\ order'[p] = order[p]
        BY <1>1, <1>2, <2>2 DEF Left, n, l
      <3>2. order[p] \in Entries(taken) \/ n >= p + MaxQueueSize
        BY <3>1 DEF Delivered, n
      <3>. QED
        BY <1>1, <3>1, <3>2
    <2>3. CASE p > n - l
      BY <1>1, <1>6, <2>1, <2>3
    <2>. QED
      BY <1>1, <2>2, <2>3
  <1>. QED
    BY <1>7, <1>8, <1>9, <1>10 DEF Delivered

LEMMA DeliverDelivered ==
  ASSUME TypeOK, Suffix, Delivered, NEW x \in Item, taken' = Append(taken, x),
         UNCHANGED <<order, clearedAt>>,
         Len(queue') = Len(queue) - 1, Len(queue) >= 1, x = queue[1]
  PROVE  Delivered' /\ taken' \in Seq(Item)
  <1>. DEFINE n == Len(order)
              l == Len(queue)
              k == Len(taken)
              first == n - l + 1
  <1>1. /\ n \in Nat /\ l \in Nat /\ k \in Nat /\ l <= n /\ DOMAIN order = 1 .. n
        /\ DOMAIN taken = 1 .. k /\ first \in 1 .. n
    BY DEF TypeOK, QTypeOK, Suffix
  <1>2. order[first] = x
    <2>1. 1 \in 1 .. l /\ first = n - l + 1
      BY <1>1
    <2>. QED
      BY <2>1 DEF Suffix
  <1>3. /\ taken' \in Seq(Item) /\ DOMAIN taken' = (1 .. k) \cup {k + 1}
        /\ taken'[k + 1] = x /\ \A i \in 1 .. k : taken'[i] = taken[i]
    BY <1>1 DEF TypeOK
  <1>4. Entries(taken) \subseteq Entries(taken') /\ x \in Entries(taken')
    BY <1>1, <1>3 DEF Entries
  <1>5. \A p : Left(p)' <=> p \in 1 .. first
    BY <1>1 DEF Left
  <1>6. \A p : Left(p) <=> p \in 1 .. (first - 1)
    BY <1>1 DEF Left
  <1>7. order' = order /\ clearedAt' = clearedAt /\ first \in 1 .. n /\ Len(order) = n
    BY <1>1
  <1>. HIDE DEF n, l, k, first
  <1>8. \A p, q \in DOMAIN order : order[p] = order[q] => p = q
    BY DEF Delivered
  <1>9. \A i \in 1 .. k, p \in DOMAIN order : order[p] = taken[i] => p < first
    <2>. SUFFICES ASSUME NEW i \in 1 .. k, NEW p \in DOMAIN order, order[p] = taken[i]
                  PROVE  p < first
      OBVIOUS
    <2>1. PICK q \in DOMAIN order : Left(q) /\ order[q] = taken[i]
      BY <1>1 DEF Delivered
    <2>2. p = q /\ q \in 1 .. (first - 1)
      BY <1>6, <1>8, <2>1
    <2>. QED
      BY <1>1, <2>2
  <1>10. \A i \in DOMAIN taken' : \E p \in DOMAIN order : Left(p)' /\ order[p] = taken'[i]
    <2>. SUFFICES ASSUME NEW i \in DOMAIN taken'
                  PROVE  \E p \in DOMAIN order : Left(p)' /\ order[p] = taken'[i]
      OBVIOUS
    <2>1. CASE i = k + 1
      BY <1>1, <1>2, <1>3, <1>5, <2>1
    <2>2. CASE i \in 1 .. k
      <3>1. PICK p \in DOMAIN order : Left(p) /\ order[p] = taken[i]
        BY <1>1, <2>2 DEF Delivered
      <3>. QED
        BY <1>1, <1>3, <1>5, <1>6, <2>2, <3>1
    <2>. QED
      BY <1>3, <2>1, <2>2
  <1>11. \A i, j \in DOMAIN taken' : i < j =>
           \A p, q \in DOMAIN order : order[p] = taken'[i] /\ order[q] = taken'[j] => p < q
    <2>. SUFFICES ASSUME NEW i \in DOMAIN taken', NEW j \in DOMAIN taken', i < j,
                         NEW p \in DOMAIN order, NEW q \in DOMAIN order,
                         order[p] = taken'[i], order[q] = taken'[j]
                  PROVE  p < q
      OBVIOUS
    <2>1. i \in 1 .. k /\ taken'[i] = taken[i]
      BY <1>1, <1>3
    <2>2. CASE j = k + 1
      <3>1. q = first
        BY <1>1, <1>2, <1>3, <1>8, <2>2
      <3>. QED
        BY <1>9, <2>1, <3>1
    <2>3. CASE j \in 1 .. k
      BY <1>1, <1>3, <2>1, <2>3 DEF Delivered
    <2>. QED
      BY <1>3, <2>2, <2>3
  <1>12. \A p \in DOMAIN order : Left(p)' /\ p > clearedAt =>
           order[p] \in Entries(taken') \/ Len(order) >= p + MaxQueueSize
    <2>. SUFFICES ASSUME NEW p \in DOMAIN order, Left(p)', p > clearedAt
                  PROVE  order[p] \in Entries(taken') \/ Len(order) >= p + MaxQueueSize
      OBVIOUS
    <2>1. CASE p = first
      BY <1>2, <1>4, <2>1
    <2>2. CASE p # first
      <3>1. Left(p)
        BY <1>1, <1>5, <1>6, <2>2
      <3>. QED
        BY <1>4, <3>1 DEF Delivered
    <2>. QED
      BY <2>1, <2>2
  <1>13. \A p, q \in DOMAIN order' : order'[p] = order'[q] => p = q
    BY <1>7, <1>8
  <1>14. \A i \in DOMAIN taken' : \E p \in DOMAIN order' : Left(p)' /\ order'[p] = taken'[i]
    BY <1>7, <1>10
  <1>15. \A i, j \in DOMAIN taken' : i < j =>
           \A p, q \in DOMAIN order' :
             order'[p] = taken'[i] /\ order'[q] = taken'[j] => p < q
    BY <1>7, <1>11
  <1>16. \A p \in DOMAIN order' : Left(p)' /\ p > clearedAt' =>
           order'[p] \in Entries(taken') \/ Len(order') >= p + MaxQueueSize
    BY <1>7, <1>12
  <1>. QED
    BY <1>3, <1>13, <1>14, <1>15, <1>16 DEF Delivered

LEMMA Step == IInv /\ [Next]_vars => IInv'
  <1>. SUFFICES ASSUME IInv, [Next]_vars PROVE IInv'
    OBVIOUS
  <1>. USE DEF IInv, TypeOK, CallState
  <1>0. Len(queue) \in Nat /\ Len(order) \in Nat
    BY DEF QTypeOK
  <1>1. ASSUME NEW x \in Item, PutSample(x) PROVE IInv'
    <2>1. /\ QTypeOK' /\ Accounted'
          /\ Len(queue') \in 1 .. Len(queue) + 1 /\ queue'[Len(queue')] = x
          /\ \A i \in 1 .. Len(queue') - 1 :
               queue'[i] = queue[i + Len(queue) + 1 - Len(queue')]
          /\ Len(queue') <= Len(queue) => Len(queue') = Len(queue) /\ Len(queue) >= MaxQueueSize
      BY <1>1, PutEntry DEF PutSample
    <2>2. order' \in Seq(Item) /\ Len(order') = Len(order) + 1 /\ order'[Len(order')] = x
          /\ \A i \in 1 .. Len(order) : order'[i] = order[i]
      BY <1>0, <1>1 DEF PutSample
    <2>3. call' \in [Consumer -> CallState] /\ \A c \in Consumer : call'[c] # "waiting"
      BY <1>1 DEF PutSample, Notified
    <2>4. ASSUME NEW i \in 1 .. Len(queue')
          PROVE  queue'[i] = order'[Len(order') - Len(queue') + i]
      <3>1. CASE i = Len(queue')
        <4>1. Len(order') - Len(queue') + i = Len(order')
          BY <1>0, <2>1, <2>2, <3>1
        <4>. QED
          BY <2>1, <2>2, <3>1, <4>1
      <3>2. CASE i # Len(queue')
        <4>. DEFINE j == i + Len(queue) + 1 - Len(queue')
        <4>1. i \in 1 .. Len(queue') - 1 /\ j \in 1 .. Len(queue)
          BY <1>0, <2>1, <3>2
        <4>2. queue'[i] = queue[j]
          BY <2>1, <4>1
        <4>3. queue[j] = order[Len(order) - Len(queue) + j]
          BY <4>1 DEF Suffix
        <4>4. Len(order) - Len(queue) + j = Len(order') - Len(queue') + i
          BY <1>0, <2>1, <2>2
        <4>5. Len(order) - Len(queue) + j \in 1 .. Len(order)
          BY <1>0, <4>1 DEF Suffix
        <4>. HIDE DEF j
        <4>. QED
          BY <2>2, <4>2, <4>3, <4>4, <4>5
      <3>. QED
        BY <3>1, <3>2
    <2>5. Suffix'
      BY <1>0, <2>1, <2>2, <2>4 DEF Suffix
    <2>6. Delivered'
      BY <1>1, <2>1, <2>2, PutDelivered DEF PutSample
    <2>. QED
      BY <1>1, <2>1, <2>2, <2>3, <2>5, <2>6 DEF PutSample, NoLostWakeup
  <1>2. ASSUME NEW c \in Consumer, Wait(c) PROVE IInv'
    <2>1. UNCHANGED <<queue, produced, consumed, dropped, cleared, running, history>>
      BY <1>2 DEF Wait, qvars
    <2>2. QTypeOK' /\ Accounted' /\ Suffix'
      BY <2>1 DEF QTypeOK, Accounted, Suffix, history
    <2>3. call' \in [Consumer -> CallState]
      BY <1>2 DEF Wait
    <2>4. NoLostWakeup'
      BY <1>2, <2>1 DEF Wait, NoLostWakeup
    <2>. QED
      BY <2>1, <2>2, <2>3, <2>4, Frame DEF history
  <1>3. ASSUME NEW c \in Consumer, Deliver(c) PROVE IInv'
    <2>1. PICK x \in Item : Get(x) /\ taken' = Append(taken, x)
      BY <1>3 DEF Deliver
    <2>2. /\ QTypeOK' /\ Accounted'
          /\ Len(queue') = Len(queue) - 1
          /\ \A i \in 1 .. Len(queue') : queue'[i] = queue[i + 1]
          /\ Len(queue) >= 1 /\ x = queue[1]
      BY <2>1, GetEntry
    <2>3. UNCHANGED <<running, order, clearedAt>> /\ call' \in [Consumer -> CallState]
      BY <1>3 DEF Deliver
    <2>4. ASSUME NEW i \in 1 .. Len(queue')
          PROVE  queue'[i] = order[Len(order) - Len(queue') + i]
      <3>1. i + 1 \in 1 .. Len(queue)
        BY <1>0, <2>2
      <3>2. queue[i + 1] = order[Len(order) - Len(queue) + (i + 1)]
        BY <3>1 DEF Suffix
      <3>3. Len(order) - Len(queue) + (i + 1) = Len(order) - Len(queue') + i
        BY <1>0, <2>2
      <3>. QED
        BY <2>2, <3>2, <3>3
    <2>5. Suffix'
      BY <1>0, <2>2, <2>3, <2>4 DEF Suffix
    <2>6. NoLostWakeup'
      <3>1. queue # <<>>
        BY <2>1 DEF Get
      <3>2. \A d \in Consumer : call'[d] = "waiting" => call[d] = "waiting"
        BY <1>3 DEF Deliver
      <3>. QED
        BY <3>1, <3>2 DEF NoLostWakeup
    <2>7. Delivered' /\ taken' \in Seq(Item)
      BY <2>1, <2>2, <2>3, DeliverDelivered
    <2>. QED
      BY <2>2, <2>3, <2>5, <2>6, <2>7
  <1>4. ASSUME NEW c \in Consumer, ReturnNone(c) PROVE IInv'
    <2>1. UNCHANGED <<queue, produced, consumed, dropped, cleared, running, history>>
      BY <1>4 DEF ReturnNone, qvars
    <2>2. QTypeOK' /\ Accounted' /\ Suffix'
      BY <2>1 DEF QTypeOK, Accounted, Suffix, history
    <2>3. call' \in [Consumer -> CallState] /\ NoLostWakeup'
      BY <1>4, <2>1 DEF ReturnNone, NoLostWakeup
    <2>. QED
      BY <2>1, <2>2, <2>3, Frame DEF history
  <1>5. CASE Shutdown
    <2>1. UNCHANGED <<queue, produced, consumed, dropped, cleared, history>> /\ running' = FALSE
      BY <1>5 DEF Shutdown, qvars
    <2>2. QTypeOK' /\ Accounted' /\ Suffix'
      BY <2>1 DEF QTypeOK, Accounted, Suffix, history
    <2>3. call' \in [Consumer -> CallState] /\ \A c \in Consumer : call'[c] # "waiting"
      BY <1>5 DEF Shutdown, Notified
    <2>. QED
      BY <2>1, <2>2, <2>3, Frame DEF NoLostWakeup, history
  <1>6. CASE ClearQueue
    <2>1. queue' = <<>> /\ cleared' = cleared + Len(queue)
          /\ UNCHANGED <<produced, consumed, dropped, running, call, order, taken>>
          /\ clearedAt' = Len(order)
      BY <1>6 DEF ClearQueue, Clear
    <2>2. queue' \in Seq(Item) /\ Len(queue') = 0
      BY <2>1, EmptySeq
    <2>3. QTypeOK' /\ Accounted'
      BY <1>0, <2>1, <2>2, MaxQueueSizeAssumption DEF QTypeOK, Accounted
    <2>4. Suffix'
      BY <1>0, <2>1, <2>2 DEF Suffix
    <2>5. NoLostWakeup'
      BY <2>1 DEF NoLostWakeup
    <2>6. Delivered'
      BY <1>0, <2>1, <2>2 DEF Delivered, Left, QTypeOK
    <2>. QED
      BY <1>0, <2>1, <2>3, <2>4, <2>5, <2>6
  <1>7. CASE UNCHANGED vars
    <2>1. UNCHANGED <<queue, produced, consumed, dropped, cleared, running, call, history>>
      BY <1>7 DEF vars, qvars
    <2>. QED
      BY <2>1, Frame DEF history, QTypeOK, Accounted, NoLostWakeup, Suffix
  <1>. QED
    BY <1>1, <1>2, <1>3, <1>4, <1>5, <1>6, <1>7 DEF Next, GetSample

THEOREM Inductive == Spec => []IInv
  BY Initially, Step, PTL DEF Spec

\* The queue never exceeds its size, and the counters are natural numbers.
THEOREM QueueTypes == Spec => []TypeOK
  <1>1. IInv => TypeOK
    BY DEF IInv
  <1>. QED
    BY <1>1, Inductive, PTL

\* Every entry that was put is delivered, dropped, cleared or queued, as
\* get_statistics counts them.
THEOREM QueueAccounted == Spec => []Accounted
  <1>1. IInv => Accounted
    BY DEF IInv
  <1>. QED
    BY <1>1, Inductive, PTL

\* No consumer sleeps in get_sample while there is an entry to take or after
\* the shutdown.
THEOREM QueueWakes == Spec => []NoLostWakeup
  <1>1. IInv => NoLostWakeup
    BY DEF IInv
  <1>. QED
    BY <1>1, Inductive, PTL

\* What is queued is the newest of what was put, in the order it was put.
THEOREM QueueInOrder == Spec => []QueueIsSuffix
  <1>1. ASSUME IInv PROVE QueueIsSuffix
    <2>. DEFINE m == Len(order) - Len(queue) + 1
                n == Len(order)
    <2>1. queue \in Seq(Item) /\ order \in Seq(Item) /\ Len(queue) \in Nat /\ Len(order) \in Nat
      BY <1>1 DEF IInv, TypeOK, QTypeOK
    <2>2. m \in 1 .. n + 1 /\ n \in 0 .. Len(order)
      BY <1>1, <2>1 DEF IInv, Suffix
    <2>3. SubSeq(order, m, n) \in Seq(Item) /\ Len(SubSeq(order, m, n)) = Len(queue)
          /\ \A i \in 1 .. Len(queue) : SubSeq(order, m, n)[i] = order[Len(order) - Len(queue) + i]
      BY <2>1, <2>2
    <2>4. \A i \in 1 .. Len(queue) : SubSeq(order, m, n)[i] = queue[i]
      BY <1>1, <2>3 DEF IInv, Suffix
    <2>. HIDE DEF m, n
    <2>5. SubSeq(order, m, n) = queue
      BY <2>1, <2>3, <2>4, SeqEqual
    <2>. QED
      BY <2>5 DEF QueueIsSuffix, m, n
  <1>. QED
    BY <1>1, Inductive, PTL

\* Entries are delivered oldest first and once, and lost only to max_queue_size newer ones or to
\* clear_queue.
THEOREM QueueOldestFirst == Spec => []OldestFirst
  <1>1. ASSUME IInv PROVE OldestFirst
    <2>1. /\ Len(queue) \in Nat /\ Len(order) \in Nat /\ Len(queue) <= Len(order)
          /\ DOMAIN order = 1 .. Len(order) /\ DOMAIN queue = 1 .. Len(queue)
      BY <1>1 DEF IInv, TypeOK, QTypeOK, Suffix
    <2>2. Entries(taken) \subseteq Entries(order)
      <3>. SUFFICES ASSUME NEW i \in DOMAIN taken PROVE taken[i] \in Entries(order)
        BY DEF Entries
      <3>1. PICK p \in DOMAIN order : order[p] = taken[i]
        BY <1>1 DEF IInv, Delivered
      <3>. QED
        BY <3>1 DEF Entries
    <2>3. ASSUME NEW p \in DOMAIN order, p > clearedAt,
                 order[p] \notin (Entries(queue) \cup Entries(taken))
          PROVE  Len(order) >= p + MaxQueueSize
      <3>1. Left(p)
        <4>. SUFFICES ASSUME p > Len(order) - Len(queue) PROVE FALSE
          BY <2>1 DEF Left
        <4>. DEFINE i == p - (Len(order) - Len(queue))
        <4>1. i \in 1 .. Len(queue) /\ Len(order) - Len(queue) + i = p
          BY <2>1
        <4>2. queue[i] = order[p]
          BY <1>1, <4>1 DEF IInv, Suffix
        <4>. QED
          BY <2>1, <2>3, <4>1, <4>2 DEF Entries
      <3>. QED
        BY <1>1, <2>3, <3>1 DEF IInv, Delivered
    <2>4. \A i, j \in DOMAIN taken : i < j =>
            \A p, q \in DOMAIN order : order[p] = taken[i] /\ order[q] = taken[j] => p < q
      BY <1>1 DEF IInv, Delivered
    <2>. QED
      BY <2>2, <2>3, <2>4 DEF OldestFirst
  <1>. QED
    BY <1>1, Inductive, PTL
=============================================================================
