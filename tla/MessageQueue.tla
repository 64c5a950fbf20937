---------------------------- MODULE MessageQueue ----------------------------
(***************************************************************************)
(* MessageQueue (fully_async_policy/message_queue.py) with its consumers:  *)
(* an async Ray actor whose calls interleave at every await.  The lock is  *)
(* never held across an await, except that Condition.wait releases it and  *)
(* takes it again on waking, so a call is one step up to its wait and one  *)
(* step after each wakeup.  A woken consumer that runs late may find that  *)
(* another call has emptied the queue, and must wait again.                *)
(***************************************************************************)
EXTENDS SampleQueue

CONSTANT
  Consumer   (* Callers of get_sample *)

VARIABLES
  running,   (* self.running *)
  call,      (* state of each consumer's get_sample call *)
  order,     (* history: every entry put, in put order *)
  taken,     (* history: every entry delivered, in the order of delivery *)
  clearedAt  (* history: how many entries had been put when clear_queue last ran *)

history == <<order, taken, clearedAt>>
vars == <<qvars, running, call, history>>

\* idle: not in get_sample; waiting: in Condition.wait; woken: notified, yet to run again.
CallState == {"idle", "waiting", "woken", "closed"}

Init ==
  /\ QInit
  /\ running = TRUE
  /\ call = [c \in Consumer |-> "idle"]
  /\ order = <<>> /\ taken = <<>> /\ clearedAt = 0

\* Mutants: notify() for notify_all(), and no notification.
NotifiedOne ==
  LET Waiting == {c \in Consumer : call[c] = "waiting"}
  IN  IF Waiting = {} THEN call ELSE [call EXCEPT ![CHOOSE c \in Waiting : TRUE] = "woken"]
NotifiedNone == call

\* notify_all: every consumer that waits on the condition becomes runnable.
Notified == [c \in Consumer |-> IF call[c] = "waiting" THEN "woken" ELSE call[c]]

\* put_sample, from first to last line under the lock.  Bound of the model: an entry is put once,
\* which tells the entries apart and ends the puts when Item is used up.
PutSample(x) ==
  /\ \A i \in DOMAIN order : order[i] # x
  /\ Put(x)
  /\ order' = Append(order, x)
  /\ call' = Notified
  /\ UNCHANGED <<running, taken, clearedAt>>

\* get_sample, called or resumed: wait while the queue is empty and open.
Wait(c) ==
  /\ call[c] \in {"idle", "woken"}
  /\ queue = <<>>
  /\ running
  /\ call' = [call EXCEPT ![c] = "waiting"]
  /\ UNCHANGED <<qvars, running, history>>

\* get_sample, called or resumed with an entry to take.
Deliver(c) ==
  /\ call[c] \in {"idle", "woken"}
  /\ \E x \in Item : Get(x) /\ taken' = Append(taken, x)
  /\ call' = [call EXCEPT ![c] = "idle"]
  /\ UNCHANGED <<running, order, clearedAt>>

\* get_sample on a closed and empty queue returns None.
ReturnNone(c) ==
  /\ call[c] \in {"idle", "woken"}
  /\ queue = <<>>
  /\ ~running
  /\ call' = [call EXCEPT ![c] = "closed"]
  /\ UNCHANGED <<qvars, running, history>>

\* shutdown: close the queue and let every waiting consumer see it.
Shutdown ==
  /\ running
  /\ running' = FALSE
  /\ call' = Notified
  /\ UNCHANGED <<qvars, history>>

\* clear_queue neither notifies nor counts what it removes.
ClearQueue ==
  /\ queue # <<>>
  /\ Clear
  /\ clearedAt' = Len(order)
  /\ UNCHANGED <<running, call, order, taken>>

GetSample(c) == Wait(c) \/ Deliver(c) \/ ReturnNone(c)

Next ==
  \/ \E x \in Item : PutSample(x)
  \/ \E c \in Consumer : GetSample(c)
  \/ Shutdown
  \/ ClearQueue

Spec == Init /\ [][Next]_vars

\* The event loop runs every runnable coroutine: a consumer that was woken goes on.
LiveSpec == Spec /\ \A c \in Consumer : WF_vars(call[c] = "woken" /\ GetSample(c))

(***************************************************************************)
(* Properties                                                              *)
(***************************************************************************)

TypeOK ==
  /\ QTypeOK
  /\ running \in BOOLEAN
  /\ call \in [Consumer -> CallState]
  /\ order \in Seq(Item) /\ taken \in Seq(Item) /\ clearedAt \in Nat

\* No lost wakeup: a consumer sleeps in get_sample only while there is nothing to take and the
\* queue is open.  put_sample and shutdown notify under the lock the consumer gave up.
NoLostWakeup ==
  \A c \in Consumer : call[c] = "waiting" => queue = <<>> /\ running

\* put_sample and get_sample keep entries in order: what is queued is the tail of what was put,
\* whatever was dropped, cleared or delivered before it.
QueueIsSuffix ==
  queue = SubSeq(order, Len(order) - Len(queue) + 1, Len(order))

\* Whichever consumers wait, wake late or race for an entry, entries are delivered oldest first and
\* once only, and a full queue gives up an entry for max_queue_size newer ones, never a fresh one:
\* what was put since clear_queue last ran and is neither queued nor delivered is that old.
Entries(s) == {s[i] : i \in DOMAIN s}
OldestFirst ==
  /\ Entries(taken) \subseteq Entries(order)
  /\ \A i, j \in DOMAIN taken : i < j =>
       \A p, q \in DOMAIN order : order[p] = taken[i] /\ order[q] = taken[j] => p < q
  /\ \A p \in DOMAIN order :
       p > clearedAt /\ order[p] \notin (Entries(queue) \cup Entries(taken))
         => Len(order) >= p + MaxQueueSize

\* After shutdown nobody stays asleep in get_sample.
ShutdownReleases == \A c \in Consumer : (~running) ~> (call[c] # "waiting" /\ call[c] # "woken")
=============================================================================
