-------------------------- MODULE RateLimitedReward --------------------------
(***************************************************************************)
(* RateLimitedRewardManager with its AsyncTokenBucket                      *)
(* (verl/experimental/reward_loop/reward_manager/limited.py), one instance *)
(* in each RewardLoopWorker: a request decodes its response in the thread  *)
(* pool, takes its tokens from the bucket, enters the semaphore, and       *)
(* computes its reward under a timeout.  A reward function that is not a   *)
(* coroutine, the default, runs in the thread pool; the timeout stops      *)
(* waiting for it, it does not stop the thread.                            *)
(*                                                                         *)
(* Time passes in ticks.  A sleep lasts at least as long as asked for,     *)
(* longer while the event loop is busy; a request that is asleep has the   *)
(* ticks that are left in "timer", one that computes those until its       *)
(* timeout.  What a request takes from the bucket is Cost.  A manager has  *)
(* up to two buckets, for requests and for tokens, from which a request    *)
(* takes one after the other, the same of each for every request; the      *)
(* module has one, with the costs that acquire allows.                     *)
(***************************************************************************)
EXTENDS Integers, FiniteSetsExt

CONSTANTS
    Worker, Request,
    Home,           \* Home[r]: the worker request r is sent to
    Cost,
    Rate,           \* rate_limit, tokens a tick
    MaxTokens,
    MaxConcurrent,
    Timeout,
    Threads,        \* of the event loop's default executor
    Window          \* ticks over which the starts of calls are counted

RateLimitedAssumption ==
    /\ IsFiniteSet(Request)
    /\ Home \in [Request -> Worker]
    /\ Cost \in [Request -> Nat \ {0}]
    /\ {Rate, MaxTokens, MaxConcurrent, Timeout, Threads, Window} \subseteq Nat \ {0}

\* All that can ever be asked for: what exceeds it makes no difference.
Enough == MaxTokens + MapThenSumSet(LAMBDA r : Cost[r], Request)

VARIABLES
    coroutine, \* is_async_reward_score: the reward function is one
    tokens,    \* tokens[w]
    age,       \* age[w]: ticks since last_update
    state,     \* "new", "asking", "asleep", "served", "computing" or "done"
    timer,
    call,      \* requests whose reward function is being executed
    credit,    \* history: MaxTokens + Rate * time - the cost of what was served
    recent     \* history: recent[r]: ticks since the call of r started, 0 before

vars == <<coroutine, tokens, age, state, timer, call, credit, recent>>

At(w) == {r \in Request : Home[r] = w}
In(s) == {r \in Request : state[r] = s}
FreeThread(w) == coroutine \/ Cardinality(call \cap At(w)) < Threads
Least(a, b) == IF a < b THEN a ELSE b

Init ==
    /\ coroutine \in BOOLEAN
    /\ tokens = [w \in Worker |-> MaxTokens]
    /\ age = [w \in Worker |-> 0]
    /\ state = [r \in Request |-> "new"]
    /\ timer = [r \in Request |-> 0]
    /\ call = {}
    /\ credit = [w \in Worker |-> MaxTokens]
    /\ recent = [r \in Request |-> 0]

(* The response is decoded in the thread pool, outside any timeout.        *)
Decode(r) ==
    /\ state[r] = "new" /\ FreeThread(Home[r])
    /\ state' = [state EXCEPT ![r] = "asking"]
    /\ UNCHANGED <<coroutine, tokens, age, timer, call, credit, recent>>

(* The tokens at this moment, and how long the missing ones take.          *)
Refilled(w) == Least(MaxTokens, tokens[w] + age[w] * Rate)
TicksFor(n) == (n + Rate - 1) \div Rate

\* Mutant: a request for more than the bucket holds takes nothing.
BalanceKept(w, n) == IF Refilled(w) >= n THEN Refilled(w) - n ELSE Refilled(w)

(* What a request for more than the bucket holds leaves in it: it takes    *)
(* all it needs at once and waits for it afterwards.                       *)
Balance(w, n) == Refilled(w) - n

(* acquire, up to its return or its sleep.  In the standard case the       *)
(* caller asks again after its sleep.                                      *)
Acquire(r) ==
    LET w == Home[r]
        n == Cost[r] IN
    /\ state[r] = "asking"
    /\ age' = [age EXCEPT ![w] = 0]
    /\ \/ /\ Refilled(w) >= n
          /\ tokens' = [tokens EXCEPT ![w] = Refilled(w) - n]
          /\ credit' = [credit EXCEPT ![w] = @ - n]
          /\ state' = [state EXCEPT ![r] = "served"]
          /\ UNCHANGED timer
       \/ /\ Refilled(w) < n /\ n <= MaxTokens
          /\ tokens' = [tokens EXCEPT ![w] = Refilled(w)]
          /\ state' = [state EXCEPT ![r] = "asleep"]
          /\ timer' = [timer EXCEPT ![r] = TicksFor(n - Refilled(w))]
          /\ UNCHANGED credit
       \/ /\ Refilled(w) < n /\ n > MaxTokens
          /\ tokens' = [tokens EXCEPT ![w] = Balance(w, n)]
          /\ state' = [state EXCEPT ![r] = "asleep"]
          /\ timer' = [timer EXCEPT ![r] = TicksFor(n - Refilled(w))]
          /\ UNCHANGED credit
    /\ UNCHANGED <<coroutine, call, recent>>

Wake(r) ==
    /\ state[r] = "asleep" /\ timer[r] = 0
    /\ IF Cost[r] <= MaxTokens
       THEN state' = [state EXCEPT ![r] = "asking"] /\ UNCHANGED credit
       ELSE /\ state' = [state EXCEPT ![r] = "served"]
            /\ credit' = [credit EXCEPT ![Home[r]] = @ - Cost[r]]
    /\ UNCHANGED <<coroutine, tokens, age, timer, call, recent>>

(* The semaphore admits a request; wait_for starts the clock.              *)
Enter(r) ==
    /\ state[r] = "served"
    /\ Cardinality(In("computing") \cap At(Home[r])) < MaxConcurrent
    /\ state' = [state EXCEPT ![r] = "computing"]
    /\ timer' = [timer EXCEPT ![r] = Timeout]
    /\ UNCHANGED <<coroutine, tokens, age, call, credit, recent>>

(* The reward function is entered: at once, or when a thread is free.      *)
Call(r) ==
    /\ state[r] = "computing" /\ r \notin call /\ recent[r] = 0
    /\ FreeThread(Home[r])
    /\ call' = call \cup {r}
    /\ recent' = [recent EXCEPT ![r] = 1]
    /\ UNCHANGED <<coroutine, tokens, age, state, timer, credit>>

(* It returns, or raises, which is a reward of 0.                          *)
Return(r) ==
    /\ r \in call
    /\ call' = call \ {r}
    /\ state' = [state EXCEPT ![r] = "done"]
    /\ UNCHANGED <<coroutine, tokens, age, timer, credit, recent>>

(* What still runs after wait_for has cancelled: a coroutine is cancelled, *)
(* a thread is not.                                                        *)
CallsLeft(r) == IF coroutine THEN call \ {r} ELSE call

TimedOut(r) ==
    /\ state[r] = "computing" /\ timer[r] = 0
    /\ call' = CallsLeft(r)
    /\ state' = [state EXCEPT ![r] = "done"]
    /\ UNCHANGED <<coroutine, tokens, age, timer, credit, recent>>

(* One tick.  Histories are capped where more makes no difference.         *)
Tick ==
    /\ \E r \in Request : state[r] # "done"
    /\ age' = [w \in Worker |-> Least(age[w] + 1, Enough)]
    /\ timer' = [r \in Request |-> IF timer[r] > 0 THEN timer[r] - 1 ELSE 0]
    /\ credit' = [w \in Worker |-> Least(credit[w] + Rate, Enough)]
    /\ recent' = [r \in Request |-> IF recent[r] = 0 THEN 0 ELSE Least(recent[r] + 1, Window + 1)]
    /\ UNCHANGED <<coroutine, tokens, state, call>>

Progress(r) == Decode(r) \/ Acquire(r) \/ Wake(r) \/ Enter(r) \/ Call(r) \/ TimedOut(r)

Next ==
    \/ \E r \in Request : Progress(r) \/ Return(r)
    \/ Tick

Spec == Init /\ [][Next]_vars

(* The event loop runs every coroutine that can go on, and time passes.    *)
(* That a reward function ever returns is not assumed.                     *)
LiveSpec == Spec /\ WF_vars(Tick) /\ \A r \in Request : SF_vars(Progress(r))

------------------------------------------------------------------------------
(* Every variable holds a value of its kind.                               *)
TypeOK ==
    /\ coroutine \in BOOLEAN
    /\ \A w \in Worker : tokens[w] \in (-Enough)..MaxTokens /\ age[w] \in 0..Enough
    /\ \A r \in Request :
        /\ state[r] \in {"new", "asking", "asleep", "served", "computing", "done"}
        /\ timer[r] \in 0..(Timeout + Enough) /\ recent[r] \in 0..(Window + 1)
    /\ call \subseteq {r \in Request : recent[r] > 0}

(* Whatever small and large requests wait for the bucket at the same time, *)
(* those it has let go never cost more than it started with and the rate   *)
(* has added since.                                                        *)
WithinRate == \A w \in Worker : credit[w] >= 0

(* Functions that have timed out hold every thread.                        *)
Exhausted(w) == ~coroutine /\ Cardinality({r \in call \cap At(w) : state[r] = "done"}) = Threads

(* Every request is answered, even when reward functions hang, and although *)
(* requests that sleep have to ask again and others may be first: unless    *)
(* functions that are not coroutines hang in every thread and never return, *)
(* which leaves none to decode the next response in.                        *)
Answered == <>[](\A r \in Request : state[r] = "done" \/ Exhausted(Home[r]))

(* limited.py:182: max_concurrent "Limits the number of simultaneous API   *)
(* requests using asyncio.Semaphore".  A thread that has timed out is not  *)
(* stopped: this is for coroutines.                                        *)
SimultaneousCalls ==
    coroutine => \A w \in Worker : Cardinality(call \cap At(w)) <= MaxConcurrent

(* limited.py:195: the limiters are shared by all instances, which         *)
(* "ensures that rate limits are enforced consistently across multiple     *)
(* workers in distributed training".                                       *)
LimitedTogether == Cardinality(In("computing")) <= MaxConcurrent

(* limited.py:186: max_rpm "Limits requests per minute": in the last       *)
(* Window ticks no more calls were started than the bucket's size and rate *)
(* allow.                                                                  *)
StartsWithinRate ==
    \A w \in Worker :
        MapThenSumSet(LAMBDA r : Cost[r], {r \in At(w) : recent[r] \in 1..Window})
            <= MaxTokens + Rate * Window
==============================================================================
