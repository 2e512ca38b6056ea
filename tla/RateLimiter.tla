---------------------------- MODULE RateLimiter -----------------------------
(***************************************************************************)
(* The two rate limits in front of the LLM: the token bucket that all      *)
(* worker processes share through a Lua script in Redis, and the sliding   *)
(* window that every process keeps for itself in the provider.             *)
(*                                                                         *)
(* Tokens are measured by the time it takes to refill them, in ticks: the  *)
(* bucket gains one unit per tick, holds Capacity units when full, and a   *)
(* call takes Cost units (the script's 1, refilled at refill_per_sec).     *)
(* The script takes the time from its caller, so clocks may disagree.      *)
(***************************************************************************)
EXTENDS Integers, Sequences

CONSTANTS
    Clients,    \* worker processes
    Slots,      \* worker_concurrency: coroutines of a process
    Capacity,   \* rate_limit_capacity, in ticks of refill
    Cost,       \* 1 / refill_per_sec, in ticks
    Ttl,        \* the script's EXPIRE, in ticks
    Skew,       \* how far each client's clock is ahead of the slowest one
    Spread,     \* a bound on Skew
    Limit,      \* rate_limit of _SlidingWindowGuard, in calls
    Window,     \* its window, in ticks
    MaxTime     \* bound: where the model's time stops

ASSUME RateLimiterAssumption ==
    /\ Slots \in Nat
    /\ Capacity \in Nat
    /\ Cost \in Nat \ {0}
    /\ Ttl \in Nat
    /\ Spread \in Nat
    /\ Skew \in [Clients -> 0..Spread]
    /\ Limit \in Nat
    /\ Window \in Nat
    /\ MaxTime \in Nat

\* An idle bucket would be full again before its key expires, even by the
\* clock that runs behind (the defaults: 300 tokens, 5 per second, 120 s).
ASSUME TtlAssumption == Capacity + Spread <= Ttl

VARIABLES
    now,        \* Redis's clock
    bucket,     \* the hash in Redis, and when it was last written
    granted,    \* by process: grants that have not reached the provider yet
    deque,      \* by process: _SlidingWindowGuard._calls
    start,      \* an observer opens a window at some time start ...
    spent,      \* ... and adds up what the bucket grants from then on ...
    called      \* ... and the calls the providers make, by process

observer == <<start, spent, called>>
vars == <<now, bucket, granted, deque, start, spent, called>>

Lower(a, b) == IF a <= b THEN a ELSE b

-----------------------------------------------------------------------------
(* RedisTokenBucketLimiter                                                 *)

\* The key is there, with EXPIRE still running.
KeyExists == now < bucket.touched + Ttl

ClientTime(c) == now + Skew[c]

\* Mutant of Refilled: the bucket has no brim.
RefilledUncapped(c) ==
    IF KeyExists THEN bucket.level + (ClientTime(c) - bucket.last) ELSE Capacity

\* The script's tokens once it has read or initialised and refilled them.
Refilled(c) ==
    IF KeyExists
    THEN Lower(Capacity, bucket.level + (ClientTime(c) - bucket.last))
    ELSE Capacity

\* Mutant of Saved: last_refill is written only when the key is new.
SavedKeepingLast(c, level) ==
    [level |-> level, last |-> IF KeyExists THEN bucket.last ELSE ClientTime(c),
     touched |-> now]

\* HMSET and EXPIRE.
Saved(c, level) == [level |-> level, last |-> ClientTime(c), touched |-> now]

\* try_acquire, by a slot that has nothing else under way.
TryAcquire(c) ==
    /\ granted[c] < Slots
    /\ \/ /\ Refilled(c) >= Cost
          /\ bucket' = Saved(c, Refilled(c) - Cost)
          /\ granted' = [granted EXCEPT ![c] = @ + 1]
          /\ spent' = spent + Cost
       \/ /\ Refilled(c) < Cost
          /\ bucket' = Saved(c, Refilled(c))
          /\ UNCHANGED <<granted, spent>>
    /\ UNCHANGED <<now, deque, start, called>>

-----------------------------------------------------------------------------
(* _SlidingWindowGuard, at the head of MockLLMProvider.complete             *)

\* Mutant of Stale: a call exactly one window ago is forgotten.
StaleEarly(t) == t <= now - Window

\* Below the cutoff.
Stale(t) == t < now - Window

\* The popleft loop has removed k calls when it ends.
LoopEnds(c, k) ==
    /\ \A i \in 1..k : Stale(deque[c][i])
    /\ k < Len(deque[c]) => ~Stale(deque[c][k + 1])

\* What is left of the deque then.
Recent(c, k) == SubSeq(deque[c], k + 1, Len(deque[c]))

Complete(c) ==
    /\ granted[c] > 0
    /\ granted' = [granted EXCEPT ![c] = @ - 1]
    /\ \E k \in 0..Len(deque[c]) :
          /\ LoopEnds(c, k)
          /\ \/ /\ Len(Recent(c, k)) >= Limit
                /\ deque' = [deque EXCEPT ![c] = Recent(c, k)]
                /\ UNCHANGED called
             \/ /\ Len(Recent(c, k)) < Limit
                /\ deque' = [deque EXCEPT ![c] = Append(Recent(c, k), now)]
                /\ called' = [called EXCEPT ![c] = @ + 1]
    /\ UNCHANGED <<now, bucket, start, spent>>

-----------------------------------------------------------------------------
Tick ==
    /\ now < MaxTime
    /\ now' = now + 1
    /\ UNCHANGED <<bucket, granted, deque, observer>>

\* The observer may look at any window.
OpenWindow ==
    /\ start' = now
    /\ spent' = 0
    /\ called' = [c \in Clients |-> 0]
    /\ UNCHANGED <<now, bucket, granted, deque>>

Init ==
    /\ now = 0
    /\ bucket = [level |-> Capacity, last |-> -Ttl, touched |-> -Ttl]   \* no key
    /\ granted = [c \in Clients |-> 0]
    /\ deque = [c \in Clients |-> <<>>]
    /\ start = 0
    /\ spent = 0
    /\ called = [c \in Clients |-> 0]

Next ==
    \/ \E c \in Clients : TryAcquire(c) \/ Complete(c)
    \/ Tick
    \/ OpenWindow

Spec == Init /\ [][Next]_vars

-----------------------------------------------------------------------------
(* Properties                                                              *)

BucketType == [level: Int, last: Int, touched: Int]

\* Values have their types; the hash is never above its capacity.
TypeOK ==
    /\ now \in Nat
    /\ bucket \in BucketType
    /\ bucket.level <= Capacity
    /\ granted \in [Clients -> 0..Slots]
    /\ deque \in [Clients -> Seq(Nat)]
    /\ start \in 0..now
    /\ spent \in Nat
    /\ called \in [Clients -> Nat]

\* What the bucket grants in any window is bounded by its capacity and the
\* refill of the window, although keys expire and come back full, and although
\* callers pass times that disagree by up to Spread: a clock that runs behind
\* takes back what one that runs ahead was given early.
RateBound == spent <= Capacity + (now - start) + Spread

\* The guard of each process lets no more than Limit calls through in any
\* window of its length, both ends included.
GuardBound ==
    now - start <= Window => \A c \in Clients : called[c] <= Limit
=============================================================================
