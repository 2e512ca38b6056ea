------------------------- MODULE RateLimiterProofs --------------------------
(***************************************************************************)
(* The bounds on what the shared bucket grants and on what the guard of a  *)
(* process lets through, for any number of worker processes and any        *)
(* capacity, rate, expiry, window and clock skew that satisfy the          *)
(* assumptions of RateLimiter.                                             *)
(***************************************************************************)
EXTENDS RateLimiter, SequenceTheorems, TLAPS

USE RateLimiterAssumption, TtlAssumption DEF RateLimiterAssumption, TtlAssumption

\* The types that the bound needs.
BucketTypeOK ==
    /\ now \in Nat
    /\ bucket \in BucketType
    /\ bucket.level <= Capacity
    /\ start \in 0..now
    /\ spent \in Nat

\* Why RateBound is inductive.  The level is never further below zero than a
\* slow clock can have taken it back; and once something was granted in the
\* window, what is spent and what is left, less the time it was refilled to,
\* never exceeds a full bucket at the start.
LevelKept ==
    /\ bucket.last \in bucket.touched..(bucket.touched + Spread)
    /\ bucket.touched <= now
    /\ bucket.level >= bucket.last - bucket.touched - Spread

BudgetKept ==
    spent > 0 => spent + bucket.level - bucket.last <= Capacity - start

\* LevelKept and BudgetKept strengthen RateBound to an inductive invariant.
RateInv == BucketTypeOK /\ LevelKept /\ BudgetKept /\ RateBound

\* A refilled bucket is at most full.  It has at most what the time since the
\* last refill added, or its key has expired; and it is as far below zero as a
\* clock can have taken it back, at most.
LEMMA RefilledBounds ==
    ASSUME RateInv, NEW c \in Clients
    PROVE  /\ ClientTime(c) \in now..(now + Spread)
           /\ Refilled(c) \in Int
           /\ Refilled(c) <= Capacity
           /\ Refilled(c) >= ClientTime(c) - now - Spread
           /\ \/ Refilled(c) - ClientTime(c) <= bucket.level - bucket.last
              \/ ~KeyExists
  <1>1. Skew[c] \in 0..Spread
    OBVIOUS
  <1>2. /\ bucket.level \in Int
        /\ bucket.last \in Int
        /\ bucket.touched \in Int
        /\ now \in Nat
    BY DEF RateInv, BucketTypeOK, BucketType
  <1> QED BY <1>1, <1>2
          DEF RateInv, LevelKept, Refilled, ClientTime, Lower, KeyExists

\* Every call of the script keeps the invariant.
LEMMA TryAcquireKeeps ==
    ASSUME RateInv, NEW c \in Clients, TryAcquire(c)
    PROVE  RateInv'
  <1> DEFINE full == Refilled(c)
             time == ClientTime(c)
  <1>1. /\ time \in now..(now + Spread)
        /\ full \in Int
        /\ full <= Capacity
        /\ full >= time - now - Spread
        /\ full - time <= bucket.level - bucket.last \/ ~KeyExists
    BY RefilledBounds
  <1>2. /\ bucket.level \in Int
        /\ bucket.last \in Int
        /\ bucket.touched \in Int
        /\ now \in Nat
        /\ start \in 0..now
        /\ spent \in Nat
    BY DEF RateInv, BucketTypeOK, BucketType
  <1> HIDE DEF full, time
  \* An expired key means that the window's grants have been refilled.
  <1>3. spent > 0 => spent + full - time <= Capacity - start
    <2>1. CASE KeyExists
      BY <1>1, <1>2, <2>1 DEF RateInv, BudgetKept
    <2>2. CASE ~KeyExists
      BY <1>1, <1>2, <2>2 DEF RateInv, BudgetKept, LevelKept, KeyExists
    <2> QED BY <2>1, <2>2
  <1>4. UNCHANGED <<now, start>>
    BY DEF TryAcquire
  <1>5. CASE full >= Cost
    <2>1. /\ bucket' = [level |-> full - Cost, last |-> time, touched |-> now]
          /\ spent' = spent + Cost
      BY <1>1, <1>5 DEF TryAcquire, Saved, full, time
    <2>2. /\ bucket'.level = full - Cost
          /\ bucket'.last = time
          /\ bucket'.touched = now
          /\ bucket' \in BucketType
      BY <1>1, <1>2, <2>1 DEF BucketType
    <2>3. BucketTypeOK' /\ LevelKept'
      BY <1>1, <1>2, <1>4, <1>5, <2>1, <2>2 DEF BucketTypeOK, LevelKept
    <2>4. BudgetKept'
      BY <1>1, <1>2, <1>3, <1>4, <2>1, <2>2 DEF BudgetKept
    <2>5. RateBound'
      BY <1>1, <1>2, <1>3, <1>4, <1>5, <2>1 DEF RateBound
    <2> QED BY <2>3, <2>4, <2>5 DEF RateInv
  <1>6. CASE full < Cost
    <2>1. /\ bucket' = [level |-> full, last |-> time, touched |-> now]
          /\ spent' = spent
      BY <1>1, <1>6 DEF TryAcquire, Saved, full, time
    <2>2. /\ bucket'.level = full
          /\ bucket'.last = time
          /\ bucket'.touched = now
          /\ bucket' \in BucketType
      BY <1>1, <1>2, <2>1 DEF BucketType
    <2>3. BucketTypeOK' /\ LevelKept'
      BY <1>1, <1>2, <1>4, <2>1, <2>2 DEF BucketTypeOK, LevelKept
    <2>4. BudgetKept'
      BY <1>1, <1>2, <1>3, <1>4, <2>1, <2>2 DEF BudgetKept
    <2>5. RateBound'
      BY <1>4, <2>1 DEF RateInv, RateBound
    <2> QED BY <2>3, <2>4, <2>5 DEF RateInv
  <1> QED BY <1>1, <1>5, <1>6

LEMMA NextRateInv == RateInv /\ [Next]_vars => RateInv'
  <1> SUFFICES ASSUME RateInv, [Next]_vars PROVE RateInv'
    OBVIOUS
  <1> USE DEF RateInv, BucketTypeOK, BucketType, LevelKept, BudgetKept, RateBound
  <1>1. ASSUME NEW c \in Clients, Complete(c) PROVE RateInv'
    BY <1>1 DEF Complete
  <1>2. CASE Tick
    BY <1>2 DEF Tick, observer
  <1>3. CASE OpenWindow
    BY <1>3 DEF OpenWindow
  <1>4. CASE UNCHANGED vars
    BY <1>4 DEF vars
  <1> QED BY <1>1, <1>2, <1>3, <1>4, TryAcquireKeeps DEF Next

\* In any window, all processes together are granted no more than a full
\* bucket and the window's refill, plus what clocks disagree by.
THEOREM RateBoundHolds == Spec => []RateBound
  <1>1. Init => RateInv
    BY DEF Init, RateInv, BucketTypeOK, BucketType, LevelKept, BudgetKept, RateBound
  <1>2. RateInv => RateBound
    BY DEF RateInv
  <1> QED BY <1>1, <1>2, NextRateInv, PTL DEF Spec

-----------------------------------------------------------------------------
(* The guard of each process                                               *)

\* The types of what a process keeps for itself.
ProcessTypeOK ==
    /\ granted \in [Clients -> 0..Slots]
    /\ deque \in [Clients -> Seq(Nat)]
    /\ called \in [Clients -> Nat]

\* What a turn of the popleft loop leaves, with and without the new call.
LEMMA RecentCalls ==
    ASSUME NEW s \in Seq(Nat), NEW k \in 0..Len(s), NEW t \in Nat,
           NEW kept, kept = SubSeq(s, k + 1, Len(s))
    PROVE  /\ kept \in Seq(Nat)
           /\ Len(kept) = Len(s) - k
           /\ \A i \in 1..(Len(s) - k) : kept[i] = s[i + k]
           /\ Append(kept, t) \in Seq(Nat)
           /\ Len(Append(kept, t)) = Len(s) - k + 1
           /\ \A i \in 1..(Len(s) - k) : Append(kept, t)[i] = s[i + k]
           /\ Append(kept, t)[Len(s) - k + 1] = t
  <1>1. /\ Len(s) \in Nat /\ k \in Nat /\ k <= Len(s)
        /\ k + 1 \in Int /\ Len(s) \in Int
        /\ \A i \in (k + 1)..Len(s) : s[i] \in Nat
    OBVIOUS
  <1>2. /\ kept \in Seq(Nat)
        /\ Len(kept) = IF k + 1 <= Len(s) THEN Len(s) - (k + 1) + 1 ELSE 0
        /\ \A i \in 1..(Len(s) - (k + 1) + 1) : kept[i] = s[(k + 1) + i - 1]
    BY ONLY <1>1, kept = SubSeq(s, k + 1, Len(s)), SubSeqProperties
  <1>3. /\ Len(kept) = Len(s) - k
        /\ \A i \in 1..(Len(s) - k) : kept[i] = s[i + k]
    BY <1>1, <1>2
  <1>4. /\ Append(kept, t) \in Seq(Nat)
        /\ Len(Append(kept, t)) = Len(kept) + 1
        /\ \A i \in 1..Len(kept) : Append(kept, t)[i] = kept[i]
        /\ Append(kept, t)[Len(kept) + 1] = t
    <2>1. kept \in Seq(Nat) /\ t \in Nat
      BY <1>2
    <2> QED BY ONLY <2>1, AppendProperties
  <1> QED BY <1>1, <1>2, <1>3, <1>4

\* The memory of a guard is no longer than its limit, and as long as the
\* observer's window is no longer than the guard's, the calls it has counted are
\* the last ones that the guard remembers.
GuardKept ==
    \A c \in Clients :
        /\ Len(deque[c]) <= Limit
        /\ now - start <= Window =>
              /\ called[c] <= Len(deque[c])
              /\ \A i \in (Len(deque[c]) - called[c] + 1)..Len(deque[c]) :
                    deque[c][i] >= start

\* A completed call keeps the types and what the guard remembers: the loop stops
\* before the first call of the window.
LEMMA CompleteKeeps ==
    ASSUME RateInv, ProcessTypeOK, GuardKept, NEW c \in Clients, Complete(c)
    PROVE  ProcessTypeOK' /\ GuardKept'
  <1> DEFINE s == deque[c]
             n == called[c]
  <1>1. /\ s \in Seq(Nat) /\ Len(s) \in Nat /\ n \in Nat
        /\ now \in Nat /\ start \in Nat /\ Window \in Nat /\ Limit \in Nat
    BY DEF ProcessTypeOK, RateInv, BucketTypeOK
  <1>2. granted' \in [Clients -> 0..Slots]
    BY DEF Complete, ProcessTypeOK
  <1>3. UNCHANGED <<now, start>>
    BY DEF Complete
  <1>4. PICK k \in 0..Len(s) :
            /\ LoopEnds(c, k)
            /\ \/ /\ deque' = [deque EXCEPT ![c] = Recent(c, k)]
                  /\ UNCHANGED called
               \/ /\ Len(Recent(c, k)) < Limit
                  /\ deque' = [deque EXCEPT ![c] = Append(Recent(c, k), now)]
                  /\ called' = [called EXCEPT ![c] = called[c] + 1]
    BY DEF Complete
  <1> DEFINE kept == SubSeq(s, k + 1, Len(s))
             longer == Append(kept, now)
  <1>5. /\ kept \in Seq(Nat)
        /\ Len(kept) = Len(s) - k
        /\ \A i \in 1..(Len(s) - k) : kept[i] = s[i + k]
        /\ longer \in Seq(Nat)
        /\ Len(longer) = Len(s) - k + 1
        /\ \A i \in 1..(Len(s) - k) : longer[i] = s[i + k]
        /\ longer[Len(s) - k + 1] = now
    <2> HIDE DEF s
    <2>1. s \in Seq(Nat) /\ k \in 0..Len(s) /\ now \in Nat /\ kept = SubSeq(s, k + 1, Len(s))
      BY <1>1
    <2> HIDE DEF kept
    <2> QED BY ONLY <2>1, RecentCalls DEF longer
  <1>6. \/ deque' = [deque EXCEPT ![c] = kept] /\ called' = called
        \/ /\ Len(kept) < Limit
           /\ deque' = [deque EXCEPT ![c] = longer]
           /\ called' = [called EXCEPT ![c] = n + 1]
    BY <1>4 DEF Recent
  <1>7. /\ Len(s) <= Limit
        /\ now - start <= Window =>
              n <= Len(s) /\ \A i \in (Len(s) - n + 1)..Len(s) : s[i] >= start
    BY DEF GuardKept
  <1>8. \A i \in 1..k : s[i] < now - Window
    BY <1>4 DEF LoopEnds, Stale
  <1>9. now - start <= Window => k <= Len(s) - n
    <2> SUFFICES ASSUME now - start <= Window, k > Len(s) - n PROVE FALSE
      BY <1>1
    <2>1. n <= Len(s) /\ k \in 1..k /\ k \in (Len(s) - n + 1)..Len(s)
      BY <1>1, <1>7
    <2>2. s[k] < now - Window /\ s[k] >= start /\ s[k] \in Nat
      BY <1>1, <1>7, <1>8, <2>1
    <2> QED BY <1>1, <2>2
  <1>10. \A d \in Clients \ {c} : deque'[d] = deque[d] /\ called'[d] = called[d]
    BY <1>6 DEF ProcessTypeOK
  <1> HIDE DEF s, n, kept, longer
  <1>11. CASE deque' = [deque EXCEPT ![c] = kept] /\ called' = called
    <2>1. deque'[c] = kept /\ called'[c] = n
      BY <1>11 DEF ProcessTypeOK, n
    <2>2. ProcessTypeOK'
      BY <1>2, <1>5, <1>11 DEF ProcessTypeOK
    <2>3. now - start <= Window =>
             \A i \in (Len(kept) - n + 1)..Len(kept) : kept[i] >= start
      <3> SUFFICES ASSUME now - start <= Window, NEW i \in (Len(kept) - n + 1)..Len(kept)
                   PROVE  kept[i] >= start
        OBVIOUS
      <3>1. i \in 1..(Len(s) - k) /\ i + k \in (Len(s) - n + 1)..Len(s)
        BY <1>1, <1>5, <1>9
      <3> QED BY <1>5, <1>7, <3>1
    <2>4. Len(kept) <= Limit /\ (now - start <= Window => n <= Len(kept))
      BY <1>1, <1>5, <1>7, <1>9
    <2> QED BY <1>3, <1>10, <2>1, <2>2, <2>3, <2>4 DEF GuardKept
  <1>12. CASE /\ Len(kept) < Limit
              /\ deque' = [deque EXCEPT ![c] = longer]
              /\ called' = [called EXCEPT ![c] = n + 1]
    <2>1. deque'[c] = longer /\ called'[c] = n + 1
      BY <1>12 DEF ProcessTypeOK
    <2>2. ProcessTypeOK'
      <3>1. n + 1 \in Nat
        BY <1>1
      <3> QED BY <1>2, <1>5, <1>12, <3>1 DEF ProcessTypeOK
    <2>3. now - start <= Window =>
             \A i \in (Len(longer) - (n + 1) + 1)..Len(longer) : longer[i] >= start
      <3> SUFFICES ASSUME now - start <= Window,
                          NEW i \in (Len(longer) - (n + 1) + 1)..Len(longer)
                   PROVE  longer[i] >= start
        OBVIOUS
      <3>1. CASE i = Len(s) - k + 1
        BY <1>5, <3>1 DEF RateInv, BucketTypeOK
      <3>2. CASE i # Len(s) - k + 1
        <4>1. i \in (Len(s) - k - n + 1)..(Len(s) - k) /\ n <= Len(s) - k
          BY <1>1, <1>5, <1>9, <3>2
        <4>2. i \in 1..(Len(s) - k) /\ i + k \in (Len(s) - n + 1)..Len(s)
          BY <1>1, <4>1
        <4> QED BY <1>5, <1>7, <4>2
      <3> QED BY <3>1, <3>2
    <2>4. Len(longer) <= Limit /\ (now - start <= Window => n + 1 <= Len(longer))
      BY <1>1, <1>5, <1>9, <1>12
    <2> QED BY <1>3, <1>10, <2>1, <2>2, <2>3, <2>4 DEF GuardKept
  <1> QED BY <1>6, <1>11, <1>12

\* GuardKept is inductive with the types and the bucket's invariant.
LEMMA NextGuardKept ==
    RateInv /\ ProcessTypeOK /\ GuardKept /\ [Next]_vars => ProcessTypeOK' /\ GuardKept'
  <1> SUFFICES ASSUME RateInv, ProcessTypeOK, GuardKept, [Next]_vars
               PROVE  ProcessTypeOK' /\ GuardKept'
    OBVIOUS
  <1>0. now \in Nat /\ start \in 0..now
    BY DEF RateInv, BucketTypeOK
  <1>1. ASSUME NEW c \in Clients, TryAcquire(c) PROVE ProcessTypeOK' /\ GuardKept'
    <2>1. granted' \in [Clients -> 0..Slots]
      <3>1. granted[c] \in 0..Slots /\ granted[c] < Slots
        BY <1>1 DEF TryAcquire, ProcessTypeOK
      <3>2. granted[c] + 1 \in 0..Slots
        BY <3>1
      <3>3. granted' = granted \/ granted' = [granted EXCEPT ![c] = granted[c] + 1]
        BY <1>1 DEF TryAcquire
      <3> QED BY <3>2, <3>3 DEF ProcessTypeOK
    <2>2. UNCHANGED <<now, deque, start, called>>
      BY <1>1 DEF TryAcquire
    <2> QED BY <2>1, <2>2 DEF ProcessTypeOK, GuardKept
  <1>2. CASE Tick
    <2>1. now' = now + 1 /\ UNCHANGED <<granted, deque, start, called>>
      BY <1>2 DEF Tick, observer
    <2>2. now' - start <= Window => now - start <= Window
      BY <1>0, <2>1
    <2> QED BY <2>1, <2>2 DEF ProcessTypeOK, GuardKept
  <1>3. CASE OpenWindow
    <2>1. called' = [c \in Clients |-> 0] /\ UNCHANGED <<now, granted, deque>>
      BY <1>3 DEF OpenWindow
    <2>2. \A c \in Clients : Len(deque[c]) \in Nat
      BY DEF ProcessTypeOK
    <2> QED BY <2>1, <2>2 DEF ProcessTypeOK, GuardKept
  <1>4. CASE UNCHANGED vars
    BY <1>4 DEF vars, ProcessTypeOK, GuardKept
  <1> QED BY <1>1, <1>2, <1>3, <1>4, CompleteKeeps DEF Next

\* The guards' invariant, and the types of everything.
LEMMA GuardInvariant == Spec => [](RateInv /\ ProcessTypeOK /\ GuardKept)
  <1>1. Init => RateInv /\ ProcessTypeOK /\ GuardKept
    BY DEF Init, RateInv, BucketTypeOK, BucketType, LevelKept, BudgetKept, RateBound,
           ProcessTypeOK, GuardKept
  <1> QED BY <1>1, NextRateInv, NextGuardKept, PTL DEF Spec

\* Clock, bucket, grants and deques keep their types, no bucket is ever above its
\* capacity, and no process holds more grants than it has slots.
THEOREM LimiterTypeCorrect == Spec => []TypeOK
  <1>1. RateInv /\ ProcessTypeOK => TypeOK
    BY DEF RateInv, BucketTypeOK, ProcessTypeOK, TypeOK
  <1> QED BY <1>1, GuardInvariant, PTL

\* _SlidingWindowGuard.try_acquire lets at most Limit calls of a process through
\* in any window of its length.
THEOREM GuardBoundHolds == Spec => []GuardBound
  <1>1. RateInv /\ ProcessTypeOK /\ GuardKept => GuardBound
    <2> SUFFICES ASSUME ProcessTypeOK, GuardKept, now - start <= Window, NEW c \in Clients
                 PROVE  called[c] <= Limit
      BY DEF GuardBound
    <2>1. Len(deque[c]) \in Nat /\ called[c] \in Nat
      BY DEF ProcessTypeOK
    <2> QED BY <2>1 DEF GuardKept
  <1> QED BY <1>1, GuardInvariant, PTL
=============================================================================
