------------------------- MODULE ResilientLLM_proofs -------------------------
(***************************************************************************)
(* Theorems about the resilient LLM client, for any number of calls and    *)
(* every configuration that the validate methods admit.                    *)
(***************************************************************************)
EXTENDS RateWindow, FiniteSetTheorems, TLAPS

-----------------------------------------------------------------------------
(* The token bucket.                                                       *)

(* The types of what the bucket computes with. *)
BucketInv == tokens \in 0..Capacity /\ idle \in Nat

(* Idle time times the rate, and one tick more of it. *)
LEMMA Products ==
  ASSUME NEW i \in Nat, NEW r \in Nat \ {0}
  PROVE  i * r \in Nat /\ i * r >= i /\ (i + 1) * r = i * r + r
  OBVIOUS

(* The level is a number of tokens between none and the capacity. *)
LEMMA Clamped ==
  ASSUME NEW t \in 0..Capacity, NEW i \in Nat
  PROVE  Smaller(Capacity, t + i * RefillRate) \in 0..Capacity
  BY LimitsAssumption, Products DEF Smaller

LEMMA LevelType ==
  /\ BucketInv => Level \in 0..Capacity
  /\ BucketInv' => Level' \in 0..Capacity
  BY Clamped DEF BucketInv, Level

(* Whoever uses the bucket leaves the level as refilled, less its cost. *)
LEMMA Used ==
  ASSUME BucketInv, NEW n \in {0, Cost}, Level >= n,
         tokens' = Level - n, idle' = 0
  PROVE  BucketInv' /\ Level' = Level - n
<1>1. Level \in 0..Capacity
  BY LevelType
<1>2. Level - n \in 0..Capacity
  BY <1>1, LimitsAssumption
<1>3. BucketInv'
  BY <1>2 DEF BucketInv
<1>4. Level' = Smaller(Capacity, Level - n)
  BY <1>2, LimitsAssumption DEF Level
<1> QED BY <1>2, <1>3, <1>4, LimitsAssumption DEF Smaller

(* A tick adds what one tick refills, up to the capacity. *)
LEMMA Ticked ==
  ASSUME BucketInv, Tick
  PROVE  BucketInv' /\ Level' = Smaller(Level + RefillRate, Capacity)
<1>1. /\ idle * RefillRate \in Nat
      /\ (idle + 1) * RefillRate = idle * RefillRate + RefillRate
  BY LimitsAssumption, Products DEF BucketInv
<1> DEFINE p == idle * RefillRate
           q == (idle + 1) * RefillRate
<1>2. BucketInv'
  BY DEF BucketInv, Tick
<1>3. CASE tokens + p >= Capacity
  <2>1. Level' = Level
    BY <1>3 DEF Tick, Level
  <2>2. Level = Capacity
    BY <1>1, <1>3, LimitsAssumption DEF Level, Smaller, BucketInv
  <2> QED BY <1>2, <2>1, <2>2, LimitsAssumption DEF Smaller
<1>4. CASE ~(tokens + p >= Capacity)
  <2>1. Level' = Smaller(Capacity, tokens + q)
    BY <1>4 DEF Tick, Level
  <2>2. Level = tokens + p
    BY <1>1, <1>4, LimitsAssumption DEF Level, Smaller, BucketInv
  <2> QED BY <1>1, <1>2, <2>1, <2>2, LimitsAssumption DEF Smaller, BucketInv
<1> QED BY <1>3, <1>4

(* Every step refills, takes the cost of one call, or leaves the level. *)
LEMMA LevelStep ==
  ASSUME BucketInv, [Next]_vars
  PROVE  /\ BucketInv'
         /\ \/ Level' = Level
            \/ Level >= Cost /\ Level' = Level - Cost
            \/ Tick /\ Level' = Smaller(Level + RefillRate, Capacity)
<1>1. CASE Tick
  BY <1>1, Ticked
<1>2. ASSUME NEW c \in Calls, Wait(c)
      PROVE  BucketInv' /\ Level' = Level
  <2>1. Level \in 0..Capacity
    BY LevelType
  <2>2. tokens' = Level - 0 /\ idle' = 0 /\ Level >= 0
    BY <1>2, <2>1 DEF Wait
  <2>3. BucketInv' /\ Level' = Level - 0
    BY <2>2, Used
  <2> QED BY <2>1, <2>3
<1>3. ASSUME TakeTokens
      PROVE  BucketInv' /\ Level >= Cost /\ Level' = Level - Cost
  BY <1>3, Used DEF TakeTokens
<1>4. CASE UNCHANGED bucketVars
  BY <1>4 DEF bucketVars, BucketInv, Level
<1>5. ASSUME NEW c \in Calls,
             Begin(c) \/ Finish(c) \/ CancelSleep(c)
      PROVE  UNCHANGED bucketVars
  BY <1>5 DEF Begin, Finish, CancelSleep, Answer, FailAndRetry, FailForGood,
     CancelRequest
<1>6. UNCHANGED vars => UNCHANGED bucketVars
  BY DEF vars, bucketVars
<1> QED BY <1>1, <1>2, <1>3, <1>4, <1>5, <1>6 DEF Next, Try, Send, Reject

LEMMA InitBucket == Init => BucketInv /\ Level = Capacity
<1> SUFFICES ASSUME Init PROVE BucketInv /\ Level = Capacity
  OBVIOUS
<1>1. tokens = Capacity /\ idle = 0 /\ BucketInv
  BY LimitsAssumption DEF Init, BucketInv
<1>2. idle * RefillRate = 0
  BY <1>1, LimitsAssumption
<1> QED BY <1>1, <1>2, LimitsAssumption DEF Level, Smaller

(***************************************************************************)
(* The bucket, refilled only when it is used, is the rate limit of         *)
(* RateLimit for any interleaving of calls (TokenBucket.acquire).          *)
(***************************************************************************)
THEOREM ImplementsRateLimit == Spec => BucketSpec
<1>1. Init => Bucket!Init
  BY InitBucket DEF Bucket!Init
<1>2. BucketInv /\ [Next]_vars => BucketInv' /\ [Bucket!Next]_Level
  <2> SUFFICES ASSUME BucketInv, [Next]_vars
               PROVE  BucketInv' /\ [Bucket!Next]_Level
    OBVIOUS
  <2>1. Smaller(Level + RefillRate, Capacity)
          = Bucket!UpToCapacity(Level + RefillRate)
    BY DEF Smaller, Bucket!UpToCapacity
  <2> QED BY <2>1, LevelStep DEF Bucket!Next, Bucket!Refill, Bucket!Take
<1>3. Init => BucketInv
  BY InitBucket
<1> QED BY <1>1, <1>2, <1>3, PTL DEF Spec, BucketSpec, Bucket!Spec

(* A step of the watched client is a step of the client. *)
LEMMA WatchStep == [WatchNext]_watchedVars => [Next]_vars
  BY DEF WatchNext, watchedVars, WatchAcquired, Acquired, WatchTick, WatchOther,
     Next, Try

(* What the window has cost and what is left never exceed what came in. *)
WindowInv ==
  /\ BucketInv
  /\ ticks \in Nat /\ taken \in Nat
  /\ taken * Cost + Level <= Capacity + ticks * RefillRate

(* A tick adds at most what it brings; a new window starts within the capacity. *)
LEMMA StillPaidFor ==
  ASSUME NEW cost \in Nat, NEW refill \in Nat,
         NEW before \in 0..Capacity, NEW after \in 0..Capacity,
         cost + before <= Capacity + refill
  PROVE  /\ after <= before + RefillRate
              => cost + after <= Capacity + (refill + RefillRate)
         /\ 0 + after <= Capacity + 0
  BY LimitsAssumption

LEMMA WindowProducts ==
  ASSUME NEW t \in Nat, NEW k \in Nat
  PROVE  /\ t * RefillRate \in Nat /\ k * Cost \in Nat
         /\ (t + 1) * RefillRate = t * RefillRate + RefillRate
         /\ (k + 1) * Cost = k * Cost + Cost
  BY LimitsAssumption, Products

(***************************************************************************)
(* In every window of time no more calls take their tokens than its length *)
(* and the capacity pay for, for every rate, capacity and cost             *)
(* (TokenBucket.acquire).                                                  *)
(***************************************************************************)
THEOREM RateAlwaysHolds == WatchSpec => []RateHolds
<1>1. WatchInit => WindowInv
  <2>1. 0 * Cost = 0 /\ 0 * RefillRate = 0
    BY LimitsAssumption
  <2> QED BY <2>1, InitBucket, LimitsAssumption DEF WatchInit, WindowInv
<1>2. WindowInv /\ [WatchNext]_watchedVars => WindowInv'
  <2> SUFFICES ASSUME WindowInv, [WatchNext]_watchedVars PROVE WindowInv'
    OBVIOUS
  <2> DEFINE cost == taken * Cost
             refill == ticks * RefillRate
             costNext == taken' * Cost
             refillNext == ticks' * RefillRate
  <2>1. /\ BucketInv /\ Level \in 0..Capacity /\ cost + Level <= Capacity + refill
        /\ cost \in Nat /\ refill \in Nat /\ ticks \in Nat /\ taken \in Nat
    BY LevelType, WindowProducts DEF WindowInv
  <2>P. /\ (taken + 1) * Cost = cost + Cost
        /\ (ticks + 1) * RefillRate = refill + RefillRate
    BY <2>1, WindowProducts
  <2>2. BucketInv' /\ Level' \in 0..Capacity
    BY <2>1, WatchStep, LevelStep, LevelType
  <2>W. ASSUME ticks' \in Nat, taken' \in Nat,
               costNext + Level' <= Capacity + refillNext
        PROVE  WindowInv'
    BY <2>2, <2>W DEF WindowInv
  <2>3. CASE WatchAcquired
    <3>1. TakeTokens /\ taken' = taken + 1 /\ ticks' = ticks
      BY <2>3 DEF WatchAcquired, Acquired, Send, Reject
    <3>2. Level' = Level - Cost
      BY <2>1, <3>1, Used DEF TakeTokens
    <3>3. costNext = cost + Cost /\ refillNext = refill
      BY <2>P, <3>1
    <3>4. ticks' \in Nat /\ taken' \in Nat
      BY <2>1, <3>1
    <3> HIDE DEF cost, refill, costNext, refillNext
    <3> QED BY <2>1, <2>2, <2>W, <3>2, <3>3, <3>4, LimitsAssumption
  <2>4. CASE WatchTick
    <3>1. Tick /\ Level' = Smaller(Level + RefillRate, Capacity)
      BY <2>1, <2>4, Ticked DEF WatchTick
    <3>2. Level' <= Level + RefillRate
      BY <2>1, <3>1, LimitsAssumption DEF Smaller
    <3>3. CASE ticks' = ticks + 1 /\ taken' = taken
      <4>1. costNext = cost /\ refillNext = refill + RefillRate
        BY <2>P, <3>3
      <4>2. ticks' \in Nat /\ taken' \in Nat
        BY <2>1, <3>3
      <4> HIDE DEF cost, refill, costNext, refillNext
      <4>3. costNext + Level' <= Capacity + refillNext
        BY <2>1, <2>2, <3>2, <4>1, StillPaidFor
      <4> QED BY <2>W, <4>2, <4>3
    <3>4. CASE ticks' = 0 /\ taken' = 0
      <4>1. costNext = 0 /\ refillNext = 0
        BY <3>4, LimitsAssumption
      <4> HIDE DEF costNext, refillNext
      <4>2. costNext + Level' <= Capacity + refillNext
        BY <2>1, <2>2, <4>1, StillPaidFor
      <4> QED BY <2>W, <3>4, <4>2
    <3> QED BY <2>4, <3>3, <3>4 DEF WatchTick, windowVars
  <2>5. CASE WatchOther \/ UNCHANGED watchedVars
    <3>1. ticks' = ticks /\ taken' = taken
      BY <2>5 DEF WatchOther, windowVars, watchedVars
    <3>2. Level' = Level
      <4>1. CASE UNCHANGED bucketVars
        BY <4>1 DEF bucketVars, Level
      <4>2. ASSUME NEW c \in Calls, Wait(c) PROVE Level' = Level
        <5>1. tokens' = Level - 0 /\ idle' = 0 /\ Level >= 0
          BY <2>1, <4>2 DEF Wait
        <5>2. Level' = Level - 0
          BY <2>1, <5>1, Used
        <5> QED BY <2>1, <5>2
      <4>3. ASSUME NEW c \in Calls, Begin(c) \/ Finish(c) \/ CancelSleep(c)
            PROVE  UNCHANGED bucketVars
        BY <4>3 DEF Begin, Finish, CancelSleep, Answer, FailAndRetry, FailForGood,
           CancelRequest
      <4>4. UNCHANGED watchedVars => UNCHANGED bucketVars
        BY DEF watchedVars, vars, bucketVars
      <4> QED BY <2>5, <4>1, <4>2, <4>3, <4>4 DEF WatchOther
    <3> QED BY <2>1, <2>2, <3>1, <3>2 DEF WindowInv
  <2> QED BY <2>3, <2>4, <2>5 DEF WatchNext
<1>3. WindowInv => RateHolds
  <2> SUFFICES ASSUME WindowInv PROVE RateHolds
    OBVIOUS
  <2> DEFINE cost == taken * Cost
             refill == ticks * RefillRate
  <2>1. cost \in Nat /\ refill \in Nat /\ Level \in 0..Capacity
        /\ cost + Level <= Capacity + refill
    BY LevelType, WindowProducts DEF WindowInv
  <2>2. RateHolds <=> cost <= Capacity + refill
    BY DEF RateHolds
  <2> HIDE DEF cost, refill
  <2> QED BY <2>1, <2>2, LimitsAssumption
<1> QED BY <1>1, <1>2, <1>3, PTL DEF WatchSpec

-----------------------------------------------------------------------------
(* Sleeping for tokens.                                                    *)

(* Only a call that sleeps has ticks left; those of a backoff do not matter. *)
SleepInv ==
  /\ DOMAIN pc = Calls /\ DOMAIN timer = Calls
  /\ \A c \in Calls : /\ pc[c] = "acquiring" => timer[c] \in Nat
                      /\ pc[c] \in {"idle", "calling"} => timer[c] = 0

OversleepInv == BucketInv /\ SleepInv /\ NoOversleep

(* The wait is the least number of ticks that brings the missing tokens. *)
LEMMA WaitIsLeast ==
  ASSUME BucketInv, Level < Cost
  PROVE  WaitTime \in Nat /\ Level + (WaitTime - 1) * RefillRate < Cost
<1> DEFINE x == Cost - Level + RefillRate - 1
           q == x \div RefillRate
<1>1. x \in Nat /\ Level \in Nat /\ Cost \in Nat /\ RefillRate \in Nat \ {0}
  BY LevelType, LimitsAssumption
<1>2. q \in Nat /\ q * RefillRate <= x
  BY <1>1
<1>3. (q - 1) * RefillRate = q * RefillRate - RefillRate
  BY <1>1, <1>2
<1>4. q * RefillRate \in Nat
  BY <1>1, <1>2
<1> HIDE DEF q
<1>5. Level + (q - 1) * RefillRate < Cost
  BY <1>1, <1>2, <1>3, <1>4
<1> QED BY <1>2, <1>5 DEF WaitTime, q

(* With fewer tokens, or one tick later with one tick less, it stays least. *)
LEMMA StillLeast ==
  ASSUME NEW t \in Nat, t > 0, NEW l \in Nat, NEW m \in Nat,
         l + (t - 1) * RefillRate < Cost
  PROVE  /\ m <= l => m + (t - 1) * RefillRate < Cost
         /\ m <= l + RefillRate => m + (t - 2) * RefillRate < Cost
<1>1. /\ (t - 1) * RefillRate \in Int /\ (t - 2) * RefillRate \in Int
      /\ (t - 2) * RefillRate = (t - 1) * RefillRate - RefillRate
  BY LimitsAssumption
<1> DEFINE p == (t - 1) * RefillRate
           q == (t - 2) * RefillRate
<1>2. p \in Int /\ q \in Int /\ q = p - RefillRate
  BY <1>1
<1> HIDE DEF p, q
<1>3. l + p < Cost
  BY DEF p
<1>4. (m <= l => m + p < Cost) /\ (m <= l + RefillRate => m + q < Cost)
  BY <1>2, <1>3, LimitsAssumption
<1> QED BY <1>4 DEF p, q

(* A step that gives nobody new ticks to sleep, and adds no tokens. *)
LEMMA NothingToSleep ==
  ASSUME OversleepInv, BucketInv', Level' <= Level,
         DOMAIN pc' = Calls, DOMAIN timer' = Calls,
         \A c \in Calls :
           \/ pc'[c] = pc[c] /\ timer'[c] = timer[c]
           \/ timer'[c] = 0
           \/ pc'[c] = "backoff"
  PROVE  OversleepInv'
<1>1. SleepInv'
  BY DEF OversleepInv, SleepInv
<1>2. ASSUME NEW c \in Calls, pc'[c] = "acquiring", timer'[c] > 0
      PROVE  Level' + (timer'[c] - 1) * RefillRate < Cost
  <2>1. pc[c] = "acquiring" /\ timer'[c] = timer[c] /\ timer[c] \in Nat
    BY <1>2 DEF OversleepInv, SleepInv
  <2>2. Level + (timer[c] - 1) * RefillRate < Cost
    BY <1>2, <2>1 DEF OversleepInv, NoOversleep
  <2>3. Level \in Nat /\ Level' \in Nat
    BY LevelType DEF OversleepInv
  <2> QED BY <1>2, <2>1, <2>2, <2>3, StillLeast
<1> QED BY <1>1, <1>2 DEF OversleepInv, NoOversleep

(***************************************************************************)
(* No call sleeps past the moment its tokens are there, for any number of  *)
(* calls that drain and refill the bucket (TokenBucket.acquire).           *)
(***************************************************************************)
THEOREM NeverOversleeps == Spec => []NoOversleep
<1>1. Init => OversleepInv
  <2> SUFFICES ASSUME Init PROVE OversleepInv
    OBVIOUS
  <2>1. SleepInv /\ NoOversleep
    BY DEF Init, SleepInv, NoOversleep
  <2> QED BY <2>1, InitBucket DEF OversleepInv
<1>2. OversleepInv /\ [Next]_vars => OversleepInv'
  <2> SUFFICES ASSUME OversleepInv, [Next]_vars PROVE OversleepInv'
    OBVIOUS
  <2>1. BucketInv' /\ Level \in 0..Capacity /\ Level' \in 0..Capacity
    BY LevelStep, LevelType DEF OversleepInv
  <2>2. DOMAIN pc = Calls /\ DOMAIN timer = Calls
    BY DEF OversleepInv, SleepInv
  <2>3. CASE Tick
    <3>1. Level' = Smaller(Level + RefillRate, Capacity)
      BY <2>3, Ticked DEF OversleepInv
    <3>2. Level' <= Level + RefillRate
      BY <3>1, <2>1, LimitsAssumption DEF Smaller
    <3>3. SleepInv'
      BY <2>2, <2>3 DEF Tick, OversleepInv, SleepInv
    <3>4. ASSUME NEW c \in Calls, pc'[c] = "acquiring", timer'[c] > 0
          PROVE  Level' + (timer'[c] - 1) * RefillRate < Cost
      <4>1. pc[c] = "acquiring" /\ timer[c] \in Nat
        BY <2>3, <3>4 DEF Tick, OversleepInv, SleepInv
      <4>2. timer[c] > 0 /\ timer'[c] = timer[c] - 1
        BY <2>3, <3>4, <4>1 DEF Tick
      <4>3. Level + (timer[c] - 1) * RefillRate < Cost
        BY <4>1, <4>2 DEF OversleepInv, NoOversleep
      <4>4. Level' + (timer[c] - 2) * RefillRate < Cost
        BY <2>1, <3>2, <4>1, <4>2, <4>3, StillLeast
      <4>5. timer'[c] - 1 = timer[c] - 2
        BY <4>1, <4>2
      <4> QED BY <4>4, <4>5
    <3> QED BY <2>1, <3>3, <3>4 DEF OversleepInv, NoOversleep
  <2>4. ASSUME NEW c \in Calls, Wait(c)
        PROVE  OversleepInv'
    <3>1. Level < Cost /\ Level' = Level
      <4>1. Level < Cost /\ tokens' = Level - 0 /\ idle' = 0
        BY <2>1, <2>4 DEF Wait
      <4> QED BY <2>1, <4>1, Used DEF OversleepInv
    <3>2. WaitTime \in Nat /\ Level + (WaitTime - 1) * RefillRate < Cost
      BY <3>1, WaitIsLeast DEF OversleepInv
    <3>3. SleepInv'
      BY <2>2, <2>4, <3>2 DEF Wait, OversleepInv, SleepInv
    <3>4. ASSUME NEW d \in Calls, pc'[d] = "acquiring", timer'[d] > 0
          PROVE  Level' + (timer'[d] - 1) * RefillRate < Cost
      <4>1. CASE d = c
        BY <2>2, <2>4, <3>1, <3>2, <4>1 DEF Wait
      <4>2. CASE d # c
        BY <2>2, <2>4, <3>1, <3>4, <4>2 DEF Wait, OversleepInv, NoOversleep
      <4> QED BY <4>1, <4>2
    <3> QED BY <2>1, <3>3, <3>4 DEF OversleepInv, NoOversleep
  <2>5. ASSUME NEW c \in Calls, Send(c)
        PROVE  OversleepInv'
    <3>1. Level' = Level - Cost
      BY <2>5, Used DEF Send, TakeTokens, OversleepInv
    <3>2. Level' <= Level
      BY <2>1, <3>1, LimitsAssumption
    <3>3. timer'[c] = 0 /\ UNCHANGED timer
          /\ pc' = [pc EXCEPT ![c] = "calling"]
      BY <2>5 DEF Send, Awake
    <3> QED BY <2>1, <2>2, <3>2, <3>3, NothingToSleep
  <2>6. ASSUME NEW c \in Calls, Reject(c)
        PROVE  OversleepInv'
    <3>1. Level' = Level - Cost
      BY <2>6, Used DEF Reject, TakeTokens, OversleepInv
    <3>2. Level' <= Level
      BY <2>1, <3>1, LimitsAssumption
    <3> QED BY <2>1, <2>2, <2>6, <3>2, NothingToSleep DEF Reject, Leave
  <2>7. ASSUME NEW c \in Calls, Begin(c)
        PROVE  OversleepInv'
    <3>1. Level' = Level /\ timer'[c] = 0 /\ UNCHANGED timer
      BY <2>7 DEF Begin, bucketVars, Level, OversleepInv, SleepInv
    <3> QED BY <2>1, <2>2, <2>7, <3>1, NothingToSleep DEF Begin
  <2>8. ASSUME NEW c \in Calls, Finish(c) \/ CancelSleep(c)
        PROVE  OversleepInv'
    <3>1. Level' = Level
      BY <2>8 DEF Finish, Answer, FailAndRetry, FailForGood, CancelRequest,
         CancelSleep, bucketVars, Level
    <3>2. CASE FailAndRetry(c)
      BY <2>1, <2>2, <3>1, <3>2, NothingToSleep DEF FailAndRetry
    <3>3. CASE ~FailAndRetry(c)
      <4>1. Leave(c)
        BY <2>8, <3>3
        DEF Finish, Answer, FailForGood, CancelRequest, CancelSleep
      <4> QED BY <2>1, <2>2, <3>1, <4>1, NothingToSleep DEF Leave
    <3> QED BY <3>2, <3>3
  <2>9. CASE UNCHANGED vars
    <3>1. Level' = Level
      BY <2>9 DEF vars, Level
    <3> QED BY <2>1, <2>2, <2>9, <3>1, NothingToSleep DEF vars
  <2> QED BY <2>3, <2>4, <2>5, <2>6, <2>7, <2>8, <2>9 DEF Next, Try
<1>3. OversleepInv => NoOversleep
  BY DEF OversleepInv
<1> QED BY <1>1, <1>2, <1>3, PTL DEF Spec

-----------------------------------------------------------------------------
(* The circuit breaker.                                                    *)

(***************************************************************************)
(* Each probe counted belongs to a request that is out and that this half- *)
(* open phase let through; outside such a phase there are none.  The last  *)
(* two parts are what a failure that does not open the breaker needs.      *)
(***************************************************************************)
ProbeInv ==
  /\ DOMAIN pc = Calls
  /\ halfOpenCalls \in Nat
  /\ NoProbeLeak
  /\ probes \subseteq {c \in Calls : pc[c] = "calling"}
  /\ breaker # "half_open" => probes = {}

(* Cardinalities of the sets of probes before and after a step. *)
LEMMA Probes ==
  ASSUME NEW S \in SUBSET Calls, NEW c \in Calls
  PROVE  /\ Cardinality({}) = 0
         /\ Cardinality(S) \in Nat
         /\ c \notin S => Cardinality(S \cup {c}) = Cardinality(S) + 1
         /\ Cardinality(S \ {c}) \in {Cardinality(S), Cardinality(S) - 1}
         /\ Cardinality(S \ {c}) \in Nat
<1>1. IsFiniteSet(S) /\ IsFiniteSet(S \ {c})
  BY LimitsAssumption, FS_Subset
<1> QED
  BY <1>1, FS_EmptySet, FS_AddElement, FS_RemoveElement, FS_CardinalityType

LEMMA ProbeInvariant == Spec => []ProbeInv
<1>1. Init => ProbeInv
  BY FS_EmptySet DEF Init, ProbeInv, NoProbeLeak
<1>2. ProbeInv /\ [Next]_vars => ProbeInv'
  <2> SUFFICES ASSUME ProbeInv, [Next]_vars PROVE ProbeInv'
    OBVIOUS
  <2>1. probes \in SUBSET Calls
    BY DEF ProbeInv
  <2>2. ASSUME UNCHANGED <<breaker, halfOpenCalls, probes>>,
               DOMAIN pc' = Calls,
               \A c \in probes : pc'[c] = "calling"
        PROVE  ProbeInv'
    BY <2>2 DEF ProbeInv, NoProbeLeak
  <2>3. CASE UNCHANGED vars \/ Tick
    BY <2>2, <2>3 DEF vars, Tick, ProbeInv
  <2>4. ASSUME NEW c \in Calls,
               Begin(c) \/ Wait(c) \/ Reject(c) \/ CancelSleep(c)
        PROVE  ProbeInv'
    BY <2>2, <2>4 DEF Begin, Wait, Reject, CancelSleep, Awake, Leave,
       breakerVars, ProbeInv
  <2>5. ASSUME NEW c \in Calls, Send(c)
        PROVE  ProbeInv'
    <3>1. c \notin probes
      BY <2>5 DEF Send, Awake, ProbeInv
    <3>2. Cardinality(probes \cup {c}) = Cardinality(probes) + 1
          /\ Cardinality(probes) \in Nat
      BY <2>1, <3>1, Probes
    <3>3. DOMAIN pc' = Calls /\ \A d \in probes \cup {c} : pc'[d] = "calling"
      BY <2>5 DEF Send, ProbeInv
    <3>4. Admitted /\ BeforeCall(c)
      BY <2>5 DEF Send
    <3>5. CASE breaker = "closed"
      BY <2>2, <3>3, <3>4, <3>5 DEF BeforeCall
    <3>6. CASE breaker = "open"
      BY <2>1, <3>2, <3>3, <3>4, <3>6 DEF BeforeCall, ProbeInv, NoProbeLeak
    <3>7. CASE breaker = "half_open"
      BY <2>1, <3>2, <3>3, <3>4, <3>7 DEF BeforeCall, ProbeInv, NoProbeLeak
    <3> QED BY <3>4, <3>5, <3>6, <3>7 DEF Admitted, Recovered, ProbeFree
  <2>6. ASSUME halfOpenCalls' = 0, probes' = {}, DOMAIN pc' = Calls
        PROVE  ProbeInv'
    BY <2>6, FS_EmptySet DEF ProbeInv, NoProbeLeak
  <2>7. ASSUME NEW c \in Calls, Answer(c)
        PROVE  ProbeInv'
    BY <2>6, <2>7 DEF Answer, RecordSuccess, Leave, ProbeInv
  <2>8. ASSUME NEW c \in Calls, FailAndRetry(c) \/ FailForGood(c)
        PROVE  ProbeInv'
    <3>1. RecordFailure /\ DOMAIN pc' = Calls
      BY <2>8 DEF FailAndRetry, FailForGood, Leave, ProbeInv
    <3>2. CASE Trips
      BY <2>6, <3>1, <3>2 DEF RecordFailure
    <3>3. CASE ~Trips
      BY <2>2, <3>1, <3>3 DEF RecordFailure, Trips, ProbeInv
    <3> QED BY <3>2, <3>3
  <2>9. ASSUME NEW c \in Calls, CancelRequest(c)
        PROVE  ProbeInv'
    <3>1. DOMAIN pc' = Calls /\ \A d \in probes \ {c} : pc'[d] = "calling"
      BY <2>9 DEF CancelRequest, Leave, ProbeInv
    <3>2. ReleaseProbe(c)
      BY <2>9 DEF CancelRequest
    <3>3. /\ Cardinality(probes \ {c})
               \in {Cardinality(probes), Cardinality(probes) - 1}
          /\ Cardinality(probes \ {c}) \in Nat /\ Cardinality(probes) \in Nat
      BY <2>1, Probes
    <3>4. halfOpenCalls' \in Nat /\ halfOpenCalls' <= Cardinality(probes \ {c})
      BY <3>2, <3>3, FS_EmptySet DEF ReleaseProbe, ProbeInv, NoProbeLeak
    <3> QED BY <2>1, <3>1, <3>2, <3>4 DEF ReleaseProbe, ProbeInv, NoProbeLeak
  <2> QED BY <2>3, <2>4, <2>5, <2>7, <2>8, <2>9 DEF Next, Try, Finish
<1> QED BY <1>1, <1>2, PTL DEF Spec

(***************************************************************************)
(* A half-open breaker never counts a probe that is not out any more, for  *)
(* any number of calls and stale answers (before_call, release_probe).     *)
(***************************************************************************)
THEOREM ProbesNeverLeak == Spec => []NoProbeLeak
<1>1. ProbeInv => NoProbeLeak
  BY DEF ProbeInv
<1> QED BY <1>1, ProbeInvariant, PTL

(* The states of the breaker, with a count that stops at the threshold. *)
BreakerInv ==
  /\ breaker \in {"closed", "open", "half_open"}
  /\ failureCount \in 0..FailureThreshold
  /\ BreakerTracksFailures

(***************************************************************************)
(* The breaker is CLOSED exactly below the threshold of failures since the *)
(* last success, whatever order results arrive in (record_failure).        *)
(***************************************************************************)
THEOREM BreakerTracks == Spec => []BreakerTracksFailures
<1>1. Init => BreakerInv
  BY LimitsAssumption DEF Init, BreakerInv, BreakerTracksFailures
<1>2. BreakerInv /\ [Next]_vars => BreakerInv'
  <2> SUFFICES ASSUME BreakerInv, [Next]_vars PROVE BreakerInv'
    OBVIOUS
  <2>1. CASE UNCHANGED <<breaker, failureCount>>
    BY <2>1 DEF BreakerInv, BreakerTracksFailures
  <2>2. ASSUME NEW c \in Calls, Send(c)
        PROVE  BreakerInv'
    BY <2>2 DEF Send, BeforeCall, Admitted, BreakerInv, BreakerTracksFailures
  <2>3. CASE RecordSuccess
    BY <2>3, LimitsAssumption
    DEF RecordSuccess, BreakerInv, BreakerTracksFailures
  <2>4. CASE RecordFailure
    BY <2>4, LimitsAssumption
    DEF RecordFailure, Trips, Smaller, BreakerInv, BreakerTracksFailures
  <2>5. ASSUME NEW c \in Calls, Begin(c) \/ Wait(c) \/ Reject(c)
                \/ CancelSleep(c) \/ CancelRequest(c)
        PROVE  UNCHANGED <<breaker, failureCount>>
    BY <2>5 DEF Begin, Wait, Reject, CancelSleep, CancelRequest, ReleaseProbe,
       breakerVars
  <2>6. Tick \/ UNCHANGED vars => UNCHANGED <<breaker, failureCount>>
    BY DEF Tick, vars
  <2> QED BY <2>1, <2>2, <2>3, <2>4, <2>5, <2>6
          DEF Next, Try, Finish, Answer, FailAndRetry, FailForGood
<1>3. BreakerInv => BreakerTracksFailures
  BY DEF BreakerInv
<1> QED BY <1>1, <1>2, <1>3, PTL DEF Spec

-----------------------------------------------------------------------------
(* Types.                                                                  *)

(* What TypeOK adds to the invariants above. *)
CountersFit ==
  /\ breaker \in {"closed", "open", "half_open"}
  /\ failureCount \in 0..FailureThreshold
  /\ openAge \in 0..RecoveryTime
  /\ halfOpenCalls \in 0..HalfOpenMaxCalls
  /\ BreakerTracksFailures

CallsFit ==
  /\ pc \in [Calls -> {"idle", "acquiring", "calling", "backoff"}]
  /\ attempt \in [Calls -> 1..MaxAttempts]
  /\ timer \in [Calls -> Nat]

BucketFits == tokens \in 0..Capacity /\ idle \in 0..Capacity

LEMMA BackoffType == \A n : BackoffDelay(n) \in 0..MaxDelay
<1> TAKE n
<1> DEFINE delay == BaseDelay * 2 ^ (n - 1)
<1> HIDE DEF delay
<1>1. (IF delay \in 0..MaxDelay THEN delay ELSE MaxDelay) \in 0..MaxDelay
  BY LimitsAssumption
<1> QED BY <1>1 DEF BackoffDelay, delay

(* Idle time is counted until the bucket is full, at the latest Capacity. *)
LEMMA NextKeepsBucket == BucketFits /\ [Next]_vars => BucketFits'
<1> SUFFICES ASSUME BucketFits, [Next]_vars PROVE BucketFits'
  OBVIOUS
<1>1. BucketInv
  BY LimitsAssumption DEF BucketFits, BucketInv
<1>2. tokens' \in 0..Capacity
  BY <1>1, LevelStep DEF BucketInv
<1>3. 0 \in 0..Capacity
  BY LimitsAssumption
<1>4. CASE Tick
  <2>1. /\ idle * RefillRate \in Nat /\ idle * RefillRate >= idle
        /\ idle \in Nat /\ tokens \in Nat /\ Capacity \in Nat
    BY <1>1, Products, LimitsAssumption DEF BucketInv
  <2> DEFINE p == idle * RefillRate
  <2>2. p \in Nat /\ p >= idle
    BY <2>1
  <2>3. idle' = IF tokens + p >= Capacity THEN idle ELSE idle + 1
    BY <1>4 DEF Tick
  <2> HIDE DEF p
  <2>4. idle' \in 0..Capacity
    BY <2>1, <2>2, <2>3 DEF BucketFits
  <2> QED BY <1>2, <2>4 DEF BucketFits
<1>5. CASE ~Tick
  <2>1. idle' = idle \/ idle' = 0
    BY <1>5 DEF Next, Try, Wait, Send, Reject, TakeTokens, Begin, Finish, Answer,
       FailAndRetry, FailForGood, CancelRequest, CancelSleep, bucketVars, vars
  <2> QED BY <1>2, <1>3, <2>1 DEF BucketFits
<1> QED BY <1>4, <1>5

LEMMA NextKeepsCounters == CountersFit /\ [Next]_vars => CountersFit'
<1> SUFFICES ASSUME CountersFit, [Next]_vars PROVE CountersFit'
  OBVIOUS
<1>1. CASE UNCHANGED breakerVars
  BY <1>1 DEF breakerVars, CountersFit, BreakerTracksFailures
<1>2. CASE Tick
  BY <1>2, LimitsAssumption DEF Tick, CountersFit, BreakerTracksFailures
<1>3. ASSUME NEW c \in Calls, Send(c) PROVE CountersFit'
  BY <1>3, LimitsAssumption DEF Send, Admitted, Recovered, ProbeFree, BeforeCall,
     CountersFit, BreakerTracksFailures
<1>4. CASE RecordSuccess
  BY <1>4, LimitsAssumption DEF RecordSuccess, CountersFit, BreakerTracksFailures
<1>5. CASE RecordFailure
  BY <1>5, LimitsAssumption
  DEF RecordFailure, Trips, Smaller, CountersFit, BreakerTracksFailures
<1>6. ASSUME NEW c \in Calls, CancelRequest(c) PROVE CountersFit'
  BY <1>6, LimitsAssumption
  DEF CancelRequest, ReleaseProbe, CountersFit, BreakerTracksFailures
<1>7. ASSUME NEW c \in Calls, Begin(c) \/ Wait(c) \/ Reject(c) \/ CancelSleep(c)
      PROVE  UNCHANGED breakerVars
  BY <1>7 DEF Begin, Wait, Reject, CancelSleep
<1>8. UNCHANGED vars => UNCHANGED breakerVars
  BY DEF vars, breakerVars
<1> QED BY <1>1, <1>2, <1>3, <1>4, <1>5, <1>6, <1>7, <1>8
        DEF Next, Try, Finish, Answer, FailAndRetry, FailForGood

LEMMA NextKeepsCalls == BucketFits /\ CallsFit /\ [Next]_vars => CallsFit'
<1> SUFFICES ASSUME BucketFits, CallsFit, [Next]_vars PROVE CallsFit'
  OBVIOUS
<1>1. ASSUME NEW c \in Calls, Wait(c) PROVE CallsFit'
  <2>1. WaitTime \in Nat
    BY <1>1, WaitIsLeast, LimitsAssumption DEF Wait, BucketFits, BucketInv
  <2> QED BY <1>1, <2>1 DEF Wait, CallsFit
<1>2. ASSUME NEW c \in Calls, Leave(c) PROVE CallsFit'
  BY <1>2, LimitsAssumption DEF Leave, CallsFit
<1>3. ASSUME NEW c \in Calls, FailAndRetry(c) PROVE CallsFit'
  <2>1. /\ attempt[c] + 1 \in 1..MaxAttempts
        /\ pc' = [pc EXCEPT ![c] = "backoff"]
        /\ attempt' = [attempt EXCEPT ![c] = attempt[c] + 1]
    BY <1>3, LimitsAssumption DEF FailAndRetry, CallsFit
  <2>2. PICK jitter \in 0..MaxJitter :
          timer' = [timer EXCEPT ![c] = BackoffDelay(attempt[c]) + jitter]
    BY <1>3 DEF FailAndRetry
  <2>3. BackoffDelay(attempt[c]) \in Nat /\ jitter \in Nat
    BY BackoffType, LimitsAssumption
  <2>4. BackoffDelay(attempt[c]) + jitter \in Nat
    BY <2>3
  <2> QED BY <2>1, <2>2, <2>4 DEF CallsFit
<1>4. ASSUME NEW c \in Calls, Begin(c) \/ Send(c) PROVE CallsFit'
  BY <1>4 DEF Begin, Send, CallsFit
<1>5. CASE Tick
  BY <1>5 DEF Tick, CallsFit
<1>6. CASE UNCHANGED vars
  BY <1>6 DEF vars, CallsFit
<1> QED BY <1>1, <1>2, <1>3, <1>4, <1>5, <1>6
        DEF Next, Try, Reject, Finish, Answer, FailForGood, CancelRequest, CancelSleep

(***************************************************************************)
(* The types, and no counter beyond its limit: of the bucket, the breaker  *)
(* and its probes (complete, acquire, before_call, record_failure).        *)
(***************************************************************************)
THEOREM TypeCorrect == Spec => []TypeOK
<1>1. Init => BucketFits /\ CountersFit /\ CallsFit
  BY LimitsAssumption DEF Init, BucketFits, CountersFit, CallsFit, BreakerTracksFailures
<1>2. BucketFits /\ CountersFit /\ CallsFit /\ [Next]_vars
        => (BucketFits /\ CountersFit /\ CallsFit)'
  BY NextKeepsBucket, NextKeepsCounters, NextKeepsCalls
<1>3. BucketFits /\ CountersFit /\ CallsFit /\ ProbeInv => TypeOK
  BY DEF BucketFits, CountersFit, CallsFit, ProbeInv, TypeOK
<1> QED BY <1>1, <1>2, <1>3, ProbeInvariant, PTL DEF Spec
=============================================================================
