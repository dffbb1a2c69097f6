----------------------------- MODULE ResilientLLM ----------------------------
(***************************************************************************)
(* The resilient LLM client of llm/resilience.py: concurrent calls that    *)
(* share a token bucket and a circuit breaker, with retry and backoff.     *)
(*                                                                         *)
(* The locks of the bucket and of the breaker are never held across a      *)
(* point where asyncio switches tasks: from waking up to the request going *)
(* out (acquire, before_call, provider.complete) is one step, and so is    *)
(* from the provider's answer to the next sleep or the end of the call.    *)
(* Time advances in ticks; a sleeping call has the ticks it has left.      *)
(***************************************************************************)
EXTENDS Integers, FiniteSets

CONSTANTS
  Calls,             \* concurrent complete() calls; each can be made again
  Cancellable,       \* those whose run may be cancelled or time out
  MaxAttempts,       \* RetryConfig.max_attempts
  BaseDelay,         \* RetryConfig.base_delay_seconds, in ticks
  MaxDelay,          \* RetryConfig.max_delay_seconds, in ticks
  MaxJitter,         \* the largest jitter, in ticks
  Capacity, RefillRate, Cost,
  FailureThreshold,  \* CircuitBreakerConfig.failure_threshold
  RecoveryTime,      \* CircuitBreakerConfig.recovery_timeout_seconds, ticks
  HalfOpenMaxCalls   \* CircuitBreakerConfig.half_open_max_calls

(* The validate methods, which admit a capacity below Cost. *)
ASSUME LimitsAssumption ==
  /\ IsFiniteSet(Calls) /\ Cancellable \subseteq Calls
  /\ MaxAttempts \in Nat \ {0}
  /\ BaseDelay \in Nat /\ MaxDelay \in Nat /\ MaxJitter \in Nat
  /\ BaseDelay <= MaxDelay
  /\ RefillRate \in Nat \ {0} /\ Cost \in Nat \ {0} /\ Capacity \in Nat
  /\ FailureThreshold \in Nat \ {0} /\ HalfOpenMaxCalls \in Nat \ {0}
  /\ RecoveryTime \in Nat

VARIABLES
  tokens,         \* TokenBucket._tokens
  idle,           \* ticks since _updated_at, until they fill the bucket
  breaker,        \* CircuitBreaker.state
  failureCount,   \* failure_count, which only matters up to the threshold
  openAge,        \* ticks since _opened_at, which matter up to RecoveryTime
  halfOpenCalls,  \* _half_open_calls
  pc,             \* where each call is
  attempt,        \* the attempt each call is making
  timer,          \* ticks each call still sleeps
  probes          \* history: calls out that this half-open phase admitted

bucketVars  == <<tokens, idle>>
breakerVars == <<breaker, failureCount, openAge, halfOpenCalls, probes>>
callVars    == <<pc, attempt, timer>>
vars == <<tokens, idle, breaker, failureCount, openAge, halfOpenCalls, pc,
          attempt, timer, probes>>

Init ==
  /\ tokens = Capacity /\ idle = 0
  /\ breaker = "closed" /\ failureCount = 0 /\ openAge = 0
  /\ halfOpenCalls = 0 /\ probes = {}
  /\ pc = [c \in Calls |-> "idle"]
  /\ attempt = [c \in Calls |-> 1]
  /\ timer = [c \in Calls |-> 0]

Smaller(m, n) == IF m < n THEN m ELSE n

-----------------------------------------------------------------------------
(* The token bucket: TokenBucket.acquire.                                  *)

(* A mutant of Level: idle time fills the bucket past its capacity. *)
LevelUnclamped == tokens + idle * RefillRate

(* The tokens that a call finds: the bucket is refilled when it is used. *)
Level == Smaller(Capacity, tokens + idle * RefillRate)

(* A mutant of WaitTime: measured from the level of the last use. *)
WaitTimeStale == (Cost - tokens + RefillRate - 1) \div RefillRate

(* The whole ticks until the missing tokens are there. *)
WaitTime == (Cost - Level + RefillRate - 1) \div RefillRate

Awake(c) == pc[c] \in {"acquiring", "backoff"} /\ timer[c] = 0

(* Too few tokens: sleep for as long as the missing ones need. *)
Wait(c) ==
  /\ Awake(c) /\ Level < Cost
  /\ tokens' = Level /\ idle' = 0
  /\ pc' = [pc EXCEPT ![c] = "acquiring"]
  /\ timer' = [timer EXCEPT ![c] = WaitTime]
  /\ UNCHANGED <<breakerVars, attempt>>

(* A mutant of TakeTokens: _updated_at stays, the time counts once more. *)
TakeTokensAgain == Level >= Cost /\ tokens' = Level - Cost /\ UNCHANGED idle

TakeTokens == Level >= Cost /\ tokens' = Level - Cost /\ idle' = 0

-----------------------------------------------------------------------------
(* The circuit breaker.                                                    *)

(* A mutant of Recovered: an OPEN breaker is never tried again. *)
RecoveredNever == FALSE

(* An OPEN breaker whose recovery window is over. *)
Recovered == breaker = "open" /\ openAge >= RecoveryTime

(* A half-open breaker with room for another probe. *)
ProbeFree == breaker = "half_open" /\ halfOpenCalls < HalfOpenMaxCalls

Admitted == breaker = "closed" \/ Recovered \/ ProbeFree

(* before_call() of a call it lets through. *)
BeforeCall(c) ==
  /\ breaker' = IF breaker = "open" THEN "half_open" ELSE breaker
  /\ halfOpenCalls' = CASE breaker = "open"      -> 1
                        [] breaker = "half_open" -> halfOpenCalls + 1
                        [] OTHER                 -> halfOpenCalls
  /\ probes' = IF breaker = "closed" THEN probes ELSE probes \cup {c}
  /\ UNCHANGED <<failureCount, openAge>>

(* A mutant of RecordSuccess: the failures counted so far stay. *)
RecordSuccessKeepsCount ==
  /\ breaker' = "closed" /\ halfOpenCalls' = 0 /\ probes' = {}
  /\ UNCHANGED <<failureCount, openAge>>

(* openAge has no meaning while the breaker is closed. *)
RecordSuccess ==
  /\ breaker' = "closed" /\ failureCount' = 0 /\ openAge' = 0
  /\ halfOpenCalls' = 0 /\ probes' = {}

Trips == breaker = "half_open" \/ failureCount + 1 >= FailureThreshold

RecordFailure ==
  /\ failureCount' = Smaller(failureCount + 1, FailureThreshold)
  /\ IF Trips
     THEN /\ breaker' = "open" /\ openAge' = 0
          /\ halfOpenCalls' = 0 /\ probes' = {}
     ELSE UNCHANGED <<breaker, openAge, halfOpenCalls, probes>>

(* A mutant of ReleaseProbe: a cancelled probe stays counted. *)
ReleaseProbeNot(c) ==
  probes' = probes \ {c} /\ UNCHANGED <<breaker, halfOpenCalls>>

(* release_probe(), also called for a call that was not a probe. *)
ReleaseProbe(c) ==
  /\ halfOpenCalls' = IF breaker = "half_open" /\ halfOpenCalls > 0
                      THEN halfOpenCalls - 1 ELSE halfOpenCalls
  /\ probes' = probes \ {c}
  /\ UNCHANGED breaker

-----------------------------------------------------------------------------
(* A call: ResilientLLMClient.complete.                                    *)

Leave(c) ==
  /\ pc' = [pc EXCEPT ![c] = "idle"]
  /\ attempt' = [attempt EXCEPT ![c] = 1]
  /\ timer' = [timer EXCEPT ![c] = 0]

(***************************************************************************)
(* An agent pattern makes its next call.  Where one call costs more than   *)
(* the bucket can hold, acquire() raises ValueError: the call is over at   *)
(* once and nothing has changed.                                           *)
(***************************************************************************)
Begin(c) ==
  /\ pc[c] = "idle" /\ Cost <= Capacity
  /\ pc' = [pc EXCEPT ![c] = "acquiring"]
  /\ UNCHANGED <<bucketVars, breakerVars, attempt, timer>>

(* The tokens are there and the breaker admits the request: it goes out. *)
Send(c) ==
  /\ Awake(c) /\ TakeTokens
  /\ Admitted /\ BeforeCall(c)
  /\ pc' = [pc EXCEPT ![c] = "calling"]
  /\ UNCHANGED <<attempt, timer>>

(* CircuitOpenError: the call is over, and its tokens are spent. *)
Reject(c) ==
  /\ Awake(c) /\ TakeTokens
  /\ ~Admitted
  /\ Leave(c)
  /\ UNCHANGED breakerVars

(* An answer, or an error that is not transient. *)
Answer(c) ==
  /\ pc[c] = "calling"
  /\ RecordSuccess /\ Leave(c)
  /\ UNCHANGED bucketVars

(* The delay doubles up to max_delay_seconds. *)
BackoffDelay(n) ==
  LET delay == BaseDelay * 2 ^ (n - 1) IN
  IF delay \in 0..MaxDelay THEN delay ELSE MaxDelay

(* A transient error with attempts left: back off, then try again. *)
FailAndRetry(c) ==
  /\ pc[c] = "calling" /\ attempt[c] < MaxAttempts
  /\ RecordFailure
  /\ pc' = [pc EXCEPT ![c] = "backoff"]
  /\ attempt' = [attempt EXCEPT ![c] = @ + 1]
  /\ \E jitter \in 0..MaxJitter :
        timer' = [timer EXCEPT ![c] = BackoffDelay(attempt[c]) + jitter]
  /\ UNCHANGED bucketVars

(* A transient error of the last attempt is raised. *)
FailForGood(c) ==
  /\ pc[c] = "calling" /\ attempt[c] >= MaxAttempts
  /\ RecordFailure /\ Leave(c)
  /\ UNCHANGED bucketVars

(* The run is cancelled or timed out while the request is out. *)
CancelRequest(c) ==
  /\ c \in Cancellable /\ pc[c] = "calling"
  /\ ReleaseProbe(c) /\ Leave(c)
  /\ UNCHANGED <<bucketVars, failureCount, openAge>>

(* The same while the call sleeps: nothing was counted for it. *)
CancelSleep(c) ==
  /\ c \in Cancellable /\ pc[c] \in {"acquiring", "backoff"}
  /\ Leave(c)
  /\ UNCHANGED <<bucketVars, breakerVars>>

(* One tick.  A full bucket and an elapsed recovery window stop counting. *)
Tick ==
  /\ idle' = IF tokens + idle * RefillRate >= Capacity THEN idle ELSE idle + 1
  /\ openAge' = IF breaker = "open" /\ openAge < RecoveryTime
                THEN openAge + 1 ELSE openAge
  /\ timer' = [c \in Calls |-> IF timer[c] > 0 THEN timer[c] - 1 ELSE 0]
  /\ UNCHANGED <<tokens, breaker, failureCount, halfOpenCalls, probes, pc,
                 attempt>>

Try(c) == Wait(c) \/ Send(c) \/ Reject(c)

Finish(c) ==
  \/ Answer(c) \/ FailAndRetry(c) \/ FailForGood(c) \/ CancelRequest(c)

Next ==
  \/ \E c \in Calls : Begin(c) \/ Try(c) \/ Finish(c) \/ CancelSleep(c)
  \/ Tick

Spec == Init /\ [][Next]_vars

(***************************************************************************)
(* Time passes, a call that wakes up is run, and the provider answers or   *)
(* times out (ProviderConfig.timeout_seconds).                             *)
(***************************************************************************)
Fairness ==
  /\ WF_vars(Tick)
  /\ \A c \in Calls : WF_vars(Try(c)) /\ WF_vars(Finish(c))

FairSpec == Spec /\ Fairness

-----------------------------------------------------------------------------
(* Safety.                                                                 *)

(* Every variable has its type; no probe count exceeds its limit. *)
TypeOK ==
  /\ tokens \in 0..Capacity /\ idle \in 0..Capacity
  /\ breaker \in {"closed", "open", "half_open"}
  /\ failureCount \in 0..FailureThreshold
  /\ openAge \in 0..RecoveryTime
  /\ halfOpenCalls \in 0..HalfOpenMaxCalls
  /\ pc \in [Calls -> {"idle", "acquiring", "calling", "backoff"}]
  /\ attempt \in [Calls -> 1..MaxAttempts]
  /\ timer \in [Calls -> Nat]
  /\ probes \subseteq {c \in Calls : pc[c] = "calling"}

(***************************************************************************)
(* A half-open breaker cannot get stuck: every probe it counts is a request*)
(* that is still out and that this half-open phase let through, whatever   *)
(* stale requests end in between (before_call, release_probe).             *)
(***************************************************************************)
NoProbeLeak ==
  /\ halfOpenCalls <= Cardinality(probes)
  /\ breaker # "half_open" => halfOpenCalls = 0

(***************************************************************************)
(* The breaker is CLOSED exactly while fewer failures than the threshold   *)
(* have been counted since the last success: it never stays closed above   *)
(* it, and late results never open it below it (record_failure, success).  *)
(***************************************************************************)
BreakerTracksFailures ==
  (breaker = "closed") <=> (failureCount < FailureThreshold)

(***************************************************************************)
(* A call never sleeps past the moment its tokens are there: before its    *)
(* last tick of sleep the level is still too low, whatever other calls     *)
(* took meanwhile (TokenBucket.acquire computes wait_seconds once).        *)
(***************************************************************************)
NoOversleep ==
  \A c \in Calls :
    pc[c] = "acquiring" /\ timer[c] > 0 =>
      Level + (timer[c] - 1) * RefillRate < Cost

(* The lazily refilled bucket is the rate limit promised (TokenBucket). *)
Bucket == INSTANCE RateLimit WITH level <- Level
BucketSpec == Bucket!Spec

-----------------------------------------------------------------------------
(* Liveness.                                                               *)

(***************************************************************************)
(* As long as calls that nobody cancels keep coming, an OPEN breaker is    *)
(* tried again, although late failures start its recovery window anew.     *)
(***************************************************************************)
OpenIsRetried ==
  ([]<>(\E c \in Calls \ Cancellable : pc[c] # "idle"))
    => []<>(breaker # "open")

-----------------------------------------------------------------------------
(* What the documents say and the code does not do.                        *)

(***************************************************************************)
(* README.md:95: after the recovery window only a limited number of        *)
(* HALF_OPEN probes is let through.                                        *)
(***************************************************************************)
HalfOpenBounded ==
  breaker = "half_open" => Cardinality(probes) <= HalfOpenMaxCalls
=============================================================================
