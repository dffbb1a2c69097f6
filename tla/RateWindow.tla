------------------------------ MODULE RateWindow -----------------------------
(***************************************************************************)
(* The LLM client watched through a window of time: how many calls took    *)
(* their tokens since the window opened.  A window may open after any tick *)
(* and is watched for WindowLength ticks; the client does not notice.      *)
(***************************************************************************)
EXTENDS ResilientLLM

CONSTANT WindowLength

ASSUME WindowAssumption == WindowLength \in Nat

VARIABLES
  ticks,    \* history: the age of the window
  taken     \* history: calls that took tokens since it opened

windowVars == <<ticks, taken>>
watchedVars == <<vars, windowVars>>

WatchInit == Init /\ ticks = 0 /\ taken = 0

(* acquire() returns to a call. *)
Acquired == \E c \in Calls : Send(c) \/ Reject(c)

WatchAcquired == Acquired /\ taken' = taken + 1 /\ UNCHANGED ticks

WatchTick ==
  /\ Tick
  /\ \/ ticks < WindowLength /\ ticks' = ticks + 1 /\ UNCHANGED taken
     \/ ticks' = 0 /\ taken' = 0

WatchOther ==
  /\ \E c \in Calls : Begin(c) \/ Wait(c) \/ Finish(c) \/ CancelSleep(c)
  /\ UNCHANGED windowVars

WatchNext == WatchAcquired \/ WatchTick \/ WatchOther

WatchSpec == WatchInit /\ [][WatchNext]_watchedVars

FairWatchSpec == WatchSpec /\ Fairness

-----------------------------------------------------------------------------
(***************************************************************************)
(* The rate holds over every window: however the calls sleep, wake, are    *)
(* refused by the breaker or cancelled, no more of them take their tokens  *)
(* within n ticks than a full bucket and n ticks of refill pay for         *)
(* (RateLimitConfig: refill_per_second, with bursts up to capacity).       *)
(***************************************************************************)
RateHolds == taken * Cost <= Capacity + ticks * RefillRate
=============================================================================
