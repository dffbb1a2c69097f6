------------------------------ MODULE RateLimit ------------------------------
(***************************************************************************)
(* What the token bucket of the LLM client promises: a level that rises at *)
(* a constant rate up to a capacity, and calls that each take Cost of it.  *)
(* However the calls interleave, no more of them go out in an interval     *)
(* than its length and the capacity allow.  ResilientLLM implements it.    *)
(***************************************************************************)
EXTENDS Integers

CONSTANTS
  Capacity,     \* RateLimitConfig.capacity
  RefillRate,   \* RateLimitConfig.refill_per_second, per tick of the model
  Cost          \* what one call takes

VARIABLE level

UpToCapacity(n) == IF n < Capacity THEN n ELSE Capacity

Init == level = Capacity

(* Time passes. *)
Refill == level' = UpToCapacity(level + RefillRate)

(* One call goes out. *)
Take == level >= Cost /\ level' = level - Cost

Next == Refill \/ Take

Spec == Init /\ [][Next]_level
=============================================================================
