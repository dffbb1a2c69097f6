--------------------------- MODULE ExclusiveLease ----------------------------
(***************************************************************************)
(* What a lease manager promises: the time for which each owner may count  *)
(* on a resource, and what it tells its callers.  Nobody is promised a     *)
(* resource that is promised to somebody else; everybody else is refused;  *)
(* a promise only changes by its owner's calls and by the clock.           *)
(* MemoryAdapters implements it.                                           *)
(***************************************************************************)
EXTENDS Naturals

CONSTANTS Resources, Owners, Ttl, NoOwner

VARIABLES
  promise,   \* ticks for which an owner may count on a resource
  last       \* the last call and its answer, or that time has passed

vars == <<promise, last>>

Init == promise = [r \in Resources |-> [o \in Owners |-> 0]] /\ last = <<"start">>

Promised(r, o) == promise[r][o] > 0

Promise(r, o, ttl) == promise' = [promise EXCEPT ![r][o] = ttl]

(* The owner that asks again keeps the promise that it has. *)
Acquire(r, o, ttl) ==
  \/ /\ \E p \in Owners \ {o} : Promised(r, p)
     /\ UNCHANGED promise /\ last' = <<"acquire", r, o, ttl, FALSE>>
  \/ /\ Promised(r, o)
     /\ UNCHANGED promise /\ last' = <<"acquire", r, o, ttl, TRUE>>
  \/ /\ \A p \in Owners : ~Promised(r, p)
     /\ Promise(r, o, ttl) /\ last' = <<"acquire", r, o, ttl, TRUE>>

Renew(r, o, ttl) ==
  \/ Promised(r, o) /\ Promise(r, o, ttl) /\ last' = <<"renew", r, o, ttl, TRUE>>
  \/ ~Promised(r, o) /\ UNCHANGED promise /\ last' = <<"renew", r, o, ttl, FALSE>>

(* Who is promised nothing may be told either. *)
Release(r, o) ==
  /\ Promise(r, o, 0)
  /\ \E answer \in BOOLEAN : /\ last' = <<"release", r, o, answer>>
                             /\ Promised(r, o) => answer

Owner(r) ==
  /\ UNCHANGED promise
  /\ \/ \E o \in Owners : Promised(r, o) /\ last' = <<"owner", r, o>>
     \/ (\A o \in Owners : ~Promised(r, o)) /\ last' = <<"owner", r, NoOwner>>

Tick ==
  /\ promise' = [r \in Resources |->
                  [o \in Owners |-> IF Promised(r, o) THEN promise[r][o] - 1 ELSE 0]]
  /\ last' = <<"tick">>

Next ==
  \/ Tick
  \/ \E r \in Resources :
       \/ Owner(r)
       \/ \E o \in Owners :
            Release(r, o) \/ \E ttl \in Ttl : Acquire(r, o, ttl) \/ Renew(r, o, ttl)

Spec == Init /\ [][Next]_vars
=============================================================================
