--------------------------- MODULE MemoryAdapters ----------------------------
(***************************************************************************)
(* The lease manager and the run repository of adapters/memory.py, used by *)
(* any callers in any order: the runtime does not use these ports yet.     *)
(* Each operation holds the adapter's lock and never awaits under it, so   *)
(* it is one action.                                                       *)
(*                                                                         *)
(* Of a lease's expires_at only the distance from the clock matters, and   *)
(* only while it is positive.                                              *)
(***************************************************************************)
EXTENDS Naturals

CONSTANTS
  Runs,      \* run ids; also the resources that are leased
  Owners,    \* owner ids
  Keys,      \* idempotency keys
  MaxTtl,    \* bounds ttl_seconds
  NoOwner, NoRun, NoKey

ASSUME TtlAssumption == MaxTtl \in Nat \ {0}

ASSUME NoneAssumption ==
  NoOwner \notin Owners /\ NoRun \notin Runs /\ NoKey \notin Keys

VARIABLES
  owner,    \* _leases: the owner of each resource's lease, lapsed or not
  left,     \* ticks until it expires
  last,     \* the last call of the lease manager and what it returned
  stored,   \* _runs
  index,    \* _idempotency: key to run
  byRun     \* _idempotency_by_run: run to key

leaseVars == <<owner, left>>
repositoryVars == <<stored, index, byRun>>
vars == <<leaseVars, last, repositoryVars>>

Init ==
  /\ owner = [r \in Runs |-> NoOwner] /\ left = [r \in Runs |-> 0]
  /\ last = <<"start">>
  /\ stored = {}
  /\ index = [k \in Keys |-> NoRun] /\ byRun = [r \in Runs |-> NoKey]

-----------------------------------------------------------------------------
(* InMemoryLeaseManager.                                                   *)

(* _validate refuses a ttl that is not positive. *)
Ttl == 1..MaxTtl

(* A mutant of Lapsed: the lease is over one tick before it expires. *)
LapsedEarly(r) == left[r] <= 1

(* There is no lease, or expires_at <= now. *)
Lapsed(r) == left[r] = 0

Lease(r, o, ttl) == owner' = [owner EXCEPT ![r] = o] /\ left' = [left EXCEPT ![r] = ttl]

Drop(r) == owner' = [owner EXCEPT ![r] = NoOwner] /\ left' = [left EXCEPT ![r] = 0]

(* An owner that asks again is told True, and its lease stays as it is. *)
Acquire(r, o, ttl) ==
  /\ last' = <<"acquire", r, o, ttl, Lapsed(r) \/ owner[r] = o>>
  /\ IF Lapsed(r) THEN Lease(r, o, ttl) ELSE UNCHANGED leaseVars
  /\ UNCHANGED repositoryVars

Renew(r, o, ttl) ==
  LET holds == owner[r] = o /\ ~Lapsed(r)
  IN  /\ last' = <<"renew", r, o, ttl, holds>>
      /\ IF holds THEN Lease(r, o, ttl) ELSE UNCHANGED leaseVars
      /\ UNCHANGED repositoryVars

(* A mutant of Release: anybody can release a lease. *)
ReleaseAnyones(r, o) ==
  /\ last' = <<"release", r, o, owner[r] # NoOwner>>
  /\ Drop(r) /\ UNCHANGED repositoryVars

(* A lapsed lease can be released, too, as long as nobody took it over. *)
Release(r, o) ==
  /\ last' = <<"release", r, o, owner[r] = o>>
  /\ IF owner[r] = o THEN Drop(r) ELSE UNCHANGED leaseVars
  /\ UNCHANGED repositoryVars

(* owner() forgets a lease that has lapsed. *)
Owner(r) ==
  /\ last' = <<"owner", r, IF Lapsed(r) THEN NoOwner ELSE owner[r]>>
  /\ IF Lapsed(r) THEN Drop(r) ELSE UNCHANGED leaseVars
  /\ UNCHANGED repositoryVars

Tick ==
  /\ left' = [r \in Runs |-> IF left[r] = 0 THEN 0 ELSE left[r] - 1]
  /\ last' = <<"tick">> /\ UNCHANGED <<owner, repositoryVars>>

-----------------------------------------------------------------------------
(* InMemoryRunRepository.                                                  *)

(* add(), which refuses a run it has and a key that is taken. *)
Add(r, k) ==
  /\ r \notin stored
  /\ k \in Keys => index[k] = NoRun
  /\ stored' = stored \cup {r}
  /\ index' = [i \in Keys |-> IF i = k THEN r ELSE index[i]]
  /\ byRun' = [byRun EXCEPT ![r] = k]
  /\ UNCHANGED <<leaseVars, last>>

(* A mutant of Delete: the key of the run stays taken. *)
DeleteKeepsKey(r) ==
  /\ stored' = stored \ {r}
  /\ byRun' = [byRun EXCEPT ![r] = NoKey]
  /\ UNCHANGED <<index, leaseVars, last>>

Delete(r) ==
  /\ stored' = stored \ {r}
  /\ index' = [k \in Keys |-> IF k = byRun[r] THEN NoRun ELSE index[k]]
  /\ byRun' = [byRun EXCEPT ![r] = NoKey]
  /\ UNCHANGED <<leaseVars, last>>

-----------------------------------------------------------------------------
Next ==
  \/ \E r \in Runs, o \in Owners :
       \/ Release(r, o)
       \/ \E ttl \in Ttl : Acquire(r, o, ttl) \/ Renew(r, o, ttl)
  \/ \E r \in Runs : Owner(r) \/ Delete(r) \/ \E k \in Keys \cup {NoKey} : Add(r, k)
  \/ Tick

Spec == Init /\ [][Next]_vars

-----------------------------------------------------------------------------
TypeOK ==
  /\ owner \in [Runs -> Owners \cup {NoOwner}]
  /\ left \in [Runs -> 0..MaxTtl]
  /\ stored \subseteq Runs
  /\ index \in [Keys -> Runs \cup {NoRun}]
  /\ byRun \in [Runs -> Keys \cup {NoKey}]

(***************************************************************************)
(* The leases are exclusive: what a live lease tells its owner is the      *)
(* promise of ExclusiveLease, which no acquisition, renewal, release or    *)
(* query of another owner changes before it lapses, although release and   *)
(* owner() also touch leases that have lapsed; and every caller is told    *)
(* whether it has the promise.                                             *)
(***************************************************************************)
Promise == INSTANCE ExclusiveLease WITH
  Resources <- Runs,
  promise <- [r \in Runs |-> [o \in Owners |-> IF owner[r] = o THEN left[r] ELSE 0]]
ExclusiveLeases == Promise!Spec

(***************************************************************************)
(* The two idempotency maps are inverse to each other and name stored runs *)
(* only, whatever is added, refused and deleted, twice or never stored.    *)
(***************************************************************************)
RepositoryConsistent ==
  /\ \A k \in Keys : index[k] # NoRun => /\ index[k] \in stored
                                        /\ byRun[index[k]] = k
  /\ \A r \in Runs : byRun[r] # NoKey => index[byRun[r]] = r
=============================================================================
