------------------------ MODULE MemoryAdapters_proofs ------------------------
(***************************************************************************)
(* Proofs about MemoryAdapters for any number of runs, owners and keys and *)
(* any ttl.                                                                *)
(***************************************************************************)
EXTENDS MemoryAdapters, TLAPS

LeaseStep ==
  \/ \E r \in Runs, o \in Owners :
       Release(r, o) \/ \E ttl \in Ttl : Acquire(r, o, ttl) \/ Renew(r, o, ttl)
  \/ \E r \in Runs : Owner(r)
  \/ Tick

LEMMA NextSplits ==
  ASSUME Next
  PROVE  \/ LeaseStep
         \/ \E r \in Runs : Delete(r) \/ \E k \in Keys \cup {NoKey} : Add(r, k)
  BY DEF Next, LeaseStep

(* What a step of the lease manager leaves of the repository, and types. *)
LEMMA LeaseStepKeeps ==
  ASSUME TypeOK, LeaseStep
  PROVE  UNCHANGED repositoryVars /\ TypeOK'
<1>1. ASSUME NEW r \in Runs, NEW o \in Owners \cup {NoOwner}, NEW t \in 0..MaxTtl,
             \/ owner' = [owner EXCEPT ![r] = o] /\ left' = [left EXCEPT ![r] = t]
             \/ UNCHANGED leaseVars,
             UNCHANGED repositoryVars
      PROVE  TypeOK'
  BY <1>1 DEF TypeOK, repositoryVars, leaseVars
<1>2. CASE Tick
  BY <1>2, TtlAssumption DEF Tick, TypeOK, repositoryVars
<1>3. ASSUME NEW r \in Runs, NEW o \in Owners, NEW t \in Ttl,
             Acquire(r, o, t) \/ Renew(r, o, t)
      PROVE  UNCHANGED repositoryVars /\ TypeOK'
  <2>1. UNCHANGED repositoryVars /\ (Lease(r, o, t) \/ UNCHANGED leaseVars)
    BY <1>3 DEF Acquire, Renew
  <2> QED BY <1>1, <2>1, TtlAssumption DEF Lease, Ttl
<1>4. ASSUME NEW r \in Runs, Owner(r) \/ \E o \in Owners : Release(r, o)
      PROVE  UNCHANGED repositoryVars /\ TypeOK'
  <2>1. UNCHANGED repositoryVars /\ (Drop(r) \/ UNCHANGED leaseVars)
    BY <1>4 DEF Owner, Release
  <2> QED BY <1>1, <2>1, TtlAssumption DEF Drop
<1> QED
  BY <1>2, <1>3, <1>4 DEF LeaseStep, Tick

-----------------------------------------------------------------------------
(* Types and the repository.                                               *)

RepositoryInv == TypeOK /\ RepositoryConsistent

LEMMA AddKeeps ==
  ASSUME RepositoryInv, NEW r \in Runs, NEW k \in Keys \cup {NoKey}, Add(r, k)
  PROVE  RepositoryInv'
<1> USE DEF RepositoryInv
<1>1. TypeOK'
  BY DEF Add, TypeOK, leaseVars
<1>2. byRun[r] = NoKey
  BY NoneAssumption DEF Add, TypeOK, RepositoryConsistent
<1>3. ASSUME NEW i \in Keys, index'[i] # NoRun
      PROVE  index'[i] \in stored' /\ byRun'[index'[i]] = i
  BY <1>2, <1>3, NoneAssumption DEF Add, TypeOK, RepositoryConsistent
<1>4. ASSUME NEW s \in Runs, byRun'[s] # NoKey
      PROVE  index'[byRun'[s]] = s
  BY <1>2, <1>4, NoneAssumption DEF Add, TypeOK, RepositoryConsistent
<1> QED BY <1>1, <1>3, <1>4 DEF RepositoryConsistent

LEMMA DeleteKeeps ==
  ASSUME RepositoryInv, NEW r \in Runs, Delete(r)
  PROVE  RepositoryInv'
<1> USE DEF RepositoryInv
<1>1. TypeOK'
  BY DEF Delete, TypeOK, leaseVars
<1>2. ASSUME NEW i \in Keys, index'[i] # NoRun
      PROVE  index'[i] \in stored' /\ byRun'[index'[i]] = i
  BY <1>2, NoneAssumption DEF Delete, TypeOK, RepositoryConsistent
<1>3. ASSUME NEW s \in Runs, byRun'[s] # NoKey
      PROVE  index'[byRun'[s]] = s
  BY <1>3, NoneAssumption DEF Delete, TypeOK, RepositoryConsistent
<1> QED BY <1>1, <1>2, <1>3 DEF RepositoryConsistent

LEMMA NextKeepsRepository == RepositoryInv /\ [Next]_vars => RepositoryInv'
<1> SUFFICES ASSUME RepositoryInv, [Next]_vars
             PROVE  RepositoryInv'
  OBVIOUS
<1>1. CASE LeaseStep
  BY <1>1, LeaseStepKeeps
     DEF RepositoryInv, RepositoryConsistent, repositoryVars
<1>2. ASSUME NEW r \in Runs, Delete(r) \/ \E k \in Keys \cup {NoKey} : Add(r, k)
      PROVE  RepositoryInv'
  BY <1>2, AddKeeps, DeleteKeeps
<1>3. CASE UNCHANGED vars
  BY <1>3 DEF RepositoryInv, TypeOK, RepositoryConsistent, vars, leaseVars, repositoryVars
<1> QED BY <1>1, <1>2, <1>3, NextSplits

LEMMA InitRepository == Init => RepositoryInv
  BY NoneAssumption, TtlAssumption
     DEF Init, RepositoryInv, TypeOK, RepositoryConsistent

LEMMA RepositoryInvariant == Spec => []RepositoryInv
  BY InitRepository, NextKeepsRepository, PTL DEF Spec

(* Leases never run beyond the largest ttl; every map keeps its type. *)
THEOREM TypeCorrect == Spec => []TypeOK
<1>1. RepositoryInv => TypeOK
  BY DEF RepositoryInv
<1> QED BY <1>1, RepositoryInvariant, PTL

(* The repository's two idempotency maps stay inverse and name stored runs. *)
THEOREM RepositoryAlwaysConsistent == Spec => []RepositoryConsistent
<1>1. RepositoryInv => RepositoryConsistent
  BY DEF RepositoryInv
<1> QED BY <1>1, RepositoryInvariant, PTL

-----------------------------------------------------------------------------
(* The lease manager implements ExclusiveLease.                            *)

(* The promise that the leases make. *)
Promises == [r \in Runs |-> [o \in Owners |-> IF owner[r] = o THEN left[r] ELSE 0]]

LEMMA PromiseInit == Init => Promise!Init
  BY NoneAssumption DEF Init, Promise!Init

(* A lease that nobody has is over. *)
LeasesOwned == \A r \in Runs : owner[r] = NoOwner => left[r] = 0

LEMMA OwnedInvariant == Spec => []LeasesOwned
<1>1. Init => LeasesOwned
  BY DEF Init, LeasesOwned
<1>2. TypeOK /\ LeasesOwned /\ [Next]_vars => LeasesOwned'
  <2> SUFFICES ASSUME TypeOK, LeasesOwned, [Next]_vars
               PROVE  LeasesOwned'
    OBVIOUS
  <2>1. ASSUME NEW r \in Runs, NEW o \in Owners, NEW t \in Ttl, Lease(r, o, t)
        PROVE  LeasesOwned'
    BY <2>1, NoneAssumption DEF Lease, LeasesOwned, TypeOK
  <2>2. ASSUME NEW r \in Runs, Drop(r)
        PROVE  LeasesOwned'
    BY <2>2 DEF Drop, LeasesOwned, TypeOK
  <2>3. CASE UNCHANGED leaseVars
    BY <2>3 DEF leaseVars, LeasesOwned
  <2>4. CASE Tick
    BY <2>4 DEF Tick, LeasesOwned, TypeOK
  <2>5. ASSUME NEW r \in Runs, Delete(r) \/ \E k \in Keys \cup {NoKey} : Add(r, k)
        PROVE  UNCHANGED leaseVars
    BY <2>5 DEF Delete, Add
  <2>6. ASSUME LeaseStep, ~Tick
        PROVE  LeasesOwned'
    BY <2>1, <2>2, <2>3, <2>6 DEF LeaseStep, Acquire, Renew, Release, Owner
  <2>7. CASE UNCHANGED vars
    BY <2>3, <2>7 DEF vars
  <2> QED BY <2>3, <2>4, <2>5, <2>6, <2>7, NextSplits
<1> QED BY <1>1, <1>2, TypeCorrect, PTL DEF Spec

LEMMA PromisesAre ==
  ASSUME TypeOK, NEW r \in Runs, NEW o \in Owners
  PROVE  /\ Promises[r][o] = IF owner[r] = o THEN left[r] ELSE 0
         /\ left[r] \in Nat
         /\ Promise!Promised(r, o) <=> owner[r] = o /\ ~Lapsed(r)
  BY TtlAssumption DEF TypeOK, Promises, Promise!Promised, Lapsed

(* What a new lease and the end of one do to the promises. *)
LEMMA LeasePromises ==
  ASSUME TypeOK, NEW r \in Runs, NEW o \in Owners, NEW t,
         Lease(r, o, t), Lapsed(r) \/ owner[r] = o
  PROVE  Promise!Promise(r, o, t)
<1>1. /\ owner' = [owner EXCEPT ![r] = o] /\ left' = [left EXCEPT ![r] = t]
      /\ left[r] = 0 \/ owner[r] = o
  BY DEF Lease, Lapsed
<1>2. owner \in [Runs -> Owners \cup {NoOwner}] /\ left \in [Runs -> 0..MaxTtl]
  BY DEF TypeOK
<1>3. Promises' = [Promises EXCEPT ![r][o] = t]
  BY <1>1, <1>2 DEF Promises
<1> QED BY <1>3 DEF Promise!Promise, Promises

LEMMA DropPromises ==
  ASSUME TypeOK, NEW r \in Runs, NEW o \in Owners, Drop(r), owner[r] = o
  PROVE  Promise!Promise(r, o, 0)
<1>1. owner' = [owner EXCEPT ![r] = NoOwner] /\ left' = [left EXCEPT ![r] = 0]
  BY DEF Drop
<1>2. owner \in [Runs -> Owners \cup {NoOwner}] /\ left \in [Runs -> 0..MaxTtl]
  BY DEF TypeOK
<1>3. Promises' = [Promises EXCEPT ![r][o] = 0]
  BY <1>1, <1>2 DEF Promises
<1> QED BY <1>3 DEF Promise!Promise, Promises

LEMMA DropOfLapsed ==
  ASSUME TypeOK, NEW r \in Runs, Drop(r), Lapsed(r)
  PROVE  Promises' = Promises
  BY NoneAssumption DEF TypeOK, Drop, Lapsed, Promises

LEMMA SamePromises ==
  ASSUME UNCHANGED leaseVars
  PROVE  Promises' = Promises
  BY DEF leaseVars, Promises

-----------------------------------------------------------------------------
(* The calls, one by one.                                                  *)

LEMMA AcquirePromises ==
  ASSUME TypeOK, LeasesOwned, NEW r \in Runs, NEW o \in Owners, NEW t \in Ttl,
         Acquire(r, o, t)
  PROVE  Promise!Acquire(r, o, t)
<1>1. CASE Lapsed(r)
  <2>1. Lease(r, o, t) /\ last' = <<"acquire", r, o, t, TRUE>>
    BY <1>1 DEF Acquire
  <2>2. \A p \in Owners : ~Promise!Promised(r, p)
    BY <1>1, PromisesAre
  <2> QED BY <1>1, <2>1, <2>2, LeasePromises DEF Promise!Acquire
<1>2. CASE ~Lapsed(r) /\ owner[r] = o
  <2>1. Promises' = Promises /\ last' = <<"acquire", r, o, t, TRUE>>
    BY <1>2, SamePromises DEF Acquire
  <2>2. Promise!Promised(r, o)
    BY <1>2, PromisesAre
  <2> QED BY <2>1, <2>2 DEF Promise!Acquire, Promises
<1>3. CASE ~Lapsed(r) /\ owner[r] # o
  <2>1. Promises' = Promises /\ last' = <<"acquire", r, o, t, FALSE>>
    BY <1>3, SamePromises DEF Acquire
  <2>2. owner[r] \in Owners \ {o}
    BY <1>3 DEF TypeOK, LeasesOwned, Lapsed
  <2>3. Promise!Promised(r, owner[r])
    BY <1>3, <2>2, PromisesAre
  <2> QED BY <2>1, <2>2, <2>3 DEF Promise!Acquire, Promises
<1> QED BY <1>1, <1>2, <1>3

LEMMA RenewPromises ==
  ASSUME TypeOK, NEW r \in Runs, NEW o \in Owners, NEW t \in Ttl, Renew(r, o, t)
  PROVE  Promise!Renew(r, o, t)
<1>1. CASE owner[r] = o /\ ~Lapsed(r)
  <2>1. Lease(r, o, t) /\ last' = <<"renew", r, o, t, TRUE>>
    BY <1>1 DEF Renew
  <2> QED BY <1>1, <2>1, LeasePromises, PromisesAre DEF Promise!Renew
<1>2. CASE ~(owner[r] = o /\ ~Lapsed(r))
  <2>1. Promises' = Promises /\ last' = <<"renew", r, o, t, FALSE>>
    BY <1>2, SamePromises DEF Renew
  <2> QED BY <1>2, <2>1, PromisesAre DEF Promise!Renew, Promises
<1> QED BY <1>1, <1>2

LEMMA ReleasePromises ==
  ASSUME TypeOK, NEW r \in Runs, NEW o \in Owners, Release(r, o)
  PROVE  Promise!Release(r, o)
<1>1. CASE owner[r] = o
  <2>1. Drop(r) /\ last' = <<"release", r, o, TRUE>>
    BY <1>1 DEF Release
  <2> QED BY <1>1, <2>1, DropPromises DEF Promise!Release
<1>2. CASE owner[r] # o
  <2>1. Promises' = Promises /\ last' = <<"release", r, o, FALSE>>
    BY <1>2, SamePromises DEF Release
  <2>2. Promises[r][o] = 0 /\ ~Promise!Promised(r, o)
    BY <1>2, PromisesAre
  <2>3. [Promises EXCEPT ![r][o] = 0] = Promises
    BY <2>2 DEF Promises
  <2> QED BY <2>1, <2>2, <2>3 DEF Promise!Release, Promise!Promise, Promises
<1> QED BY <1>1, <1>2

LEMMA OwnerPromises ==
  ASSUME TypeOK, LeasesOwned, NEW r \in Runs, Owner(r)
  PROVE  Promise!Owner(r)
<1>1. CASE Lapsed(r)
  <2>1. Promises' = Promises /\ last' = <<"owner", r, NoOwner>>
    BY <1>1, DropOfLapsed DEF Owner
  <2> QED BY <1>1, <2>1, PromisesAre DEF Promise!Owner, Promises
<1>2. CASE ~Lapsed(r)
  <2>1. Promises' = Promises /\ last' = <<"owner", r, owner[r]>>
    BY <1>2, SamePromises DEF Owner
  <2>2. owner[r] \in Owners
    BY <1>2 DEF TypeOK, LeasesOwned, Lapsed
  <2> QED BY <1>2, <2>1, <2>2, PromisesAre DEF Promise!Owner, Promises
<1> QED BY <1>1, <1>2

LEMMA TickPromises ==
  ASSUME TypeOK, Tick
  PROVE  Promise!Tick
<1>1. /\ owner \in [Runs -> Owners \cup {NoOwner}] /\ left \in [Runs -> 0..MaxTtl]
      /\ owner' = owner /\ last' = <<"tick">>
      /\ left' = [r \in Runs |-> IF left[r] = 0 THEN 0 ELSE left[r] - 1]
  BY DEF TypeOK, Tick
<1>2. Promises' = [r \in Runs |-> [o \in Owners |->
                    IF Promises[r][o] > 0 THEN Promises[r][o] - 1 ELSE 0]]
  BY <1>1, TtlAssumption DEF Promises
<1> QED BY <1>1, <1>2 DEF Promise!Tick, Promise!Promised, Promises

LEMMA NextPromises ==
  TypeOK /\ LeasesOwned /\ [Next]_vars => [Promise!Next]_<<Promises, last>>
<1> SUFFICES ASSUME TypeOK, LeasesOwned, [Next]_vars
             PROVE  Promise!Next \/ (Promises' = Promises /\ last' = last)
  OBVIOUS
<1>1. CASE LeaseStep
  BY <1>1, AcquirePromises, RenewPromises, ReleasePromises, OwnerPromises,
     TickPromises DEF LeaseStep, Promise!Next
<1>2. ASSUME NEW r \in Runs, Delete(r) \/ \E k \in Keys \cup {NoKey} : Add(r, k)
      PROVE  Promises' = Promises /\ last' = last
  BY <1>2, SamePromises DEF Delete, Add
<1>3. CASE UNCHANGED vars
  BY <1>3, SamePromises DEF vars
<1> QED BY <1>1, <1>2, <1>3, NextSplits

(***************************************************************************)
(* What a live lease tells its owner is taken back by nobody else, and     *)
(* everybody is told what he has: the lease manager implements             *)
(* ExclusiveLease.                                                         *)
(***************************************************************************)
THEOREM ImplementsExclusiveLease == Spec => ExclusiveLeases
  BY PromiseInit, NextPromises, TypeCorrect, OwnedInvariant, PTL
     DEF Spec, ExclusiveLeases, Promise!Spec, Promise!vars, Promises
=============================================================================
