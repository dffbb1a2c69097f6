--------------------------- MODULE EventBus_proofs ---------------------------
(***************************************************************************)
(* Proofs about EventBus for any number of subscriptions, workers, topics  *)
(* and events and any queue sizes.                                         *)
(***************************************************************************)
EXTENDS EventBus, SequenceFacts

-----------------------------------------------------------------------------
(* The inductive invariant.                                                *)

(* A worker holds an event from taking it until its handler is over; one   *)
(* that died keeps it.                                                     *)
HoldersFit ==
  \A w \in Workers : held[w] = Pill <=> pc[w] \in {"none", "idle", "stopped"}

(* A worker waits in the executor's queue at most once. *)
PoolFits ==
  /\ \A i \in 1..Len(pool) : pc[pool[i]] = "pooled"
  /\ \A i, j \in 1..Len(pool) : pool[i] = pool[j] => i = j

(* Workers begin with start(). *)
NewHasNoWorker == phase = "new" => \A w \in Workers : pc[w] = "none"

(* Before close() begins there are no pills, hence no worker has stopped. *)
OpenHasNoPill ==
  phase \in {"new", "started"} =>
    /\ \A s \in Subs : \A i \in 1..Len(queue[s]) : queue[s][i] # Pill
    /\ \A w \in Workers : pc[w] # "stopped"

(* What stands behind a pill was emitted after close() began. *)
PillsLast ==
  \A s \in Subs : \A i, j \in 1..Len(queue[s]) :
    i < j /\ queue[s][i] = Pill /\ queue[s][j] # Pill => queue[s][j] > closeMark

BusInv ==
  /\ TypeOK
  /\ HoldersFit /\ PoolFits /\ NewHasNoWorker
  /\ OpenHasNoPill /\ PillsLast /\ DrainedBeforeStop

(* Deliveries are counted where their number is finite. *)
CountInv == IsFiniteSet(AllWaiting) /\ DeliveriesAccounted

USE DEF Pill

-----------------------------------------------------------------------------
(* Constants.                                                              *)

LEMMA SubsFinite == IsFiniteSet(Subs)
<1> DEFINE n == Len(Subscriptions)
           f == [i \in 1..n |-> Subscriptions[i]]
<1>1. n \in Nat /\ IsFiniteSet(1..n)
  BY BusAssumption, FirstNumbers
<1>2. f \in Surjection(1..n, Subs)
  BY DEF Surjection, Subs
<1> HIDE DEF f
<1> QED BY <1>1, <1>2, FS_Surjection

LEMMA ConstantsFit ==
  /\ PillsOwed \in Nat /\ MaxEvents \in Nat
  /\ \A s \in Subs : QueueSize[s] \in Nat \ {0}
  /\ \A w \in Workers : SubOf[w] \in Subs
  /\ \A t \in Topics : Audience[t] \subseteq Subs
  BY BusAssumption, FS_CardinalityType DEF PillsOwed

-----------------------------------------------------------------------------
(* Types.                                                                  *)

LEMMA InitBus == Init => BusInv
<1> SUFFICES ASSUME Init PROVE BusInv
  OBVIOUS
<1>1. TypeOK
  BY ConstantsFit DEF Init, TypeOK
<1>2. HoldersFit /\ PoolFits /\ NewHasNoWorker
  BY DEF Init, HoldersFit, PoolFits, NewHasNoWorker
<1>3. OpenHasNoPill /\ PillsLast /\ DrainedBeforeStop
  BY DEF Init, OpenHasNoPill, PillsLast, DrainedBeforeStop
<1> QED BY <1>1, <1>2, <1>3 DEF BusInv

(* A queue of events has larger numbers after an emit. *)
LEMMA MoreNumbers ==
  ASSUME NEW q \in Seq(0..emitted), emitted \in Nat
  PROVE  q \in Seq(0..emitted + 1)
  OBVIOUS

(* emit() in terms of single queues. *)
LEMMA EmitQueues ==
  ASSUME TypeOK, NEW t \in Topics, Emit(t), NEW s \in Subs
  PROVE  \/ /\ s \in Audience[t] /\ Fits(s)
            /\ queue'[s] = Append(queue[s], emitted + 1)
            /\ queue'[s] \in Seq(0..emitted + 1) /\ Len(queue'[s]) = Len(queue[s]) + 1
            /\ \A i \in 1..Len(queue[s]) : queue'[s][i] = queue[s][i]
            /\ queue'[s][Len(queue[s]) + 1] = emitted + 1
         \/ /\ ~(s \in Audience[t] /\ Fits(s))
            /\ queue'[s] = queue[s] /\ queue'[s] \in Seq(0..emitted + 1)
<1>1. queue[s] \in Seq(0..emitted) /\ emitted \in Nat /\ Len(queue[s]) \in Nat
  BY ConstantsFit DEF TypeOK
<1>2. queue[s] \in Seq(0..emitted + 1)
  BY <1>1, MoreNumbers
<1>3. queue'[s] = IF s \in Audience[t] /\ Fits(s)
                  THEN Append(queue[s], emitted + 1) ELSE queue[s]
  BY DEF Emit
<1>4. emitted + 1 \in 0..emitted + 1
  BY <1>1
<1> DEFINE q == Append(queue[s], emitted + 1)
<1>5. /\ q \in Seq(0..emitted + 1) /\ Len(q) = Len(queue[s]) + 1
      /\ \A i \in 1..Len(queue[s]) : q[i] = queue[s][i]
      /\ q[Len(queue[s]) + 1] = emitted + 1
  BY <1>2, <1>4, AppendElements
<1> HIDE DEF q
<1>6. CASE s \in Audience[t] /\ Fits(s)
  BY <1>3, <1>5, <1>6 DEF q
<1>7. CASE ~(s \in Audience[t] /\ Fits(s))
  BY <1>2, <1>3, <1>7
<1> QED BY <1>6, <1>7

LEMMA EmitKeepsType ==
  ASSUME TypeOK, NEW t \in Topics, Emit(t)
  PROVE  TypeOK'
<1>1. emitted' = emitted + 1 /\ emitted' \in 0..MaxEvents
  BY ConstantsFit DEF Emit, TypeOK
<1>2. queue' \in [Subs -> Seq(0..emitted')]
  <2>1. queue' = [s \in Subs |-> queue'[s]]
    BY DEF Emit
  <2>2. \A s \in Subs : queue'[s] \in Seq(0..emitted')
    BY <1>1, EmitQueues
  <2> QED BY <2>1, <2>2
<1>3. \A s \in Subs : Len(queue'[s]) <= QueueSize[s]
  <2> TAKE s \in Subs
  <2>1. Len(queue[s]) \in Nat /\ QueueSize[s] \in Nat /\ Len(queue[s]) <= QueueSize[s]
    BY ConstantsFit DEF TypeOK
  <2> QED BY <2>1, EmitQueues DEF Fits
<1>4. /\ Cardinality(Audience[t]) \in Nat
      /\ Cardinality({s \in Audience[t] : ~Fits(s)}) \in Nat
  <2>1. Audience[t] \subseteq Subs /\ {s \in Audience[t] : ~Fits(s)} \subseteq Subs
    BY ConstantsFit
  <2> QED BY <2>1, SubsFinite, FS_Subset, FS_CardinalityType
<1>5. due' \in Nat /\ dropped' \in Nat
  BY <1>4 DEF Emit, TypeOK
<1>6. held' \in [Workers -> 0..emitted'] /\ closeMark' \in 0..emitted'
  BY <1>1, ConstantsFit DEF Emit, TypeOK, busVars
<1> QED BY <1>1, <1>2, <1>3, <1>5, <1>6
        DEF Emit, TypeOK, busVars, handlerVars

(* A worker takes the head of its queue. *)
LEMMA HeadTaken ==
  ASSUME TypeOK, NEW w \in Workers, queue[SubOf[w]] # <<>>,
         queue' = [queue EXCEPT ![SubOf[w]] = Tail(@)]
  PROVE  LET s == SubOf[w]
             q == queue[SubOf[w]] IN
         /\ s \in Subs /\ q \in Seq(0..emitted) /\ Len(q) \in Nat
         /\ queue' \in [Subs -> Seq(0..emitted)]
         /\ Head(q) = q[1] /\ 1 \in 1..Len(q) /\ Head(q) \in 0..emitted
         /\ queue'[s] = Tail(q) /\ Len(queue'[s]) = Len(q) - 1
         /\ \A i \in 1..Len(q) - 1 : i + 1 \in 1..Len(q) /\ queue'[s][i] = q[i + 1]
         /\ \A r \in Subs : r # s => queue'[r] = queue[r]
<1> DEFINE s == SubOf[w]
           q == queue[s]
<1>1. s \in Subs /\ q \in Seq(0..emitted)
  BY ConstantsFit DEF TypeOK
<1>2. /\ Tail(q) \in Seq(0..emitted) /\ Len(Tail(q)) = Len(q) - 1
      /\ Head(q) = q[1] /\ 1 \in 1..Len(q)
      /\ \A i \in 1..Len(Tail(q)) : i + 1 \in 1..Len(q) /\ Tail(q)[i] = q[i + 1]
  BY <1>1, TailElements
<1>3. /\ queue' \in [Subs -> Seq(0..emitted)]
      /\ queue'[s] = Tail(q) /\ \A r \in Subs : r # s => queue'[r] = queue[r]
  BY <1>1, <1>2 DEF TypeOK
<1>4. q[1] \in 0..emitted /\ Len(q) \in Nat
  BY <1>1, HeadElement
<1> QED BY <1>1, <1>2, <1>3, <1>4

LEMMA TailsFit ==
  ASSUME TypeOK, NEW w \in Workers, queue[SubOf[w]] # <<>>,
         queue' = [queue EXCEPT ![SubOf[w]] = Tail(@)]
  PROVE  \A r \in Subs : Len(queue'[r]) <= QueueSize[r]
<1> TAKE r \in Subs
<1>1. Len(queue[r]) \in Nat /\ Len(queue[r]) <= QueueSize[r] /\ QueueSize[r] \in Nat
  BY ConstantsFit DEF TypeOK
<1>2. CASE r = SubOf[w]
  BY <1>1, <1>2, HeadTaken
<1>3. CASE r # SubOf[w]
  BY <1>1, <1>3, HeadTaken
<1> QED BY <1>2, <1>3

LEMMA PillPut ==
  ASSUME TypeOK, PutPill
  PROVE  /\ NextPill \in Subs =>
              /\ queue'[NextPill] = Append(queue[NextPill], Pill)
              /\ Len(queue'[NextPill]) = Len(queue[NextPill]) + 1
              /\ \A i \in 1..Len(queue[NextPill]) : queue'[NextPill][i] = queue[NextPill][i]
              /\ queue'[NextPill][Len(queue[NextPill]) + 1] = Pill
         /\ \A s \in Subs : s # NextPill => queue'[s] = queue[s]
         /\ queue' \in [Subs -> Seq(0..emitted)]
         /\ \A s \in Subs : Len(queue'[s]) <= QueueSize[s]
<1> DEFINE p == NextPill
<1>1. queue' = [queue EXCEPT ![p] = Append(@, Pill)] /\ Fits(p)
  BY DEF PutPill, WithPill
<1>2. queue \in [Subs -> Seq(0..emitted)] /\ 0 \in 0..emitted
  BY ConstantsFit DEF TypeOK
<1> HIDE DEF p
<1>3. \A s \in Subs : s # p => queue'[s] = queue[s]
  BY <1>1, <1>2
<1>4. CASE p \notin Subs
  <2>1. queue' = queue
    BY <1>1, <1>2, <1>4
  <2> QED BY <2>1, <1>2, <1>3, <1>4 DEF TypeOK, p
<1>5. CASE p \in Subs
  <2>1. queue'[p] = Append(queue[p], Pill) /\ queue[p] \in Seq(0..emitted)
    BY <1>1, <1>2, <1>5
  <2>2. /\ queue'[p] \in Seq(0..emitted) /\ Len(queue'[p]) = Len(queue[p]) + 1
        /\ \A i \in 1..Len(queue[p]) : queue'[p][i] = queue[p][i]
        /\ queue'[p][Len(queue[p]) + 1] = Pill
    BY <1>2, <2>1, AppendElements
  <2>3. Len(queue'[p]) <= QueueSize[p]
    BY <1>1, <1>5, <2>1, <2>2, ConstantsFit DEF Fits
  <2>4. queue' \in [Subs -> Seq(0..emitted)]
    BY <1>1, <1>2, <1>5, <2>1, <2>2
  <2>5. \A s \in Subs : Len(queue'[s]) <= QueueSize[s]
    BY <1>3, <2>3 DEF TypeOK
  <2> QED BY <1>3, <1>5, <2>1, <2>2, <2>4, <2>5 DEF p
<1> QED BY <1>4, <1>5
-----------------------------------------------------------------------------
(* One lemma per action: types, holders, the pool and the pills.           *)

LEMMA EmitKeepsBus ==
  ASSUME BusInv, NEW t \in Topics, Emit(t)
  PROVE  BusInv'
<1>1. TypeOK /\ TypeOK'
  BY EmitKeepsType DEF BusInv
<1>2. HoldersFit' /\ PoolFits' /\ NewHasNoWorker'
  BY DEF Emit, BusInv, HoldersFit, PoolFits, NewHasNoWorker, busVars
<1>3. emitted \in Nat /\ closeMark \in 0..emitted
  BY <1>1, ConstantsFit DEF TypeOK
<1>4. \A s \in Subs : Len(queue[s]) \in Nat
  BY <1>1 DEF TypeOK
<1>5. phase' = phase /\ closeMark' = closeMark /\ pc' = pc
  BY DEF Emit, busVars
<1>6. \A s \in Subs : \A i \in 1..Len(queue'[s]) :
        \/ i \in 1..Len(queue[s]) /\ queue'[s][i] = queue[s][i]
        \/ /\ i = Len(queue[s]) + 1
           /\ queue'[s][i] = emitted + 1 /\ queue'[s][i] > closeMark /\ queue'[s][i] # Pill
  BY <1>1, <1>3, <1>4, EmitQueues
<1>7. OpenHasNoPill'
  BY <1>5, <1>6 DEF BusInv, OpenHasNoPill
<1>8. PillsLast'
  BY <1>4, <1>5, <1>6 DEF BusInv, PillsLast
<1>9. DrainedBeforeStop'
  BY <1>5, <1>6, ConstantsFit DEF BusInv, DrainedBeforeStop, Waiting
<1> QED BY <1>1, <1>2, <1>7, <1>8, <1>9 DEF BusInv

LEMMA PutPillKeepsBus ==
  ASSUME BusInv, PutPill
  PROVE  BusInv'
<1>1. TypeOK
  BY DEF BusInv
<1>2. TypeOK'
  BY <1>1, PillPut, ConstantsFit DEF PutPill, TypeOK, emitVars, handlerVars
<1>3. HoldersFit' /\ PoolFits' /\ NewHasNoWorker'
  BY DEF PutPill, BusInv, HoldersFit, PoolFits, NewHasNoWorker
<1>4. \A s \in Subs : Len(queue[s]) \in Nat
  BY <1>1 DEF TypeOK
<1>5. phase = "closing" /\ phase' = phase /\ closeMark' = closeMark /\ pc' = pc
  BY DEF PutPill
<1>6. \A s \in Subs : \A i \in 1..Len(queue'[s]) :
        \/ i \in 1..Len(queue[s]) /\ queue'[s][i] = queue[s][i]
        \/ i = Len(queue[s]) + 1 /\ queue'[s][i] = Pill
  BY <1>1, <1>4, PillPut
<1>7. OpenHasNoPill'
  BY <1>5 DEF OpenHasNoPill
<1>8. PillsLast'
  BY <1>4, <1>5, <1>6 DEF BusInv, PillsLast
<1>9. DrainedBeforeStop'
  BY <1>5, <1>6, ConstantsFit DEF BusInv, DrainedBeforeStop, Waiting
<1> QED BY <1>2, <1>3, <1>7, <1>8, <1>9 DEF BusInv

(* A worker that takes what is first in its queue keeps the order. *)
LEMMA HeadTakenKeepsPills ==
  ASSUME BusInv, NEW w \in Workers, queue[SubOf[w]] # <<>>,
         queue' = [queue EXCEPT ![SubOf[w]] = Tail(@)],
         UNCHANGED <<phase, closeMark>>,
         \A v \in Workers \ {w} : pc'[v] = pc[v],
         pc'[w] = "stopped" => Head(queue[SubOf[w]]) = Pill
  PROVE  OpenHasNoPill' /\ PillsLast' /\ DrainedBeforeStop'
<1> DEFINE s == SubOf[w]
<1>1. /\ s \in Subs /\ Len(queue[s]) \in Nat
      /\ Head(queue[s]) = queue[s][1] /\ 1 \in 1..Len(queue[s])
      /\ Len(queue'[s]) = Len(queue[s]) - 1
      /\ \A i \in 1..Len(queue[s]) - 1 :
           i + 1 \in 1..Len(queue[s]) /\ queue'[s][i] = queue[s][i + 1]
      /\ \A r \in Subs : r # s => queue'[r] = queue[r]
  BY HeadTaken DEF BusInv
<1> HIDE DEF s
<1>2. \A r \in Subs : \A i \in 1..Len(queue'[r]) :
        \E j \in 1..Len(queue[r]) : j = (IF r = s THEN i + 1 ELSE i)
                                    /\ queue'[r][i] = queue[r][j]
  BY <1>1
<1>3. OpenHasNoPill'
  <2>1. \A v \in Workers : phase \in {"new", "started"} => pc'[v] # "stopped"
    BY <1>1 DEF BusInv, OpenHasNoPill, s
  <2> QED BY <1>2, <2>1 DEF BusInv, OpenHasNoPill
<1>4. PillsLast'
  <2> SUFFICES ASSUME NEW r \in Subs, NEW i \in 1..Len(queue'[r]),
                      NEW j \in 1..Len(queue'[r]),
                      i < j, queue'[r][i] = Pill, queue'[r][j] # Pill
               PROVE  queue'[r][j] > closeMark
    BY DEF PillsLast
  <2>1. CASE r # s
    BY <1>1, <2>1 DEF BusInv, PillsLast
  <2>2. CASE r = s
    <3>1. /\ i + 1 \in 1..Len(queue[s]) /\ j + 1 \in 1..Len(queue[s]) /\ i + 1 < j + 1
          /\ queue'[s][i] = queue[s][i + 1] /\ queue'[s][j] = queue[s][j + 1]
      BY <1>1, <2>2
    <3> QED BY <1>1, <2>2, <3>1 DEF BusInv, PillsLast
  <2> QED BY <2>1, <2>2
<1>5. DrainedBeforeStop'
  <2> SUFFICES ASSUME NEW v \in Workers, pc'[v] = "stopped",
                      NEW i \in 1..Len(queue'[SubOf[v]]), queue'[SubOf[v]][i] # Pill
               PROVE  queue'[SubOf[v]][i] > closeMark
    BY DEF DrainedBeforeStop, Waiting
  <2>1. PICK j \in 1..Len(queue[SubOf[v]]) :
          /\ j = (IF SubOf[v] = s THEN i + 1 ELSE i)
          /\ queue'[SubOf[v]][i] = queue[SubOf[v]][j]
    BY <1>2, ConstantsFit
  <2>2. CASE v # w
    BY <2>1, <2>2 DEF BusInv, DrainedBeforeStop, Waiting
  <2>3. CASE v = w
    <3>1. queue[s][1] = Pill /\ 1 < j /\ SubOf[v] = s
      BY <1>1, <2>1, <2>3 DEF s
    <3> QED BY <1>1, <2>1, <3>1 DEF BusInv, PillsLast
  <2> QED BY <2>2, <2>3
<1> QED BY <1>3, <1>4, <1>5

LEMMA TakeKeepsBus ==
  ASSUME BusInv, NEW w \in Workers, Take(w)
  PROVE  BusInv'
<1> DEFINE s == SubOf[w]
           e == Head(queue[s])
<1>1. /\ TypeOK /\ pc[w] = "idle" /\ queue[s] # <<>> /\ e # Pill
      /\ queue' = [queue EXCEPT ![s] = Tail(@)]
      /\ held' = [held EXCEPT ![w] = e]
      /\ UNCHANGED <<phase, pills, closeMark, emitted, due, dropped, delivered, errors>>
  BY DEF BusInv, Take, busVars, emitVars, handlerVars
<1>2. queue' \in [Subs -> Seq(0..emitted)] /\ e \in 0..emitted
  BY <1>1, HeadTaken
<1>3. \A r \in Subs : Len(queue'[r]) <= QueueSize[r]
  BY <1>1, TailsFit
<1> HIDE DEF e
<1>4. \/ /\ pc' = [pc EXCEPT ![w] = "pooled"] /\ pool' = Append(pool, w)
      \/ pc' = [pc EXCEPT ![w] = "handling"] /\ pool' = pool
  BY DEF Take
<1>5. /\ pool \in Seq(Workers) /\ Len(pool) \in Nat
      /\ pc \in [Workers -> {"none", "idle", "pooled", "handling", "stopped", "dead"}]
      /\ held \in [Workers -> 0..emitted]
  BY <1>1 DEF TypeOK
<1>6. \A i \in 1..Len(pool) : pool[i] # w /\ pool[i] \in Workers
  BY <1>1, <1>5 DEF BusInv, PoolFits
<1>7. /\ Append(pool, w) \in Seq(Workers) /\ Len(Append(pool, w)) = Len(pool) + 1
      /\ \A i \in 1..Len(pool) : Append(pool, w)[i] = pool[i]
      /\ Append(pool, w)[Len(pool) + 1] = w
      /\ \A i \in 1..Len(pool) + 1 : i \in 1..Len(pool) \/ i = Len(pool) + 1
  BY <1>5, AppendElements
<1>8. TypeOK'
  <2>1. pc' \in [Workers -> {"none", "idle", "pooled", "handling", "stopped", "dead"}]
    BY <1>4, <1>5
  <2>2. held' \in [Workers -> 0..emitted]
    BY <1>1, <1>2, <1>5
  <2>3. pool' \in Seq(Workers)
    BY <1>4, <1>5, <1>7
  <2> QED BY <1>1, <1>2, <1>3, <2>1, <2>2, <2>3 DEF TypeOK
<1>9. HoldersFit'
  BY <1>1, <1>4, <1>5 DEF BusInv, HoldersFit
<1>10. PoolFits'
  <2>1. CASE pool' = Append(pool, w) /\ pc' = [pc EXCEPT ![w] = "pooled"]
    <3>1. \A i \in 1..Len(pool') : pc'[pool'[i]] = "pooled"
      BY <2>1, <1>5, <1>6, <1>7 DEF BusInv, PoolFits
    <3>2. \A i, j \in 1..Len(pool') : pool'[i] = pool'[j] => i = j
      BY <2>1, <1>6, <1>7 DEF BusInv, PoolFits
    <3> QED BY <3>1, <3>2 DEF PoolFits
  <2>2. CASE pool' = pool /\ pc' = [pc EXCEPT ![w] = "handling"]
    BY <2>2, <1>5, <1>6 DEF BusInv, PoolFits
  <2> QED BY <2>1, <2>2, <1>4
<1>11. OpenHasNoPill' /\ PillsLast' /\ DrainedBeforeStop'
  BY <1>1, <1>4, <1>5, HeadTakenKeepsPills
<1>12. NewHasNoWorker'
  BY <1>1 DEF BusInv, NewHasNoWorker
<1> QED BY <1>8, <1>9, <1>10, <1>11, <1>12 DEF BusInv

LEMMA TakePillKeepsBus ==
  ASSUME BusInv, NEW w \in Workers, TakePill(w)
  PROVE  BusInv'
<1> DEFINE s == SubOf[w]
<1>1. /\ TypeOK /\ pc[w] = "idle" /\ queue[s] # <<>> /\ Head(queue[s]) = Pill
      /\ queue' = [queue EXCEPT ![s] = Tail(@)]
      /\ pc' = [pc EXCEPT ![w] = "stopped"]
      /\ UNCHANGED <<phase, pills, closeMark, held, pool, emitted, due, dropped,
                     delivered, errors>>
  BY DEF BusInv, TakePill, busVars, emitVars, handlerVars
<1>2. /\ queue' \in [Subs -> Seq(0..emitted)]
      /\ \A r \in Subs : Len(queue'[r]) <= QueueSize[r]
  BY <1>1, HeadTaken, TailsFit
<1>3. TypeOK'
  BY <1>1, <1>2 DEF TypeOK
<1>4. pc \in [Workers -> {"none", "idle", "pooled", "handling", "stopped", "dead"}]
  BY <1>1 DEF TypeOK
<1>5. HoldersFit' /\ PoolFits'
  <2> pool \in Seq(Workers)
    BY <1>1 DEF TypeOK
  <2>1. \A i \in 1..Len(pool) : pool[i] # w /\ pool[i] \in Workers
    BY <1>1 DEF BusInv, PoolFits
  <2> QED BY <1>1, <1>4, <2>1 DEF BusInv, HoldersFit, PoolFits
<1>6. OpenHasNoPill' /\ PillsLast' /\ DrainedBeforeStop'
  BY <1>1, <1>4, HeadTakenKeepsPills
<1>7. NewHasNoWorker'
  BY <1>1 DEF BusInv, NewHasNoWorker
<1> QED BY <1>3, <1>5, <1>6, <1>7 DEF BusInv

LEMMA RunInThreadKeepsBus ==
  ASSUME BusInv, NEW w \in Workers, RunInThread(w)
  PROVE  BusInv'
<1>1. /\ TypeOK /\ pool # <<>> /\ Head(pool) = w /\ pool' = Tail(pool)
      /\ pc' = [pc EXCEPT ![w] = "handling"]
      /\ UNCHANGED <<phase, pills, closeMark, queue, held, emitted, due, dropped,
                     delivered, errors>>
  BY DEF BusInv, RunInThread, busVars, emitVars, handlerVars
<1>2. pool \in Seq(Workers)
      /\ pc \in [Workers -> {"none", "idle", "pooled", "handling", "stopped", "dead"}]
  BY <1>1 DEF TypeOK
<1>3. /\ Tail(pool) \in Seq(Workers) /\ Len(Tail(pool)) = Len(pool) - 1
      /\ Head(pool) = pool[1] /\ 1 \in 1..Len(pool)
      /\ \A i \in 1..Len(Tail(pool)) :
           i + 1 \in 1..Len(pool) /\ Tail(pool)[i] = pool[i + 1]
  BY <1>1, <1>2, TailElements
<1>4. TypeOK'
  BY <1>1, <1>2, <1>3 DEF TypeOK
<1>5. pc[w] = "pooled"
  BY <1>1, <1>3 DEF BusInv, PoolFits
<1>6. HoldersFit'
  BY <1>1, <1>2, <1>5 DEF BusInv, HoldersFit
<1>7. \A i \in 1..Len(Tail(pool)) : pool[i + 1] # w /\ pool[i + 1] \in Workers
  BY <1>1, <1>2, <1>3 DEF BusInv, PoolFits
<1>8. \A i \in 1..Len(pool') : pc'[pool'[i]] = "pooled"
  BY <1>1, <1>2, <1>3, <1>7 DEF BusInv, PoolFits
<1>9. \A i, j \in 1..Len(pool') : pool'[i] = pool'[j] => i = j
  <2> TAKE i \in 1..Len(pool'), j \in 1..Len(pool')
  <2>1. pool'[i] = pool[i + 1] /\ pool'[j] = pool[j + 1]
        /\ i + 1 \in 1..Len(pool) /\ j + 1 \in 1..Len(pool)
    BY <1>1, <1>3
  <2>2. pool'[i] = pool'[j] => i + 1 = j + 1
    BY <2>1 DEF BusInv, PoolFits
  <2> QED BY <2>2, <1>1, <1>3
<1>10. OpenHasNoPill' /\ PillsLast'
  BY <1>1, <1>2 DEF BusInv, OpenHasNoPill, PillsLast
<1>11. DrainedBeforeStop'
  BY <1>1, <1>2 DEF BusInv, DrainedBeforeStop, Waiting
<1>12. NewHasNoWorker'
  BY <1>1, <1>3, <1>5 DEF BusInv, NewHasNoWorker, TypeOK
<1> QED BY <1>4, <1>6, <1>8, <1>9, <1>10, <1>11, <1>12 DEF BusInv, PoolFits

LEMMA HandleKeepsBus ==
  ASSUME BusInv, NEW w \in Workers, Handle(w)
  PROVE  BusInv'
<1>1. /\ TypeOK /\ pc[w] = "handling"
      /\ UNCHANGED <<phase, pills, closeMark, queue, pool, emitted, due, dropped>>
      /\ delivered' \in Nat /\ errors' \in Nat
  BY DEF BusInv, TypeOK, Handle, HandlerReturns, HandlerRaises, HandlerCancelled,
         HandlerOver, busVars, emitVars, handlerVars
<1>2. \/ pc' = [pc EXCEPT ![w] = "idle"] /\ held' = [held EXCEPT ![w] = Pill]
      \/ pc' = [pc EXCEPT ![w] = "dead"] /\ held' = held
  BY DEF Handle, HandlerReturns, HandlerRaises, HandlerCancelled, HandlerOver
<1>3. /\ pc \in [Workers -> {"none", "idle", "pooled", "handling", "stopped", "dead"}]
      /\ held \in [Workers -> 0..emitted] /\ 0 \in 0..emitted
  BY <1>1, ConstantsFit DEF TypeOK
<1>4. TypeOK'
  BY <1>1, <1>2, <1>3 DEF TypeOK
<1>5. HoldersFit'
  BY <1>1, <1>2, <1>3 DEF BusInv, HoldersFit
<1>6. PoolFits'
  <2> pool \in Seq(Workers)
    BY <1>1 DEF TypeOK
  <2>1. \A i \in 1..Len(pool) : pool[i] # w /\ pool[i] \in Workers
    BY <1>1 DEF BusInv, PoolFits
  <2> QED BY <1>1, <1>2, <1>3, <2>1 DEF BusInv, PoolFits
<1>7. OpenHasNoPill' /\ PillsLast'
  BY <1>1, <1>2, <1>3 DEF BusInv, OpenHasNoPill, PillsLast
<1>8. DrainedBeforeStop'
  BY <1>1, <1>2, <1>3 DEF BusInv, DrainedBeforeStop, Waiting
<1>9. NewHasNoWorker'
  BY <1>1 DEF BusInv, NewHasNoWorker
<1> QED BY <1>4, <1>5, <1>6, <1>7, <1>8, <1>9 DEF BusInv

LEMMA StartKeepsBus ==
  ASSUME BusInv, Start
  PROVE  BusInv'
<1>1. /\ phase = "new" /\ phase' = "started" /\ pc' = [w \in Workers |-> "idle"]
      /\ UNCHANGED <<pills, closeMark, queue, held, pool, emitted, due, dropped,
                     delivered, errors>>
  BY DEF Start, emitVars, handlerVars
<1>2. TypeOK'
  BY <1>1 DEF BusInv, TypeOK
<1>3. /\ \A w \in Workers : pc[w] = "none" /\ held[w] = Pill
      /\ pool \in Seq(Workers)
  BY <1>1 DEF BusInv, NewHasNoWorker, HoldersFit, TypeOK
<1>4. HoldersFit'
  BY <1>1, <1>3 DEF HoldersFit
<1>5. PoolFits'
  <2>1. 1..Len(pool) = {}
    BY <1>3 DEF BusInv, PoolFits
  <2> QED BY <1>1, <2>1 DEF PoolFits
<1>6. OpenHasNoPill' /\ PillsLast'
  BY <1>1 DEF BusInv, OpenHasNoPill, PillsLast
<1>7. NewHasNoWorker' /\ DrainedBeforeStop'
  BY <1>1 DEF NewHasNoWorker, DrainedBeforeStop
<1> QED BY <1>2, <1>4, <1>5, <1>6, <1>7 DEF BusInv

(* close() begins: no queue has a pill yet. *)
LEMMA CloseBeginKeepsBus ==
  ASSUME BusInv, CloseBegin
  PROVE  BusInv'
<1>1. /\ phase = "started" /\ phase' = "closing" /\ closeMark' = emitted
      /\ UNCHANGED <<pills, queue, pc, held, pool, emitted, due, dropped,
                     delivered, errors>>
  BY DEF CloseBegin, emitVars, handlerVars
<1>2. TypeOK'
  BY <1>1, ConstantsFit DEF BusInv, TypeOK
<1>3. HoldersFit' /\ PoolFits' /\ NewHasNoWorker' /\ OpenHasNoPill'
  BY <1>1 DEF BusInv, HoldersFit, PoolFits, NewHasNoWorker, OpenHasNoPill
<1>4. PillsLast' /\ DrainedBeforeStop'
  BY <1>1 DEF BusInv, OpenHasNoPill, PillsLast, DrainedBeforeStop
<1> QED BY <1>2, <1>3, <1>4 DEF BusInv

LEMMA CloseEndKeepsBus ==
  ASSUME BusInv, phase' \in {phase, "closed"},
         UNCHANGED <<pills, closeMark, queue, pc, held, pool, emitted, due, dropped,
                     delivered, errors>>
  PROVE  BusInv'
<1>1. TypeOK'
  BY DEF BusInv, TypeOK
<1>2. HoldersFit' /\ PoolFits' /\ NewHasNoWorker' /\ OpenHasNoPill'
  BY DEF BusInv, HoldersFit, PoolFits, NewHasNoWorker, OpenHasNoPill
<1>3. PillsLast' /\ DrainedBeforeStop'
  BY DEF BusInv, PillsLast, DrainedBeforeStop, Waiting
<1> QED BY <1>1, <1>2, <1>3 DEF BusInv

LEMMA NextKeepsBus == BusInv /\ [Next]_vars => BusInv'
<1> SUFFICES ASSUME BusInv, [Next]_vars PROVE BusInv'
  OBVIOUS
<1>1. CASE Start
  BY <1>1, StartKeepsBus
<1>2. CASE CloseBegin
  BY <1>2, CloseBeginKeepsBus
<1>3. CASE PutPill
  BY <1>3, PutPillKeepsBus
<1>4. CASE CloseEnd
  BY <1>4, CloseEndKeepsBus DEF CloseEnd, emitVars, handlerVars
<1>5. ASSUME NEW t \in Topics, Emit(t) PROVE BusInv'
  BY <1>5, EmitKeepsBus
<1>6. ASSUME NEW w \in Workers, Take(w) PROVE BusInv'
  BY <1>6, TakeKeepsBus
<1>7. ASSUME NEW w \in Workers, TakePill(w) PROVE BusInv'
  BY <1>7, TakePillKeepsBus
<1>8. ASSUME NEW w \in Workers, RunInThread(w) PROVE BusInv'
  BY <1>8, RunInThreadKeepsBus
<1>9. ASSUME NEW w \in Workers, Handle(w) PROVE BusInv'
  BY <1>9, HandleKeepsBus
<1>10. CASE UNCHANGED vars
  BY <1>10, CloseEndKeepsBus DEF vars
<1> QED BY <1>1, <1>2, <1>3, <1>4, <1>5, <1>6, <1>7, <1>8, <1>9, <1>10 DEF Next

LEMMA BusInvariant == Spec => []BusInv
  BY InitBus, NextKeepsBus, PTL DEF Spec

(* The types, and no queue exceeds its queue_size. *)
THEOREM TypeCorrect == Spec => []TypeOK
<1>1. BusInv => TypeOK
  BY DEF BusInv
<1> QED BY <1>1, BusInvariant, PTL

(***************************************************************************)
(* close() drains: nothing emitted before it began is left behind a pill   *)
(* (PillsLast), so a worker that takes one leaves only later events.       *)
(***************************************************************************)
THEOREM AlwaysDrained == Spec => []DrainedBeforeStop
<1>1. BusInv => DrainedBeforeStop
  BY DEF BusInv
<1> QED BY <1>1, BusInvariant, PTL

-----------------------------------------------------------------------------
(* Deliveries are accounted for.                                           *)

LEMMA WaitingMembers ==
  \A x : x \in AllWaiting <=>
        \E s \in Subs : \E i \in 1..Len(queue[s]) : x = <<s, i>> /\ queue[s][i] # Pill
  BY DEF AllWaiting, Waiting

LEMMA WaitingMembersNext ==
  \A x : x \in AllWaiting' <=>
        \E s \in Subs : \E i \in 1..Len(queue'[s]) : x = <<s, i>> /\ queue'[s][i] # Pill
  BY DEF AllWaiting, Waiting

(* Those behind the head move up: the positions are renumbered one to one. *)
LEMMA HeadTakenCounts ==
  ASSUME TypeOK, IsFiniteSet(AllWaiting), NEW w \in Workers,
         queue[SubOf[w]] # <<>>, queue' = [queue EXCEPT ![SubOf[w]] = Tail(@)]
  PROVE  /\ IsFiniteSet(AllWaiting')
         /\ Cardinality(AllWaiting) = Cardinality(AllWaiting')
              + (IF Head(queue[SubOf[w]]) = Pill THEN 0 ELSE 1)
         /\ Cardinality(AllWaiting') \in Nat
<1> DEFINE s == SubOf[w]
           R == AllWaiting \ {<<s, 1>>}
           f == [x \in R |-> IF x[1] = s THEN <<s, x[2] - 1>> ELSE x]
<1>1. /\ s \in Subs /\ Len(queue[s]) \in Nat
      /\ Head(queue[s]) = queue[s][1] /\ 1 \in 1..Len(queue[s])
      /\ Len(queue'[s]) = Len(queue[s]) - 1
      /\ \A i \in 1..Len(queue[s]) - 1 :
           i + 1 \in 1..Len(queue[s]) /\ queue'[s][i] = queue[s][i + 1]
      /\ \A r \in Subs : r # s => queue'[r] = queue[r]
  BY HeadTaken
<1>2. IsFiniteSet(R)
      /\ Cardinality(R) = IF <<s, 1>> \in AllWaiting
                          THEN Cardinality(AllWaiting) - 1 ELSE Cardinality(AllWaiting)
  BY FS_RemoveElement
<1>3. <<s, 1>> \in AllWaiting <=> Head(queue[s]) # Pill
  BY <1>1, WaitingMembers
<1>4. \A r, i : <<r, i>> \in R <=>
        /\ r \in Subs /\ i \in 1..Len(queue[r]) /\ queue[r][i] # Pill
        /\ ~(r = s /\ i = 1)
  BY WaitingMembers
<1>5. \A r, i : <<r, i>> \in AllWaiting' <=>
        r \in Subs /\ i \in 1..Len(queue'[r]) /\ queue'[r][i] # Pill
  BY WaitingMembersNext
<1>6. \A x \in R : \E r \in Subs, i \in Nat : x = <<r, i>>
  BY WaitingMembers
<1>7. \A x \in AllWaiting' : \E r \in Subs, i \in Nat : x = <<r, i>>
  BY WaitingMembersNext
<1>8. \A x \in R : f[x] = IF x[1] = s THEN <<s, x[2] - 1>> ELSE x
  OBVIOUS
<1>9. DOMAIN f = R /\ f = [x \in R |-> f[x]]
  OBVIOUS
<1> HIDE DEF s, R, f
<1>10. \A r \in Subs, i \in Nat : <<r, i>> \in R =>
         /\ r = s => f[<<r, i>>] = <<r, i - 1>> /\ i - 1 \in 1..Len(queue'[s])
         /\ r # s => f[<<r, i>>] = <<r, i>>
         /\ f[<<r, i>>] \in AllWaiting'
  <2> TAKE r \in Subs, i \in Nat
  <2> HAVE <<r, i>> \in R
  <2>1. <<r, i>>[1] = r /\ <<r, i>>[2] = i
    OBVIOUS
  <2>2. CASE r = s
    <3>1. f[<<r, i>>] = <<r, i - 1>>
      BY <1>8, <2>1, <2>2
    <3>2. i - 1 \in 1..Len(queue[s]) - 1 /\ i \in 1..Len(queue[s])
      BY <1>1, <1>4, <2>2
    <3>3. queue'[s][i - 1] = queue[s][i] /\ queue[s][i] # Pill
      BY <1>1, <1>4, <2>2, <3>2
    <3> QED BY <1>1, <1>5, <2>2, <3>1, <3>2, <3>3
  <2>3. CASE r # s
    <3>1. f[<<r, i>>] = <<r, i>>
      BY <1>8, <2>1, <2>3
    <3>2. queue'[r] = queue[r]
      BY <1>1, <2>3
    <3>3. <<r, i>> \in AllWaiting'
      BY <1>4, <1>5, <3>2
    <3> QED BY <2>3, <3>1, <3>3
  <2> QED BY <2>2, <2>3
<1>11. f \in [R -> AllWaiting']
  BY <1>6, <1>9, <1>10
<1>12. \A x, y \in R : f[x] = f[y] => x = y
  <2> TAKE x \in R, y \in R
  <2>1. PICK r \in Subs, i \in Nat : x = <<r, i>>
    BY <1>6
  <2>2. PICK q \in Subs, j \in Nat : y = <<q, j>>
    BY <1>6
  <2>3. /\ f[x] = <<r, IF r = s THEN i - 1 ELSE i>>
        /\ f[y] = <<q, IF q = s THEN j - 1 ELSE j>>
    BY <1>10, <2>1, <2>2
  <2> QED BY <2>1, <2>2, <2>3
<1>13. \A y \in AllWaiting' : \E x \in R : f[x] = y
  <2> TAKE y \in AllWaiting'
  <2>1. PICK r \in Subs, i \in Nat : y = <<r, i>>
    BY <1>7
  <2>2. i \in 1..Len(queue'[r]) /\ queue'[r][i] # Pill
    BY <1>5, <2>1
  <2>3. CASE r = s
    <3>1. /\ i + 1 \in 1..Len(queue[s]) /\ queue[s][i + 1] # Pill /\ i + 1 # 1
          /\ i + 1 \in Nat /\ (i + 1) - 1 = i
      BY <1>1, <2>2, <2>3
    <3>2. <<s, i + 1>> \in R
      BY <1>1, <1>4, <3>1
    <3>3. f[<<s, i + 1>>] = <<s, (i + 1) - 1>>
      BY <1>1, <1>10, <3>1, <3>2
    <3> QED BY <2>1, <2>3, <3>1, <3>2, <3>3
  <2>4. CASE r # s
    <3>1. <<r, i>> \in R
      BY <1>1, <1>4, <2>2, <2>4
    <3> QED BY <1>10, <2>1, <2>4, <3>1
  <2> QED BY <2>3, <2>4
<1>14. f \in Bijection(R, AllWaiting')
  BY <1>9, <1>11, <1>12, <1>13 DEF Bijection, Injection, Surjection, IsInjective
<1>15. ExistsBijection(R, AllWaiting')
  BY <1>14 DEF ExistsBijection
<1>16. IsFiniteSet(AllWaiting') /\ Cardinality(AllWaiting') = Cardinality(R)
  BY <1>2, <1>15, FS_Bijection
<1>17. Cardinality(AllWaiting') \in Nat /\ Cardinality(AllWaiting) \in Nat
  BY <1>16, FS_CardinalityType
<1> QED BY <1>2, <1>3, <1>16, <1>17 DEF s

(* emit() adds one position to every queue that takes the event. *)
LEMMA EmitCounts ==
  ASSUME TypeOK, IsFiniteSet(AllWaiting), NEW t \in Topics, Emit(t)
  PROVE  LET refused == {s \in Audience[t] : ~Fits(s)} IN
         /\ IsFiniteSet(AllWaiting')
         /\ Cardinality(AllWaiting') + Cardinality(refused)
              = Cardinality(AllWaiting) + Cardinality(Audience[t])
<1> DEFINE refused == {s \in Audience[t] : ~Fits(s)}
           taken == {s \in Audience[t] : Fits(s)}
           new == {<<s, Len(queue[s]) + 1>> : s \in taken}
           f == [s \in taken |-> <<s, Len(queue[s]) + 1>>]
<1>1. \A s \in Subs : Len(queue[s]) \in Nat
  BY DEF TypeOK
<1>2. emitted + 1 # Pill
  BY ConstantsFit DEF TypeOK
<1>3. refused \subseteq Subs /\ taken \subseteq Subs
  BY ConstantsFit
<1>4. IsFiniteSet(refused) /\ IsFiniteSet(taken)
  BY <1>3, SubsFinite, FS_Subset
<1>5. f \in Bijection(taken, new)
  BY DEF Bijection, Injection, Surjection, IsInjective
<1>6. IsFiniteSet(new) /\ Cardinality(new) = Cardinality(taken)
  BY <1>4, <1>5, FS_Bijection DEF ExistsBijection
<1>7. Cardinality(Audience[t]) = Cardinality(taken) + Cardinality(refused)
  <2>1. Audience[t] = taken \cup refused /\ taken \cap refused = {}
    OBVIOUS
  <2>2. /\ Cardinality(taken \cup refused)
            = Cardinality(taken) + Cardinality(refused) - Cardinality(taken \cap refused)
        /\ Cardinality(taken \cap refused) = 0
    BY <1>4, <2>1, FS_Union, FS_EmptySet
  <2>3. Cardinality(taken) \in Nat /\ Cardinality(refused) \in Nat
    BY <1>4, FS_CardinalityType
  <2>4. Cardinality(Audience[t]) = Cardinality(taken \cup refused)
    BY <2>1
  <2> HIDE DEF taken, refused
  <2> QED BY <2>2, <2>3, <2>4
<1> HIDE DEF f
<1>8. AllWaiting' = AllWaiting \cup new
  <2>1. ASSUME NEW x \in AllWaiting' PROVE x \in AllWaiting \cup new
    <3> PICK s \in Subs : \E i \in 1..Len(queue'[s]) : x = <<s, i>> /\ queue'[s][i] # Pill
      BY <2>1, WaitingMembersNext
    <3>1. PICK i \in 1..Len(queue'[s]) : x = <<s, i>> /\ queue'[s][i] # Pill
      OBVIOUS
    <3>2. CASE i \in 1..Len(queue[s]) /\ queue'[s][i] = queue[s][i]
      BY <3>1, <3>2, WaitingMembers
    <3>3. CASE i = Len(queue[s]) + 1 /\ s \in taken
      BY <3>1, <3>3
    <3> QED BY <1>1, <3>1, <3>2, <3>3, EmitQueues
  <2>2. ASSUME NEW x \in AllWaiting PROVE x \in AllWaiting'
    <3> PICK s \in Subs : \E i \in 1..Len(queue[s]) : x = <<s, i>> /\ queue[s][i] # Pill
      BY <2>2, WaitingMembers
    <3>1. PICK i \in 1..Len(queue[s]) : x = <<s, i>> /\ queue[s][i] # Pill
      OBVIOUS
    <3>2. i \in 1..Len(queue'[s]) /\ queue'[s][i] = queue[s][i]
      BY <1>1, <3>1, EmitQueues
    <3> QED BY <3>1, <3>2, WaitingMembersNext
  <2>3. ASSUME NEW s \in taken PROVE <<s, Len(queue[s]) + 1>> \in AllWaiting'
    <3>1. /\ s \in Subs /\ Len(queue'[s]) = Len(queue[s]) + 1
          /\ queue'[s][Len(queue[s]) + 1] = emitted + 1
      BY <1>3, <2>3, EmitQueues
    <3>2. Len(queue[s]) + 1 \in 1..Len(queue'[s])
      BY <1>1, <3>1
    <3> QED BY <1>2, <3>1, <3>2, WaitingMembersNext
  <2> QED BY <2>1, <2>2, <2>3
<1>9. AllWaiting \cap new = {}
  BY <1>1, <1>3, WaitingMembers
<1> HIDE DEF new, taken, refused
<1>10. /\ IsFiniteSet(AllWaiting')
       /\ Cardinality(AllWaiting') = Cardinality(AllWaiting) + Cardinality(new) - 0
  BY <1>6, <1>8, <1>9, FS_Union, FS_EmptySet
<1>11. /\ Cardinality(AllWaiting) \in Nat /\ Cardinality(new) \in Nat
       /\ Cardinality(refused) \in Nat /\ Cardinality(taken) \in Nat
  BY <1>4, <1>6, FS_CardinalityType
<1>12. Cardinality(AllWaiting') + Cardinality(refused)
         = Cardinality(AllWaiting) + Cardinality(Audience[t])
  BY <1>6, <1>7, <1>10, <1>11
<1> QED BY <1>10, <1>12 DEF refused

(* A pill is no delivery. *)
LEMMA PillCounts ==
  ASSUME TypeOK, PutPill
  PROVE  AllWaiting' = AllWaiting
<1>1. \A s \in Subs : Len(queue[s]) \in Nat
  BY DEF TypeOK
<1>2. \A s \in Subs : \A i \in 1..Len(queue'[s]) : queue'[s][i] # Pill
        => i \in 1..Len(queue[s]) /\ queue'[s][i] = queue[s][i]
  BY <1>1, PillPut
<1>3. \A s \in Subs : \A i \in 1..Len(queue[s]) :
        i \in 1..Len(queue'[s]) /\ queue'[s][i] = queue[s][i]
  BY <1>1, PillPut
<1>4. \A x : x \in AllWaiting' <=> x \in AllWaiting
  BY <1>2, <1>3, WaitingMembers, WaitingMembersNext
<1> QED BY <1>4

LEMMA HoldersFinite ==
  IsFiniteSet(Holders) /\ Cardinality(Holders) \in Nat
<1>1. Holders \subseteq Workers
  BY DEF Holders
<1> QED BY <1>1, BusAssumption, FS_Subset, FS_CardinalityType

LEMMA InitCount == Init => CountInv
<1> SUFFICES ASSUME Init PROVE CountInv
  OBVIOUS
<1>1. AllWaiting = {} /\ Holders = {}
  BY DEF Init, AllWaiting, Waiting, Holders
<1>2. due = 0 /\ dropped = 0 /\ delivered = 0 /\ errors = 0
  BY DEF Init
<1> QED BY <1>1, <1>2, FS_EmptySet DEF CountInv, DeliveriesAccounted

(* The count when what waits and who holds an event stay the same. *)
LEMMA SameCount ==
  ASSUME CountInv, AllWaiting' = AllWaiting, Holders' = Holders,
         UNCHANGED <<due, dropped, delivered, errors>>
  PROVE  CountInv'
  BY DEF CountInv, DeliveriesAccounted

LEMMA EmitKeepsCount ==
  ASSUME TypeOK, CountInv, NEW t \in Topics, Emit(t)
  PROVE  CountInv'
<1> DEFINE refused == {s \in Audience[t] : ~Fits(s)}
<1>1. /\ IsFiniteSet(AllWaiting')
      /\ Cardinality(AllWaiting') + Cardinality(refused)
           = Cardinality(AllWaiting) + Cardinality(Audience[t])
  BY EmitCounts DEF CountInv
<1>2. /\ Cardinality(AllWaiting) \in Nat /\ Cardinality(AllWaiting') \in Nat
      /\ Cardinality(Audience[t]) \in Nat /\ Cardinality(refused) \in Nat
  <2>1. Audience[t] \subseteq Subs /\ refused \subseteq Subs
    BY ConstantsFit
  <2> QED BY <1>1, <2>1, SubsFinite, FS_Subset, FS_CardinalityType DEF CountInv
<1>3. /\ due' = due + Cardinality(Audience[t])
      /\ dropped' = dropped + Cardinality(refused)
      /\ delivered' = delivered /\ errors' = errors /\ held' = held
  BY DEF Emit, handlerVars
<1> HIDE DEF refused
<1>4. Holders' = Holders /\ Cardinality(Holders) \in Nat
  BY <1>3, HoldersFinite DEF Holders
<1>5. due \in Nat /\ dropped \in Nat /\ delivered \in Nat /\ errors \in Nat
  BY DEF TypeOK
<1>6. due = dropped + delivered + errors + Cardinality(Holders)
              + Cardinality(AllWaiting)
  BY DEF CountInv, DeliveriesAccounted
<1>7. due' = dropped' + delivered' + errors' + Cardinality(Holders)
               + Cardinality(AllWaiting')
  BY <1>1, <1>2, <1>3, <1>4, <1>5, <1>6
<1> QED BY <1>1, <1>4, <1>7 DEF CountInv, DeliveriesAccounted

LEMMA TakeKeepsCount ==
  ASSUME BusInv, CountInv, NEW w \in Workers, Take(w)
  PROVE  CountInv'
<1>1. /\ TypeOK /\ pc[w] = "idle" /\ queue[SubOf[w]] # <<>>
      /\ Head(queue[SubOf[w]]) # Pill
      /\ queue' = [queue EXCEPT ![SubOf[w]] = Tail(@)]
      /\ held' = [held EXCEPT ![w] = Head(queue[SubOf[w]])]
      /\ UNCHANGED <<due, dropped, delivered, errors>>
  BY DEF BusInv, Take, emitVars, handlerVars
<1>2. /\ IsFiniteSet(AllWaiting') /\ Cardinality(AllWaiting') \in Nat
      /\ Cardinality(AllWaiting) = Cardinality(AllWaiting') + 1
  BY <1>1, HeadTakenCounts DEF CountInv
<1>3. w \notin Holders /\ Holders' = Holders \cup {w}
  <2>1. held[w] = Pill /\ held \in [Workers -> 0..emitted]
    BY <1>1 DEF BusInv, HoldersFit, TypeOK
  <2> QED BY <1>1, <2>1 DEF Holders
<1>4. Cardinality(Holders') = Cardinality(Holders) + 1 /\ Cardinality(Holders) \in Nat
  BY <1>3, HoldersFinite, FS_AddElement
<1>5. due \in Nat /\ dropped \in Nat /\ delivered \in Nat /\ errors \in Nat
  BY <1>1 DEF TypeOK
<1>6. due = dropped + delivered + errors + Cardinality(Holders)
              + Cardinality(AllWaiting)
  BY DEF CountInv, DeliveriesAccounted
<1>7. due = dropped + delivered + errors + Cardinality(Holders')
              + Cardinality(AllWaiting')
  BY <1>2, <1>4, <1>5, <1>6
<1> QED BY <1>1, <1>2, <1>7 DEF CountInv, DeliveriesAccounted

LEMMA TakePillKeepsCount ==
  ASSUME BusInv, CountInv, NEW w \in Workers, TakePill(w)
  PROVE  CountInv'
<1>1. /\ TypeOK /\ queue[SubOf[w]] # <<>> /\ Head(queue[SubOf[w]]) = Pill
      /\ queue' = [queue EXCEPT ![SubOf[w]] = Tail(@)]
      /\ UNCHANGED <<held, due, dropped, delivered, errors>>
  BY DEF BusInv, TakePill, emitVars, handlerVars
<1>2. /\ IsFiniteSet(AllWaiting') /\ Cardinality(AllWaiting') \in Nat
      /\ Cardinality(AllWaiting) = Cardinality(AllWaiting') + 0
  BY <1>1, HeadTakenCounts DEF CountInv
<1>3. Holders' = Holders
  BY <1>1 DEF Holders
<1>4. Cardinality(AllWaiting) = Cardinality(AllWaiting')
  BY <1>2
<1> QED BY <1>1, <1>2, <1>3, <1>4 DEF CountInv, DeliveriesAccounted

LEMMA HandleKeepsCount ==
  ASSUME BusInv, CountInv, NEW w \in Workers, Handle(w)
  PROVE  CountInv'
<1>1. TypeOK /\ pc[w] = "handling" /\ UNCHANGED <<queue, due, dropped>>
  BY DEF BusInv, Handle, HandlerReturns, HandlerRaises, HandlerCancelled, HandlerOver,
         emitVars
<1>2. AllWaiting' = AllWaiting
  BY <1>1 DEF AllWaiting, Waiting
<1>3. CASE HandlerCancelled(w)
  <2>1. Holders' = Holders /\ UNCHANGED <<delivered, errors>>
    BY <1>3 DEF HandlerCancelled, Holders, handlerVars
  <2> QED BY <1>1, <1>2, <2>1, SameCount
<1>4. CASE HandlerReturns(w) \/ HandlerRaises(w)
  <2>1. /\ held' = [held EXCEPT ![w] = Pill]
        /\ \/ delivered' = delivered + 1 /\ errors' = errors
           \/ delivered' = delivered /\ errors' = errors + 1
    BY <1>4 DEF HandlerReturns, HandlerRaises
  <2>2. w \in Holders /\ Holders' = Holders \ {w}
    <3>1. held[w] # Pill /\ held \in [Workers -> 0..emitted]
      BY <1>1 DEF BusInv, HoldersFit, TypeOK
    <3> QED BY <2>1, <3>1 DEF Holders
  <2>3. Cardinality(Holders') = Cardinality(Holders) - 1 /\ Cardinality(Holders) \in Nat
    BY <2>2, HoldersFinite, FS_RemoveElement
  <2>4. /\ due \in Nat /\ dropped \in Nat /\ delivered \in Nat /\ errors \in Nat
        /\ Cardinality(AllWaiting) \in Nat
    BY <1>1, FS_CardinalityType DEF TypeOK, CountInv
  <2>5. due = dropped + delivered + errors + Cardinality(Holders)
                + Cardinality(AllWaiting)
    BY DEF CountInv, DeliveriesAccounted
  <2>6. due = dropped + delivered' + errors' + Cardinality(Holders')
                + Cardinality(AllWaiting)
    BY <2>1, <2>3, <2>4, <2>5
  <2> QED BY <1>1, <1>2, <2>6 DEF CountInv, DeliveriesAccounted
<1> QED BY <1>3, <1>4 DEF Handle

LEMMA NextKeepsCount == BusInv /\ CountInv /\ [Next]_vars => CountInv'
<1> SUFFICES ASSUME BusInv, CountInv, [Next]_vars PROVE CountInv'
  OBVIOUS
<1>1. ASSUME UNCHANGED <<queue, held, due, dropped, delivered, errors>>
      PROVE  CountInv'
  <2>1. AllWaiting' = AllWaiting /\ Holders' = Holders
    BY <1>1 DEF AllWaiting, Waiting, Holders
  <2> QED BY <1>1, <2>1, SameCount
<1>2. CASE Start \/ CloseBegin \/ CloseEnd
  BY <1>1, <1>2 DEF Start, CloseBegin, CloseEnd, emitVars, handlerVars
<1>3. CASE PutPill
  <2>1. AllWaiting' = AllWaiting /\ Holders' = Holders
    BY <1>3, PillCounts DEF BusInv, PutPill, Holders
  <2> QED BY <1>3, <2>1, SameCount DEF PutPill, emitVars, handlerVars
<1>4. ASSUME NEW t \in Topics, Emit(t) PROVE CountInv'
  BY <1>4, EmitKeepsCount DEF BusInv
<1>5. ASSUME NEW w \in Workers, Take(w) PROVE CountInv'
  BY <1>5, TakeKeepsCount
<1>6. ASSUME NEW w \in Workers, TakePill(w) PROVE CountInv'
  BY <1>6, TakePillKeepsCount
<1>7. ASSUME NEW w \in Workers, RunInThread(w) PROVE CountInv'
  BY <1>1, <1>7 DEF RunInThread, emitVars, handlerVars
<1>8. ASSUME NEW w \in Workers, Handle(w) PROVE CountInv'
  BY <1>8, HandleKeepsCount
<1>9. CASE UNCHANGED vars
  BY <1>1, <1>9 DEF vars
<1> QED BY <1>2, <1>3, <1>4, <1>5, <1>6, <1>7, <1>8, <1>9 DEF Next

(***************************************************************************)
(* Every delivery owed is dropped, counted, waiting, in a handler, or lost *)
(* with its worker: each step moves deliveries between these places, and   *)
(* taking a head renumbers what waits behind it one to one.                *)
(***************************************************************************)
THEOREM AlwaysAccounted == Spec => []DeliveriesAccounted
<1>1. CountInv => DeliveriesAccounted
  BY DEF CountInv
<1>2. Spec => []CountInv
  BY InitCount, NextKeepsCount, BusInvariant, PTL DEF Spec
<1> QED BY <1>1, <1>2, PTL

-----------------------------------------------------------------------------
(* Each event is taken once and in order.                                  *)

LEMMA InitOrder == Init => TakenOnceInOrder
<1> SUFFICES ASSUME Init PROVE TakenOnceInOrder
  OBVIOUS
<1>1. \A s \in Subs : Waiting(s) = {}
  BY DEF Init, Waiting
<1>2. \A w \in Workers : held[w] = Pill
  BY DEF Init
<1> QED BY <1>1, <1>2 DEF TakenOnceInOrder, WorkersOf

LEMMA EmitKeepsOrder ==
  ASSUME BusInv, TakenOnceInOrder, NEW t \in Topics, Emit(t)
  PROVE  TakenOnceInOrder'
<1>1. TypeOK /\ held' = held
  BY DEF BusInv, Emit
<1>2. emitted \in Nat /\ \A w \in Workers : held[w] \in 0..emitted
  BY <1>1, ConstantsFit DEF TypeOK
<1>3. \A s \in Subs : /\ Len(queue[s]) \in Nat
                      /\ \A i \in 1..Len(queue[s]) : queue[s][i] \in 0..emitted
  BY <1>1 DEF TypeOK
<1>4. \A s \in Subs : \A i \in 1..Len(queue'[s]) :
        \/ i \in 1..Len(queue[s]) /\ queue'[s][i] = queue[s][i]
        \/ i = Len(queue[s]) + 1 /\ queue'[s][i] = emitted + 1
  BY <1>1, <1>3, EmitQueues
<1> SUFFICES ASSUME NEW s \in Subs PROVE TakenOnceInOrder!(s)'
  BY DEF TakenOnceInOrder
<1>5. /\ \A i, j \in Waiting(s) : i < j => queue[s][i] < queue[s][j]
      /\ \A w \in WorkersOf(s), i \in Waiting(s) : held[w] < queue[s][i]
      /\ \A v, w \in WorkersOf(s) : held[v] = held[w] /\ held[v] # Pill => v = w
  BY DEF TakenOnceInOrder
<1>6. \A i, j \in Waiting(s)' : i < j => queue'[s][i] < queue'[s][j]
  BY <1>2, <1>3, <1>4, <1>5 DEF Waiting
<1>7. \A w \in WorkersOf(s), i \in Waiting(s)' : held'[w] < queue'[s][i]
  <2> TAKE w \in WorkersOf(s), i \in Waiting(s)'
  <2>1. w \in Workers /\ held[w] \in 0..emitted /\ held'[w] = held[w]
    BY <1>1, <1>2 DEF WorkersOf
  <2>2. i \in 1..Len(queue'[s]) /\ queue'[s][i] # Pill
    BY DEF Waiting
  <2>3. CASE i \in 1..Len(queue[s]) /\ queue'[s][i] = queue[s][i]
    BY <1>5, <2>1, <2>2, <2>3 DEF Waiting
  <2>4. CASE queue'[s][i] = emitted + 1
    BY <1>2, <2>1, <2>4
  <2> QED BY <1>4, <2>2, <2>3, <2>4
<1> QED BY <1>1, <1>5, <1>6, <1>7 DEF WorkersOf

LEMMA PutPillKeepsOrder ==
  ASSUME BusInv, TakenOnceInOrder, PutPill
  PROVE  TakenOnceInOrder'
<1>1. TypeOK /\ held' = held
  BY DEF BusInv, PutPill
<1>2. \A s \in Subs : Len(queue[s]) \in Nat
  BY <1>1 DEF TypeOK
<1>3. \A s \in Subs : \A i \in 1..Len(queue'[s]) :
        \/ i \in 1..Len(queue[s]) /\ queue'[s][i] = queue[s][i]
        \/ queue'[s][i] = Pill
  BY <1>1, <1>2, PillPut
<1> QED BY <1>1, <1>3 DEF TakenOnceInOrder, Waiting, WorkersOf

(* A worker takes what is first: the oldest that waits, if it is an event. *)
LEMMA HeadTakenKeepsOrder ==
  ASSUME BusInv, TakenOnceInOrder, NEW w \in Workers, queue[SubOf[w]] # <<>>,
         queue' = [queue EXCEPT ![SubOf[w]] = Tail(@)],
         held[w] = Pill, held' = [held EXCEPT ![w] = Head(queue[SubOf[w]])]
  PROVE  TakenOnceInOrder'
<1> DEFINE q == queue[SubOf[w]]
<1>1. /\ SubOf[w] \in Subs /\ Len(q) \in Nat /\ Head(q) = q[1] /\ 1 \in 1..Len(q)
      /\ Len(queue'[SubOf[w]]) = Len(q) - 1
      /\ \A i \in 1..Len(q) - 1 :
           i + 1 \in 1..Len(q) /\ queue'[SubOf[w]][i] = q[i + 1]
      /\ \A r \in Subs : r # SubOf[w] => queue'[r] = queue[r]
  BY HeadTaken DEF BusInv
<1>2. \A v \in Workers : held'[v] = IF v = w THEN q[1] ELSE held[v]
  BY <1>1 DEF BusInv, TypeOK
<1>3. \A i \in 1..Len(q) : q[i] \in Nat
  BY <1>1 DEF BusInv, TypeOK
<1>4. \A v \in Workers : held[v] \in Nat
  BY DEF BusInv, TypeOK
<1> HIDE DEF q
<1> SUFFICES ASSUME NEW s \in Subs PROVE TakenOnceInOrder!(s)'
  BY DEF TakenOnceInOrder
<1>5. /\ \A i, j \in Waiting(s) : i < j => queue[s][i] < queue[s][j]
      /\ \A v \in WorkersOf(s), i \in Waiting(s) : held[v] < queue[s][i]
      /\ \A u, v \in WorkersOf(s) : held[u] = held[v] /\ held[u] # Pill => u = v
  BY DEF TakenOnceInOrder
<1>6. CASE s # SubOf[w]
  <2>1. queue'[s] = queue[s] /\ \A v \in WorkersOf(s) : held'[v] = held[v]
    BY <1>1, <1>2, <1>6 DEF WorkersOf
  <2> QED BY <1>5, <2>1 DEF Waiting, WorkersOf
<1>7. CASE s = SubOf[w]
  <2>1. /\ queue[s] = q
        /\ \A i \in Waiting(s)' : i + 1 \in Waiting(s) /\ queue'[s][i] = q[i + 1]
                                  /\ i \in Nat /\ i + 1 > 1
        /\ q[1] # Pill => 1 \in Waiting(s)
    BY <1>1, <1>7 DEF Waiting, q
  <2>2. \A i, j \in Waiting(s)' : i < j => queue'[s][i] < queue'[s][j]
    <3> TAKE i, j \in Waiting(s)'
    <3> HAVE i < j
    <3>1. /\ i + 1 \in Waiting(s) /\ i \in Nat /\ queue'[s][i] = q[i + 1]
          /\ j + 1 \in Waiting(s) /\ j \in Nat /\ queue'[s][j] = q[j + 1]
      BY <2>1
    <3>2. i + 1 < j + 1
      BY <3>1
    <3>3. q[i + 1] < q[j + 1]
      BY <1>5, <2>1, <3>1, <3>2
    <3> QED BY <3>1, <3>3
  <2>3. \A i \in Waiting(s)' : q[1] < queue'[s][i]
    <3> TAKE i \in Waiting(s)'
    <3>1. i + 1 \in 1..Len(q) /\ q[i + 1] # Pill /\ queue'[s][i] = q[i + 1] /\ i + 1 > 1
      BY <2>1 DEF Waiting
    <3>2. q[i + 1] \in Nat /\ q[1] \in Nat
      BY <1>1, <1>3, <3>1
    <3>3. q[1] = Pill => q[1] < q[i + 1]
      BY <3>1, <3>2 DEF Pill
    <3>4. q[1] # Pill => q[1] < q[i + 1]
      <4>1. q[1] # Pill => 1 \in Waiting(s) /\ i + 1 \in Waiting(s) /\ 1 < i + 1
        BY <2>1, <3>1
      <4> QED BY <1>5, <2>1, <4>1
    <3>5. q[1] < q[i + 1]
      BY <3>3, <3>4
    <3> QED BY <3>1, <3>5, Zenon
  <2>4. \A v \in WorkersOf(s), i \in Waiting(s)' : held'[v] < queue'[s][i]
    <3> TAKE v \in WorkersOf(s), i \in Waiting(s)'
    <3>1. v \in Workers /\ i + 1 \in Waiting(s) /\ queue'[s][i] = q[i + 1]
      BY <2>1 DEF WorkersOf
    <3>2. CASE v = w
      BY <1>2, <2>3, <3>1, <3>2
    <3>3. CASE v # w
      <4>1. held[v] < q[i + 1]
        BY <1>5, <2>1, <3>1
      <4>2. held'[v] = held[v]
        BY <1>2, <3>1, <3>3
      <4> QED BY <3>1, <4>1, <4>2, Zenon
    <3> QED BY <3>2, <3>3
  <2>5. \A v \in WorkersOf(s) : q[1] # Pill => held[v] < q[1]
    BY <1>5, <2>1
  <2>6. \A u, v \in WorkersOf(s) : held'[u] = held'[v] /\ held'[u] # Pill => u = v
    <3> TAKE u, v \in WorkersOf(s)
    <3> HAVE held'[u] = held'[v] /\ held'[u] # Pill
    <3>1. /\ u \in Workers /\ v \in Workers /\ held[u] \in Nat /\ held[v] \in Nat
          /\ q[1] \in Nat
      BY <1>1, <1>3, <1>4 DEF WorkersOf
    <3>2. CASE u # w /\ v # w
      BY <1>2, <1>5, <3>1, <3>2
    <3>3. CASE u = w /\ v # w
      BY <1>2, <2>5, <3>1, <3>3
    <3>4. CASE u # w /\ v = w
      BY <1>2, <2>5, <3>1, <3>4
    <3> QED BY <3>2, <3>3, <3>4
  <2> QED BY <2>2, <2>4, <2>6 DEF WorkersOf
<1> QED BY <1>6, <1>7

LEMMA NextKeepsOrder == BusInv /\ TakenOnceInOrder /\ [Next]_vars => TakenOnceInOrder'
<1> SUFFICES ASSUME BusInv, TakenOnceInOrder, [Next]_vars PROVE TakenOnceInOrder'
  OBVIOUS
<1>1. ASSUME UNCHANGED <<queue, held>> PROVE TakenOnceInOrder'
  BY <1>1 DEF TakenOnceInOrder, Waiting, WorkersOf
<1>2. CASE Start \/ CloseBegin \/ CloseEnd \/ UNCHANGED vars
  BY <1>1, <1>2 DEF Start, CloseBegin, CloseEnd, vars
<1>3. ASSUME NEW w \in Workers, RunInThread(w) PROVE TakenOnceInOrder'
  BY <1>1, <1>3 DEF RunInThread
<1>4. ASSUME NEW w \in Workers, Take(w) PROVE TakenOnceInOrder'
  <2>1. held[w] = Pill
    BY <1>4 DEF Take, BusInv, HoldersFit
  <2> QED BY <1>4, <2>1, HeadTakenKeepsOrder DEF Take
<1>5. ASSUME NEW w \in Workers, TakePill(w) PROVE TakenOnceInOrder'
  <2>1. held[w] = Pill /\ held \in [Workers -> 0..emitted]
    BY <1>5 DEF TakePill, BusInv, HoldersFit, TypeOK
  <2>2. held' = [held EXCEPT ![w] = Head(queue[SubOf[w]])]
    BY <1>5, <2>1 DEF TakePill
  <2> QED BY <1>5, <2>1, <2>2, HeadTakenKeepsOrder DEF TakePill
<1>6. ASSUME NEW w \in Workers, Handle(w) PROVE TakenOnceInOrder'
  <2>1. queue' = queue /\ \/ held' = held
                          \/ held' = [held EXCEPT ![w] = Pill]
    BY <1>6 DEF Handle, HandlerReturns, HandlerRaises, HandlerCancelled, HandlerOver
  <2>2. CASE held' = [held EXCEPT ![w] = Pill]
    <3>1. \A v \in Workers : held'[v] = IF v = w THEN Pill ELSE held[v]
      BY <2>2 DEF BusInv, TypeOK
    <3>2. \A s \in Subs : \A i \in Waiting(s) : queue[s][i] \in Nat \ {0}
      BY DEF BusInv, TypeOK, Waiting
    <3> QED BY <2>1, <3>1, <3>2 DEF TakenOnceInOrder, Waiting, WorkersOf
  <2> QED BY <1>1, <2>1, <2>2
<1> QED BY <1>2, <1>3, <1>4, <1>5, <1>6, EmitKeepsOrder, PutPillKeepsOrder DEF Next

(***************************************************************************)
(* Each subscription gets an event once and in the order of the emits, for *)
(* any number of workers, full queues and failing handlers.                *)
(***************************************************************************)
THEOREM AlwaysOnceInOrder == Spec => []TakenOnceInOrder
  BY InitOrder, NextKeepsOrder, BusInvariant, PTL DEF Spec

-----------------------------------------------------------------------------
(* close() is never stuck.                                                 *)

PillsAt(s) == Places(queue[s], Pill)
StoppedOf(s) == {w \in WorkersOf(s) : pc[w] = "stopped"}

(* The workers of the first i subscriptions. *)
UpTo(i) == Cardinality(WorkersUpTo(i))

(* What close() has given the i-th subscription: the ones before it first. *)
Given(i) ==
  IF pills <= UpTo(i - 1) THEN 0
  ELSE IF UpTo(i) <= pills THEN Cardinality(WorkersOf(Subscriptions[i]))
  ELSE pills - UpTo(i - 1)

(* Every pill that close() has put is in its queue or has stopped a worker. *)
PillsPlaced ==
  \A i \in 1..Len(Subscriptions) :
    Cardinality(PillsAt(Subscriptions[i])) + Cardinality(StoppedOf(Subscriptions[i]))
      = Given(i)

(* A worker whose handler waits for a thread is in the executor's queue. *)
PooledInPool ==
  \A w \in Workers : pc[w] = "pooled" => \E i \in 1..Len(pool) : pool[i] = w

(* start() began every worker. *)
WorkersBegun == phase # "new" => \A w \in Workers : pc[w] # "none"

CloseInv == PillsPlaced /\ PooledInPool /\ WorkersBegun

LEMMA UpToMembers ==
  \A i, w : w \in WorkersUpTo(i)
              <=> w \in Workers /\ \E j \in 1..i : Subscriptions[j] = SubOf[w]
  BY DEF WorkersUpTo, WorkersOf

LEMMA SubscriptionsFit ==
  /\ Len(Subscriptions) \in Nat
  /\ \A i \in 1..Len(Subscriptions) : Subscriptions[i] \in Subs
  /\ \A s \in Subs : \E i \in 1..Len(Subscriptions) : Subscriptions[i] = s
  /\ \A i, j \in 1..Len(Subscriptions) :
       Subscriptions[i] = Subscriptions[j] => i = j
  BY BusAssumption DEF Subs

LEMMA WorkersFinite ==
  ASSUME NEW T, T \subseteq Workers
  PROVE  IsFiniteSet(T) /\ Cardinality(T) \in Nat /\ Cardinality(T) <= PillsOwed
<1>1. IsFiniteSet(Workers) /\ T \in SUBSET Workers
  BY BusAssumption
<1>2. IsFiniteSet(T) /\ Cardinality(T) <= Cardinality(Workers)
  BY <1>1, FS_Subset
<1> QED BY <1>2, FS_CardinalityType DEF PillsOwed

(* The bounds between which each subscription gets its pills. *)
LEMMA UpToFits ==
  /\ \A i \in 0..Len(Subscriptions) : UpTo(i) \in Nat
  /\ UpTo(0) = 0 /\ UpTo(Len(Subscriptions)) = PillsOwed
  /\ \A i, j \in 0..Len(Subscriptions) : i <= j => UpTo(i) <= UpTo(j)
  /\ \A i \in 1..Len(Subscriptions) :
       /\ Cardinality(WorkersOf(Subscriptions[i])) \in Nat
       /\ UpTo(i) = UpTo(i - 1) + Cardinality(WorkersOf(Subscriptions[i]))
<1>1. \A i : WorkersUpTo(i) \subseteq Workers
  BY UpToMembers
<1>2. \A i \in 0..Len(Subscriptions) : UpTo(i) \in Nat
  BY <1>1, WorkersFinite DEF UpTo
<1>3. UpTo(0) = 0
  <2>1. WorkersUpTo(0) = {}
    BY UpToMembers
  <2> QED BY <2>1, FS_EmptySet DEF UpTo
<1>4. UpTo(Len(Subscriptions)) = PillsOwed
  <2>1. WorkersUpTo(Len(Subscriptions)) = Workers
    BY UpToMembers, SubscriptionsFit, ConstantsFit
  <2> QED BY <2>1 DEF UpTo, PillsOwed
<1>5. \A i, j \in 0..Len(Subscriptions) : i <= j => UpTo(i) <= UpTo(j)
  <2> TAKE i, j \in 0..Len(Subscriptions)
  <2> HAVE i <= j
  <2>1. \A k \in 1..i : k \in 1..j
    BY SubscriptionsFit
  <2>2. WorkersUpTo(i) \in SUBSET WorkersUpTo(j) /\ IsFiniteSet(WorkersUpTo(j))
    BY <1>1, <2>1, UpToMembers, WorkersFinite
  <2> QED BY <2>2, FS_Subset DEF UpTo
<1>6. ASSUME NEW i \in 1..Len(Subscriptions)
      PROVE  /\ Cardinality(WorkersOf(Subscriptions[i])) \in Nat
             /\ UpTo(i) = UpTo(i - 1) + Cardinality(WorkersOf(Subscriptions[i]))
  <2> DEFINE s == Subscriptions[i]
  <2>1. IsFiniteSet(WorkersOf(s)) /\ Cardinality(WorkersOf(s)) \in Nat
    BY WorkersFinite DEF WorkersOf
  <2>2. IsFiniteSet(WorkersUpTo(i - 1)) /\ Cardinality(WorkersUpTo(i - 1)) \in Nat
    BY <1>1, WorkersFinite
  <2>3. \A j : j \in 1..i <=> j \in 1..i - 1 \/ j = i
    BY SubscriptionsFit
  <2>4. WorkersUpTo(i) = WorkersUpTo(i - 1) \cup WorkersOf(s)
    BY <2>3, UpToMembers DEF WorkersOf
  <2>5. WorkersUpTo(i - 1) \cap WorkersOf(s) = {}
    <3>1. \A j \in 1..i - 1 : j \in 1..Len(Subscriptions) /\ j # i
      BY SubscriptionsFit
    <3> QED BY <3>1, UpToMembers, SubscriptionsFit DEF WorkersOf
  <2>6. Cardinality(WorkersUpTo(i)) = Cardinality(WorkersUpTo(i - 1))
          + Cardinality(WorkersOf(s)) - Cardinality({})
    BY <2>1, <2>2, <2>4, <2>5, FS_Union
  <2> QED BY <2>1, <2>2, <2>6, FS_EmptySet DEF UpTo
<1> QED BY <1>2, <1>3, <1>4, <1>5, <1>6

(* While pills are owed, one subscription is next. *)
LEMMA NextPillFits ==
  ASSUME TypeOK, pills < PillsOwed
  PROVE  \E k \in 1..Len(Subscriptions) :
           NextPill = Subscriptions[k] /\ UpTo(k - 1) <= pills /\ pills < UpTo(k)
<1> DEFINE n == Len(Subscriptions)
           S == {i \in 0..n : pills < UpTo(i)}
<1>1. n \in Nat /\ pills \in Nat /\ S \in SUBSET Nat /\ n \in S
  BY SubscriptionsFit, UpToFits, ConstantsFit DEF TypeOK
<1>2. PICK k \in S : \A m \in S : k <= m
  BY <1>1, LeastNumber
<1>3. k \in 1..n /\ k - 1 \in 0..n
  BY <1>1, <1>2, UpToFits
<1>4. UpTo(k - 1) <= pills /\ pills < UpTo(k)
  <2>1. k - 1 \notin S
    BY <1>1, <1>2, <1>3
  <2> QED BY <1>1, <1>3, <2>1, UpToFits
<1>5. \E i \in 1..n : Cardinality(WorkersUpTo(i - 1)) <= pills
                        /\ pills < Cardinality(WorkersUpTo(i))
  BY <1>3, <1>4 DEF UpTo
<1> DEFINE c == CHOOSE i \in 1..n : /\ Cardinality(WorkersUpTo(i - 1)) <= pills
                                    /\ pills < Cardinality(WorkersUpTo(i))
<1>6. /\ c \in 1..n /\ Cardinality(WorkersUpTo(c - 1)) <= pills
      /\ pills < Cardinality(WorkersUpTo(c))
  BY <1>5
<1>7. NextPill = Subscriptions[c]
  BY DEF NextPill
<1> HIDE DEF c
<1> QED BY <1>6, <1>7 DEF UpTo

LEMMA InitClose == Init => CloseInv
<1> SUFFICES ASSUME Init PROVE CloseInv
  OBVIOUS
<1>1. PooledInPool /\ WorkersBegun
  BY DEF Init, PooledInPool, WorkersBegun
<1>2. ASSUME NEW i \in 1..Len(Subscriptions)
      PROVE  Cardinality(PillsAt(Subscriptions[i]))
               + Cardinality(StoppedOf(Subscriptions[i])) = Given(i)
  <2>1. PillsAt(Subscriptions[i]) = {} /\ StoppedOf(Subscriptions[i]) = {}
    BY SubscriptionsFit DEF Init, PillsAt, Places, StoppedOf, WorkersOf
  <2>2. i - 1 \in 0..Len(Subscriptions)
    BY SubscriptionsFit
  <2>3. pills <= UpTo(i - 1)
    BY <2>2, UpToFits DEF Init
  <2> QED BY <2>1, <2>3, FS_EmptySet DEF Given
<1> QED BY <1>1, <1>2 DEF CloseInv, PillsPlaced

(* The pills and the stopped workers of each queue, where they stay. *)
LEMMA SamePills ==
  ASSUME PillsPlaced, pills' = pills,
         \A s \in Subs : /\ Cardinality(PillsAt(s))' = Cardinality(PillsAt(s))
                         /\ StoppedOf(s)' = StoppedOf(s)
  PROVE  PillsPlaced'
<1>1. \A i : UpTo(i)' = UpTo(i) /\ Given(i)' = Given(i)
  BY DEF UpTo, Given, WorkersUpTo, WorkersOf
<1> QED BY <1>1, SubscriptionsFit DEF PillsPlaced

LEMMA PillPlacesFinite ==
  ASSUME TypeOK, NEW s \in Subs
  PROVE  /\ IsFiniteSet(PillsAt(s)) /\ Cardinality(PillsAt(s)) \in Nat
         /\ IsFiniteSet(StoppedOf(s)) /\ Cardinality(StoppedOf(s)) \in Nat
<1>1. queue[s] \in Seq(0..emitted)
  BY DEF TypeOK
<1>2. IsFiniteSet(PillsAt(s)) /\ Cardinality(PillsAt(s)) \in Nat
  BY <1>1, PlacesFinite DEF PillsAt
<1>3. StoppedOf(s) \subseteq Workers
  BY DEF StoppedOf, WorkersOf
<1> QED BY <1>2, <1>3, WorkersFinite

(* Taking the head of a queue takes a pill or none. *)
LEMMA HeadTakenPills ==
  ASSUME TypeOK, NEW w \in Workers, queue[SubOf[w]] # <<>>,
         queue' = [queue EXCEPT ![SubOf[w]] = Tail(@)], NEW s \in Subs
  PROVE  Cardinality(PillsAt(s)) = Cardinality(PillsAt(s)')
           + (IF s = SubOf[w] /\ Head(queue[s]) = Pill THEN 1 ELSE 0)
<1>1. queue[s] \in Seq(0..emitted) /\ queue'[s] = IF s = SubOf[w] THEN Tail(queue[s])
                                                                  ELSE queue[s]
  BY DEF TypeOK
<1>2. CASE s = SubOf[w]
  BY <1>1, <1>2, TailPlaces DEF PillsAt
<1>3. CASE s # SubOf[w]
  BY <1>1, <1>3, PillPlacesFinite DEF PillsAt
<1> QED BY <1>2, <1>3

LEMMA EmitKeepsClose ==
  ASSUME BusInv, CloseInv, NEW t \in Topics, Emit(t)
  PROVE  CloseInv'
<1>1. TypeOK /\ UNCHANGED <<phase, pills, pc, pool>>
  BY DEF BusInv, Emit, busVars
<1>2. \A s \in Subs : StoppedOf(s)' = StoppedOf(s)
  BY <1>1 DEF StoppedOf, WorkersOf
<1>3. ASSUME NEW s \in Subs
      PROVE  Cardinality(PillsAt(s))' = Cardinality(PillsAt(s))
  <2>1. queue[s] \in Seq(0..emitted) /\ emitted \in Nat
    BY <1>1, ConstantsFit DEF TypeOK
  <2>2. queue[s] \in Seq(0..emitted + 1) /\ emitted + 1 \in 0..emitted + 1
    BY <2>1, MoreNumbers
  <2>3. CASE queue'[s] = queue[s]
    BY <2>3 DEF PillsAt
  <2>4. CASE queue'[s] = Append(queue[s], emitted + 1)
    <3>1. emitted + 1 # Pill /\ Cardinality(Places(queue[s], Pill)) \in Nat
      BY <2>1, PlacesFinite
    <3> QED BY <2>2, <2>4, <3>1, AppendPlaces DEF PillsAt
  <2> QED BY <1>1, <2>3, <2>4, EmitQueues
<1>4. PillsPlaced'
  BY <1>1, <1>2, <1>3, SamePills DEF CloseInv
<1> QED BY <1>1, <1>4 DEF CloseInv, PooledInPool, WorkersBegun

(***************************************************************************)
(* A pill goes to the one subscription whose bounds pills lies between: the*)
(* ones before it have all of theirs and the ones behind it have none.     *)
(***************************************************************************)
LEMMA PutPillKeepsClose ==
  ASSUME BusInv, CloseInv, PutPill
  PROVE  CloseInv'
<1>1. /\ TypeOK /\ pills < PillsOwed /\ pills' = pills + 1 /\ pills \in Nat
      /\ UNCHANGED <<phase, pc, pool>>
  BY ConstantsFit DEF BusInv, PutPill, TypeOK
<1>2. PICK k \in 1..Len(Subscriptions) :
        NextPill = Subscriptions[k] /\ UpTo(k - 1) <= pills /\ pills < UpTo(k)
  BY <1>1, NextPillFits
<1>3. \A s \in Subs : StoppedOf(s)' = StoppedOf(s)
  BY <1>1 DEF StoppedOf, WorkersOf
<1>4. ASSUME NEW i \in 1..Len(Subscriptions)
      PROVE  /\ Cardinality(PillsAt(Subscriptions[i])) \in Nat
             /\ Cardinality(PillsAt(Subscriptions[i])')
                  = Cardinality(PillsAt(Subscriptions[i])) + (IF i = k THEN 1 ELSE 0)
  <2> DEFINE s == Subscriptions[i]
  <2>1. s \in Subs /\ queue[s] \in Seq(0..emitted) /\ 0 \in 0..emitted
    BY <1>1, SubscriptionsFit, ConstantsFit DEF TypeOK
  <2>2. Cardinality(PillsAt(s)) \in Nat
    BY <1>1, <2>1, PillPlacesFinite
  <2>3. CASE i = k
    <3>1. queue'[s] = Append(queue[s], Pill)
      BY <1>1, <1>2, <2>1, <2>3, PillPut
    <3>2. Cardinality(Places(Append(queue[s], Pill), Pill))
            = Cardinality(Places(queue[s], Pill)) + (IF Pill = Pill THEN 1 ELSE 0)
      BY <2>1, AppendPlaces
    <3>3. Cardinality(PillsAt(s)') = Cardinality(PillsAt(s)) + 1
      BY <3>1, <3>2 DEF PillsAt
    <3> QED BY <2>2, <2>3, <3>3
  <2>4. CASE i # k
    <3>1. s # NextPill
      BY <1>2, <2>4, SubscriptionsFit
    <3>2. queue'[s] = queue[s]
      BY <1>1, <2>1, <3>1, PillPut
    <3> QED BY <2>2, <2>4, <3>2 DEF PillsAt
  <2> QED BY <2>2, <2>3, <2>4
<1>5. ASSUME NEW i \in 1..Len(Subscriptions)
      PROVE  Given(i)' = Given(i) + (IF i = k THEN 1 ELSE 0)
  <2>1. /\ i - 1 \in 0..Len(Subscriptions) /\ i \in 0..Len(Subscriptions)
        /\ k - 1 \in 0..Len(Subscriptions) /\ k \in 0..Len(Subscriptions)
        /\ i < k => i <= k - 1
        /\ i > k => k <= i - 1
        /\ i < k \/ i > k \/ i = k
    BY SubscriptionsFit
  <2> DEFINE W == Cardinality(WorkersOf(Subscriptions[i]))
             a == UpTo(i - 1)
             b == UpTo(i)
  <2>2. a \in Nat /\ b \in Nat /\ W \in Nat /\ b = a + W
    <3>1. UpTo(i - 1) \in Nat /\ UpTo(i) \in Nat
      BY <2>1, UpToFits
    <3> QED BY <3>1, UpToFits
  <2>3. /\ i < k => b <= pills
        /\ i > k => pills + 1 <= a
        /\ i = k => a <= pills /\ pills < b
    <3>1. UpTo(k - 1) \in Nat /\ UpTo(k) \in Nat
      BY <2>1, UpToFits
    <3>2. i < k => UpTo(i) <= UpTo(k - 1)
      BY <2>1, UpToFits
    <3>3. i > k => UpTo(k) <= UpTo(i - 1)
      BY <2>1, UpToFits
    <3>4. i < k => b <= pills
      BY <1>1, <1>2, <2>2, <3>1, <3>2
    <3>5. i > k => pills + 1 <= a
      BY <1>1, <1>2, <2>2, <3>1, <3>3
    <3>6. i = k => a <= pills /\ pills < b
      BY <1>2
    <3> QED BY <3>4, <3>5, <3>6
  <2>4. Given(i) = IF pills <= a THEN 0 ELSE IF b <= pills THEN W ELSE pills - a
    BY DEF Given
  <2>5. Given(i)' = IF pills' <= a THEN 0 ELSE IF b <= pills' THEN W ELSE pills' - a
    BY DEF Given
  <2> HIDE DEF W, a, b
  <2>6. CASE i < k
    BY <1>1, <2>1, <2>2, <2>3, <2>4, <2>5, <2>6
  <2>7. CASE i > k
    BY <1>1, <2>1, <2>2, <2>3, <2>4, <2>5, <2>7
  <2>8. CASE i = k
    BY <1>1, <2>2, <2>3, <2>4, <2>5, <2>8
  <2> QED BY <2>1, <2>6, <2>7, <2>8
<1>6. PillsPlaced'
  <2> SUFFICES ASSUME NEW i \in 1..Len(Subscriptions)
               PROVE  Cardinality(PillsAt(Subscriptions[i])')
                        + Cardinality(StoppedOf(Subscriptions[i])') = Given(i)'
    BY DEF PillsPlaced
  <2>1. Cardinality(PillsAt(Subscriptions[i]))
          + Cardinality(StoppedOf(Subscriptions[i])) = Given(i)
    BY DEF CloseInv, PillsPlaced
  <2>2. /\ Cardinality(StoppedOf(Subscriptions[i])) \in Nat
        /\ StoppedOf(Subscriptions[i])' = StoppedOf(Subscriptions[i])
    BY <1>1, <1>3, PillPlacesFinite, SubscriptionsFit
  <2> QED BY <1>4, <1>5, <2>1, <2>2
<1> QED BY <1>1, <1>6 DEF CloseInv, PooledInPool, WorkersBegun

LEMMA TakeKeepsClose ==
  ASSUME BusInv, CloseInv, NEW w \in Workers, Take(w)
  PROVE  CloseInv'
<1>1. /\ TypeOK /\ queue[SubOf[w]] # <<>> /\ Head(queue[SubOf[w]]) # Pill
      /\ queue' = [queue EXCEPT ![SubOf[w]] = Tail(@)]
      /\ pc[w] = "idle" /\ UNCHANGED <<phase, pills>>
      /\ \/ pc' = [pc EXCEPT ![w] = "pooled"] /\ pool' = Append(pool, w)
         \/ pc' = [pc EXCEPT ![w] = "handling"] /\ pool' = pool
  BY DEF BusInv, Take, busVars
<1>2. \A v \in Workers : \/ v # w /\ pc'[v] = pc[v]
                         \/ v = w /\ pc'[v] \in {"pooled", "handling"}
  BY <1>1 DEF TypeOK
<1>3. \A s \in Subs : StoppedOf(s)' = StoppedOf(s)
  BY <1>1, <1>2 DEF StoppedOf, WorkersOf
<1>4. ASSUME NEW s \in Subs
      PROVE  Cardinality(PillsAt(s))' = Cardinality(PillsAt(s))
  <2>1. Cardinality(PillsAt(s)) = Cardinality(PillsAt(s)') + 0
    BY <1>1, HeadTakenPills
  <2>2. Cardinality(PillsAt(s)') \in Nat
    <3>1. queue'[s] \in Seq(0..emitted)
      BY <1>1, HeadTaken
    <3> QED BY <3>1, PlacesFinite DEF PillsAt
  <2> QED BY <2>1, <2>2
<1>5. PillsPlaced'
  BY <1>1, <1>3, <1>4, SamePills DEF CloseInv
<1>6. PooledInPool'
  <2> SUFFICES ASSUME NEW v \in Workers, pc'[v] = "pooled"
               PROVE  \E i \in 1..Len(pool') : pool'[i] = v
    BY DEF PooledInPool
  <2>1. pool \in Seq(Workers) /\ Len(pool) \in Nat
    BY <1>1 DEF TypeOK
  <2>2. v # w => \E i \in 1..Len(pool) : pool[i] = v
    BY <1>2 DEF CloseInv, PooledInPool
  <2>3. CASE pool' = Append(pool, w)
    BY <2>1, <2>2, <2>3, AppendKeeps
  <2>4. CASE pc' = [pc EXCEPT ![w] = "handling"] /\ pool' = pool
    <3>1. v # w
      BY <1>1, <2>4 DEF TypeOK
    <3> QED BY <2>2, <2>4, <3>1
  <2> QED BY <1>1, <2>3, <2>4
<1>7. WorkersBegun'
  BY <1>1, <1>2 DEF CloseInv, WorkersBegun
<1> QED BY <1>5, <1>6, <1>7 DEF CloseInv

LEMMA TakePillKeepsClose ==
  ASSUME BusInv, CloseInv, NEW w \in Workers, TakePill(w)
  PROVE  CloseInv'
<1>1. /\ TypeOK /\ queue[SubOf[w]] # <<>> /\ Head(queue[SubOf[w]]) = Pill
      /\ queue' = [queue EXCEPT ![SubOf[w]] = Tail(@)]
      /\ pc[w] = "idle" /\ pc' = [pc EXCEPT ![w] = "stopped"]
      /\ UNCHANGED <<phase, pills, pool>>
  BY DEF BusInv, TakePill, busVars
<1>2. \A v \in Workers : pc'[v] = IF v = w THEN "stopped" ELSE pc[v]
  BY <1>1 DEF TypeOK
<1>3. PooledInPool' /\ WorkersBegun'
  BY <1>1, <1>2 DEF CloseInv, PooledInPool, WorkersBegun
<1>4. ASSUME NEW s \in Subs
      PROVE  Cardinality(PillsAt(s)') + Cardinality(StoppedOf(s)')
               = Cardinality(PillsAt(s)) + Cardinality(StoppedOf(s))
  <2>1. /\ Cardinality(PillsAt(s)) = Cardinality(PillsAt(s)')
             + (IF s = SubOf[w] THEN 1 ELSE 0)
        /\ IsFiniteSet(StoppedOf(s)) /\ Cardinality(StoppedOf(s)) \in Nat
    BY <1>1, HeadTakenPills, PillPlacesFinite
  <2>2. Cardinality(PillsAt(s)') \in Nat
    <3>1. queue'[s] \in Seq(0..emitted)
      BY <1>1, HeadTaken
    <3> QED BY <3>1, PlacesFinite DEF PillsAt
  <2>3. CASE s = SubOf[w]
    <3>1. w \notin StoppedOf(s) /\ StoppedOf(s)' = StoppedOf(s) \cup {w}
      BY <1>1, <1>2, <2>3 DEF StoppedOf, WorkersOf
    <3>2. Cardinality(StoppedOf(s)') = Cardinality(StoppedOf(s)) + 1
      BY <2>1, <3>1, FS_AddElement
    <3> QED BY <2>1, <2>2, <2>3, <3>2
  <2>4. CASE s # SubOf[w]
    <3>1. StoppedOf(s)' = StoppedOf(s)
      BY <1>2, <2>4 DEF StoppedOf, WorkersOf
    <3> QED BY <2>1, <2>2, <2>4, <3>1
  <2> QED BY <2>3, <2>4
<1>5. \A i : UpTo(i)' = UpTo(i) /\ Given(i)' = Given(i)
  BY <1>1 DEF UpTo, Given, WorkersUpTo, WorkersOf
<1>6. PillsPlaced'
  BY <1>4, <1>5, SubscriptionsFit DEF CloseInv, PillsPlaced
<1> QED BY <1>3, <1>6 DEF CloseInv

LEMMA RunInThreadKeepsClose ==
  ASSUME BusInv, CloseInv, NEW w \in Workers, RunInThread(w)
  PROVE  CloseInv'
<1>1. /\ TypeOK /\ PoolFits /\ pool # <<>> /\ Head(pool) = w /\ pool' = Tail(pool)
      /\ pc' = [pc EXCEPT ![w] = "handling"] /\ UNCHANGED <<phase, pills, queue>>
  BY DEF BusInv, RunInThread, busVars
<1>2. \A v \in Workers : pc'[v] = IF v = w THEN "handling" ELSE pc[v]
  BY <1>1 DEF TypeOK
<1>3. pool \in Seq(Workers) /\ pool[1] = w /\ 1 \in 1..Len(pool)
  BY <1>1, TailElements DEF TypeOK
<1>4. pc[w] = "pooled"
  BY <1>1, <1>3 DEF PoolFits
<1>5. \A s \in Subs : PillsAt(s)' = PillsAt(s) /\ StoppedOf(s)' = StoppedOf(s)
  BY <1>1, <1>2, <1>4 DEF PillsAt, StoppedOf, WorkersOf
<1>6. PillsPlaced'
  BY <1>1, <1>5, SamePills DEF CloseInv
<1>7. PooledInPool'
  <2> SUFFICES ASSUME NEW v \in Workers, pc'[v] = "pooled"
               PROVE  \E i \in 1..Len(pool') : pool'[i] = v
    BY DEF PooledInPool
  <2>1. v # w /\ pc[v] = "pooled"
    BY <1>2
  <2>2. \E i \in 1..Len(pool) : pool[i] = v
    BY <2>1 DEF CloseInv, PooledInPool
  <2> QED BY <1>1, <1>3, <2>1, <2>2, TailElements
<1> QED BY <1>1, <1>2, <1>6, <1>7 DEF CloseInv, WorkersBegun

LEMMA HandleKeepsClose ==
  ASSUME BusInv, CloseInv, NEW w \in Workers, Handle(w)
  PROVE  CloseInv'
<1>1. /\ TypeOK /\ pc[w] = "handling" /\ UNCHANGED <<phase, pills, queue, pool>>
      /\ \E next \in {"idle", "dead"} : pc' = [pc EXCEPT ![w] = next]
  BY DEF BusInv, Handle, HandlerReturns, HandlerRaises, HandlerCancelled, HandlerOver,
         busVars
<1>2. \A v \in Workers : \/ v # w /\ pc'[v] = pc[v]
                         \/ v = w /\ pc'[v] \in {"idle", "dead"}
  BY <1>1 DEF TypeOK
<1>3. \A s \in Subs : PillsAt(s)' = PillsAt(s) /\ StoppedOf(s)' = StoppedOf(s)
  BY <1>1, <1>2 DEF PillsAt, StoppedOf, WorkersOf
<1>4. PillsPlaced'
  BY <1>1, <1>3, SamePills DEF CloseInv
<1> QED BY <1>1, <1>2, <1>4 DEF CloseInv, PooledInPool, WorkersBegun

LEMMA StartKeepsClose ==
  ASSUME BusInv, CloseInv, Start
  PROVE  CloseInv'
<1>1. /\ TypeOK /\ UNCHANGED <<pills, queue, pool>>
      /\ \A v \in Workers : pc[v] = "none" /\ pc'[v] = "idle"
  BY DEF BusInv, Start, NewHasNoWorker
<1>2. \A s \in Subs : PillsAt(s)' = PillsAt(s) /\ StoppedOf(s)' = StoppedOf(s)
  BY <1>1 DEF PillsAt, StoppedOf, WorkersOf
<1>3. PillsPlaced'
  BY <1>1, <1>2, SamePills DEF CloseInv
<1> QED BY <1>1, <1>3 DEF CloseInv, PooledInPool, WorkersBegun

LEMMA NextKeepsClose == BusInv /\ CloseInv /\ [Next]_vars => CloseInv'
<1> SUFFICES ASSUME BusInv, CloseInv, [Next]_vars PROVE CloseInv'
  OBVIOUS
<1>1. ASSUME UNCHANGED <<pills, queue, pc, pool>>, phase' # "new" => phase # "new"
      PROVE  CloseInv'
  <2>1. \A s \in Subs : PillsAt(s)' = PillsAt(s) /\ StoppedOf(s)' = StoppedOf(s)
    BY <1>1 DEF PillsAt, StoppedOf, WorkersOf
  <2>2. PillsPlaced'
    BY <1>1, <2>1, SamePills DEF CloseInv
  <2> QED BY <1>1, <2>2 DEF CloseInv, PooledInPool, WorkersBegun
<1>2. CASE CloseBegin \/ CloseEnd \/ UNCHANGED vars
  BY <1>1, <1>2 DEF CloseBegin, CloseEnd, vars
<1> QED BY <1>2, StartKeepsClose, EmitKeepsClose, PutPillKeepsClose, TakeKeepsClose,
           TakePillKeepsClose, RunInThreadKeepsClose, HandleKeepsClose DEF Next

(* No thread is free only while a handler is at work. *)
LEMMA BusyThread ==
  ASSUME TypeOK, ~ThreadFree
  PROVE  \E w \in Workers : pc[w] = "handling"
<1>1. Cardinality({}) = 0 /\ Threads \in Nat \ {0}
  BY FS_EmptySet, BusAssumption
<1>2. InThread # {}
  BY <1>1 DEF ThreadFree
<1> QED BY <1>2 DEF InThread

(* A worker that has not stopped is owed a pill, which its queue holds when *)
(* close() has put them all.                                               *)
LEMMA PillAwaits ==
  ASSUME TypeOK, PillsPlaced, pills = PillsOwed, NEW w \in Workers, pc[w] # "stopped"
  PROVE  queue[SubOf[w]] # <<>>
<1>1. PICK i \in 1..Len(Subscriptions) : Subscriptions[i] = SubOf[w]
  BY SubscriptionsFit, ConstantsFit
<1> DEFINE s == SubOf[w]
<1>2. s \in Subs /\ w \in WorkersOf(s) /\ w \notin StoppedOf(s)
  BY ConstantsFit DEF WorkersOf, StoppedOf
<1>3. /\ i - 1 \in 0..Len(Subscriptions) /\ i \in 0..Len(Subscriptions)
      /\ Len(Subscriptions) \in 0..Len(Subscriptions) /\ i <= Len(Subscriptions)
  BY SubscriptionsFit
<1>4. UpTo(i) <= pills /\ UpTo(i) \in Nat /\ UpTo(i - 1) \in Nat /\ pills \in Nat
  BY <1>3, UpToFits, ConstantsFit
<1>5. /\ UpTo(i) = UpTo(i - 1) + Cardinality(WorkersOf(s))
      /\ Cardinality(WorkersOf(s)) \in Nat
  BY <1>1, UpToFits
<1>6. StoppedOf(s) \in SUBSET WorkersOf(s) /\ IsFiniteSet(WorkersOf(s))
  BY WorkersFinite DEF StoppedOf, WorkersOf
<1>7. Cardinality(StoppedOf(s)) < Cardinality(WorkersOf(s))
  <2>1. /\ Cardinality(StoppedOf(s)) <= Cardinality(WorkersOf(s))
        /\ Cardinality(StoppedOf(s)) # Cardinality(WorkersOf(s))
    BY <1>2, <1>6, FS_Subset
  <2> QED BY <1>2, <1>5, <2>1, PillPlacesFinite
<1>8. Cardinality(PillsAt(s)) + Cardinality(StoppedOf(s)) = Cardinality(WorkersOf(s))
  <2>1. Given(i) = Cardinality(WorkersOf(s))
    BY <1>1, <1>2, <1>4, <1>5, <1>7, PillPlacesFinite DEF Given
  <2> QED BY <1>1, <2>1 DEF PillsPlaced
<1>9. PillsAt(s) # {}
  <2>1. Cardinality(PillsAt(s)) # 0
    BY <1>2, <1>5, <1>7, <1>8, PillPlacesFinite
  <2> QED BY <2>1, FS_EmptySet
<1> QED BY <1>9 DEF PillsAt, Places

(* While pills are owed, the next one has a worker that has not stopped. *)
LEMMA NextPillHasWorker ==
  ASSUME TypeOK, PillsPlaced, pills < PillsOwed
  PROVE  NextPill \in Subs /\ \E w \in Workers : SubOf[w] = NextPill /\ pc[w] # "stopped"
<1>1. PICK k \in 1..Len(Subscriptions) :
        NextPill = Subscriptions[k] /\ UpTo(k - 1) <= pills /\ pills < UpTo(k)
  BY NextPillFits
<1> DEFINE s == Subscriptions[k]
<1>2. s \in Subs /\ k - 1 \in 0..Len(Subscriptions) /\ k \in 0..Len(Subscriptions)
  BY SubscriptionsFit
<1>3. /\ UpTo(k - 1) \in Nat /\ UpTo(k) \in Nat /\ pills \in Nat
      /\ UpTo(k) = UpTo(k - 1) + Cardinality(WorkersOf(s))
      /\ Cardinality(WorkersOf(s)) \in Nat
  BY <1>2, UpToFits, ConstantsFit DEF TypeOK
<1>4. Given(k) < Cardinality(WorkersOf(s))
  BY <1>1, <1>3 DEF Given
<1>5. Cardinality(StoppedOf(s)) < Cardinality(WorkersOf(s))
  <2>1. Cardinality(PillsAt(s)) + Cardinality(StoppedOf(s)) = Given(k)
    BY DEF PillsPlaced
  <2> QED BY <1>2, <1>3, <1>4, <2>1, PillPlacesFinite
<1>6. StoppedOf(s) # WorkersOf(s)
  BY <1>3, <1>5
<1> QED BY <1>1, <1>2, <1>6 DEF StoppedOf, WorkersOf

LEMMA NeverStuck == BusInv /\ CloseInv => CloseNeverStuck
<1> SUFFICES ASSUME BusInv, CloseInv, phase = "closing",
                    ~ThreadFree \/ pool = <<>>,
                    \A w \in Workers : pc[w] \notin {"handling", "dead"}
             PROVE  \/ pills < PillsOwed /\ Fits(NextPill)
                    \/ pills = PillsOwed /\ \A w \in Workers : pc[w] = "stopped"
                    \/ \E w \in Workers : pc[w] = "idle" /\ queue[SubOf[w]] # <<>>
  BY DEF CloseNeverStuck
<1>1. TypeOK /\ PillsPlaced
  BY DEF BusInv, CloseInv
<1>2. pool = <<>>
  BY <1>1, BusyThread
<1>3. \A w \in Workers : pc[w] \in {"idle", "stopped"}
  BY <1>1, <1>2 DEF TypeOK, CloseInv, WorkersBegun, PooledInPool
<1>4. CASE pills = PillsOwed
  BY <1>1, <1>3, <1>4, PillAwaits
<1>5. CASE pills < PillsOwed /\ ~Fits(NextPill)
  <2>1. PICK w \in Workers : SubOf[w] = NextPill /\ pc[w] # "stopped"
    BY <1>1, <1>5, NextPillHasWorker
  <2>2. NextPill \in Subs /\ QueueSize[NextPill] \in Nat \ {0}
    BY <1>1, <1>5, NextPillHasWorker, ConstantsFit
  <2>3. queue[NextPill] # <<>>
    BY <1>5, <2>2 DEF Fits
  <2> QED BY <1>3, <2>1, <2>3
<1>6. pills < PillsOwed \/ pills = PillsOwed
  BY <1>1, ConstantsFit DEF TypeOK
<1> QED BY <1>4, <1>5, <1>6

(***************************************************************************)
(* close() can always go on: every pill it has put is in its queue or has  *)
(* stopped a worker, so a worker without one has something to take.        *)
(***************************************************************************)
THEOREM AlwaysFreeToClose == Spec => []CloseNeverStuck
<1>1. Spec => [](BusInv /\ CloseInv)
  BY InitClose, NextKeepsClose, BusInvariant, PTL DEF Spec
<1> QED BY <1>1, NeverStuck, PTL

=============================================================================
