------------------------- MODULE ToolBulkhead_proofs -------------------------
(***************************************************************************)
(* Proofs about ToolBulkhead for any number of calls and tools and any     *)
(* max_concurrency.                                                        *)
(***************************************************************************)
EXTENDS ToolBulkhead, SequenceFacts

-----------------------------------------------------------------------------
(* The inductive invariant.                                                *)

Distinct(s) == \A i, j \in 1..Len(s) : s[i] = s[j] => i = j

(* A call has its tool once it has begun; only calls inside have functions. *)
CallsFit ==
  \A c \in Calls : /\ pc[c] # "new" => tool[c] \in Tools
                   /\ c \in running => pc[c] \in {"executing", "over"}

(* Who waits for a permit waits in the queue of its own tool, once. *)
WaitersFit ==
  \A t \in Tools :
    /\ Distinct(waiters[t])
    /\ \A c : Holds(waiters[t], c) => tool[c] = t /\ pc[c] = "waiting"

(* A queued job belongs to a call that executes and has not begun. *)
JobsFit ==
  \A t \in Tools :
    /\ Distinct(work[t])
    /\ \A c : Holds(work[t], c) => /\ tool[c] = t /\ pc[c] = "executing"
                                   /\ c \notin running
    /\ t \in shut => work[t] = <<>>

Executing(t) == Cardinality(At(t, "executing"))
Woken(t) == Cardinality(At(t, "woken"))

(***************************************************************************)
(* n permits, e calls that execute, w woken and l waiting fit one another. *)
(* The early semaphore wakes a call for every permit that comes back.      *)
(***************************************************************************)
Fits(n, e, w, l) ==
  /\ fifo => n + e + w = Limit /\ (n > 0 /\ l > 0 => w > 0)
  /\ ~fifo => n + e = Limit /\ (n > 0 /\ l > 0 => w >= n)

(* The permits as PermitsConserved has them, with the queue for the calls. *)
PermitsKept ==
  \A t \in Tools : Fits(free[t], Executing(t), Woken(t), Len(waiters[t]))

BulkheadInv ==
  /\ TypeOK
  /\ CallsFit
  /\ WaitersFit
  /\ JobsFit
  /\ PermitsKept

(* Who waits is in the queue; an invariant beside BulkheadInv. *)
WaitersQueued ==
  \A c \in Calls : pc[c] = "waiting" => Holds(waiters[tool[c]], c)

-----------------------------------------------------------------------------
(* Queues.                                                                 *)

LEMMA NothingHeld == \A x : ~Holds(<<>>, x)
  BY DEF Holds

LEMMA HeldIsMember ==
  ASSUME NEW S, NEW s \in Seq(S), NEW x, Holds(s, x)
  PROVE  x \in S
  BY DEF Holds

(* A queue without one of its members. *)
LEMMA WithoutHolds ==
  ASSUME NEW S, NEW s \in Seq(S), NEW c, Distinct(s)
  PROVE  /\ Without(s, c) \in Seq(S) /\ Distinct(Without(s, c))
         /\ \A x : Holds(Without(s, c), x) => x # c /\ Holds(s, x)
         /\ s = <<>> => Without(s, c) = <<>>
<1> DEFINE rest == Without(s, c)
<1>1. CASE ~Holds(s, c)
  BY <1>1 DEF Without, Holds, Distinct
<1>2. CASE Holds(s, c)
  <2>1. PICK k \in 1..Len(s) : s[k] = c /\ rest = RemoveAt(s, k)
    BY <1>2 DEF Holds, Without
  <2>2. /\ rest \in Seq(S) /\ Len(rest) = Len(s) - 1
        /\ \A j \in 1..Len(s) - 1 : /\ j < k => rest[j] = s[j]
                                    /\ j >= k => rest[j] = s[j + 1]
    BY <2>1, RemoveAtElements
  <2>3. Len(s) \in Nat /\ s # <<>>
    BY <1>2 DEF Holds
  <2> HIDE DEF rest
  <2> DEFINE at(n) == IF n < k THEN n ELSE n + 1
  <2>4. \A n \in 1..Len(rest) :
          at(n) \in 1..Len(s) /\ rest[n] = s[at(n)] /\ at(n) # k
    BY <2>2, <2>3
  <2>5. ASSUME NEW i \in 1..Len(rest), NEW j \in 1..Len(rest), rest[i] = rest[j]
        PROVE  i = j
    <3>1. at(i) = at(j)
      BY <2>4, <2>5 DEF Distinct
    <3> QED BY <2>2, <2>3, <3>1
  <2> HIDE DEF at
  <2>6. \A x : Holds(rest, x) => x # c /\ Holds(s, x)
    BY <2>1, <2>4 DEF Holds, Distinct
  <2> QED BY <2>2, <2>3, <2>5, <2>6 DEF Distinct, rest
<1> QED BY <1>1, <1>2

(* Taking one call out of a queue leaves the others in it. *)
LEMMA WithoutKeeps ==
  ASSUME NEW S, NEW s \in Seq(S), NEW c, NEW x, x # c, Holds(s, x)
  PROVE  Holds(Without(s, c), x)
<1>1. CASE ~Holds(s, c)
  BY <1>1 DEF Without
<1>2. CASE Holds(s, c)
  <2>1. PICK k \in 1..Len(s) : s[k] = c /\ Without(s, c) = RemoveAt(s, k)
    BY <1>2 DEF Holds, Without
  <2>2. /\ Len(RemoveAt(s, k)) = Len(s) - 1
        /\ \A j \in 1..Len(s) - 1 : /\ j < k => RemoveAt(s, k)[j] = s[j]
                                    /\ j >= k => RemoveAt(s, k)[j] = s[j + 1]
    BY <2>1, RemoveAtElements
  <2>3. PICK i \in 1..Len(s) : s[i] = x
    BY DEF Holds
  <2>4. i # k /\ Len(s) \in Nat
    BY <2>1, <2>3
  <2>5. CASE i < k
    <3>1. i \in 1..Len(s) - 1 /\ RemoveAt(s, k)[i] = x
      BY <2>2, <2>3, <2>4, <2>5
    <3> QED BY <2>1, <2>2, <3>1 DEF Holds
  <2>6. CASE i > k
    <3>1. i - 1 \in 1..Len(s) - 1 /\ i - 1 >= k /\ i - 1 + 1 = i
      BY <2>4, <2>6
    <3>2. RemoveAt(s, k)[i - 1] = x
      BY <2>2, <2>3, <3>1
    <3> QED BY <2>1, <2>2, <3>1, <3>2 DEF Holds
  <2> QED BY <2>4, <2>5, <2>6
<1> QED BY <1>1, <1>2

(* A queue without its head. *)
LEMMA TailHolds ==
  ASSUME NEW S, NEW s \in Seq(S), s # <<>>, Distinct(s)
  PROVE  /\ Tail(s) \in Seq(S) /\ Distinct(Tail(s))
         /\ Head(s) \in S /\ Holds(s, Head(s))
         /\ \A x : Holds(Tail(s), x) => x # Head(s) /\ Holds(s, x)
<1>1. /\ Tail(s) \in Seq(S) /\ Len(Tail(s)) = Len(s) - 1
      /\ Head(s) = s[1] /\ 1 \in 1..Len(s)
      /\ \A i \in 1..Len(Tail(s)) : i + 1 \in 1..Len(s) /\ Tail(s)[i] = s[i + 1]
  BY TailElements
<1>2. Len(s) \in Nat
  OBVIOUS
<1> QED BY <1>1, <1>2 DEF Distinct, Holds

(* A queue with a newcomer. *)
LEMMA AppendHolds ==
  ASSUME NEW S, NEW s \in Seq(S), NEW c \in S, ~Holds(s, c), Distinct(s)
  PROVE  /\ Append(s, c) \in Seq(S) /\ Distinct(Append(s, c)) /\ Append(s, c) # <<>>
         /\ \A x : Holds(Append(s, c), x) => x = c \/ Holds(s, x)
<1>1. /\ Append(s, c) \in Seq(S) /\ Len(Append(s, c)) = Len(s) + 1
      /\ \A i \in 1..Len(s) : i \in 1..Len(s) + 1 /\ Append(s, c)[i] = s[i]
      /\ Append(s, c)[Len(s) + 1] = c
      /\ \A i \in 1..Len(s) + 1 : i \in 1..Len(s) \/ i = Len(s) + 1
  BY AppendElements
<1>2. Len(s) \in Nat
  OBVIOUS
<1> QED BY <1>1, <1>2 DEF Distinct, Holds

-----------------------------------------------------------------------------
(* Permits.                                                                *)

LEMMA AtFinite ==
  ASSUME NEW t, NEW p
  PROVE  IsFiniteSet(At(t, p)) /\ Cardinality(At(t, p)) \in Nat
<1>1. At(t, p) \subseteq Calls
  BY DEF At, Of
<1> QED BY <1>1, ToolsAssumption, FS_Subset, FS_CardinalityType

LEMMA CountsFinite ==
  ASSUME NEW t
  PROVE  /\ Executing(t) \in Nat /\ Woken(t) \in Nat
         /\ Executing(t)' \in Nat /\ Woken(t)' \in Nat
<1>1. Executing(t) \in Nat /\ Woken(t) \in Nat
  BY AtFinite DEF Executing, Woken
<1>2. At(t, "executing")' \subseteq Calls /\ At(t, "woken")' \subseteq Calls
  BY DEF At, Of
<1>3. /\ Cardinality(At(t, "executing")') \in Nat
      /\ Cardinality(At(t, "woken")') \in Nat
  BY <1>2, ToolsAssumption, FS_Subset, FS_CardinalityType
<1> QED BY <1>1, <1>3 DEF Executing, Woken

(* The first k calls of a queue are k calls. *)
LEMMA FirstCalls ==
  ASSUME NEW q \in Seq(Calls), Distinct(q), NEW k \in 0..Len(q)
  PROVE  IsFiniteSet({q[i] : i \in 1..k}) /\ Cardinality({q[i] : i \in 1..k}) = k
<1> DEFINE first == {q[i] : i \in 1..k}
           f == [i \in 1..k |-> q[i]]
<1>1. k \in Nat /\ \A i \in 1..k : i \in 1..Len(q)
  OBVIOUS
<1>2. f \in [1..k -> first] /\ \A i, j \in 1..k : f[i] = f[j] => i = j
  BY <1>1 DEF Distinct
<1>3. \A x \in first : \E i \in 1..k : f[i] = x
  OBVIOUS
<1> HIDE DEF f, first
<1>4. f \in Bijection(1..k, first)
  BY <1>2, <1>3 DEF Bijection, Injection, Surjection, IsInjective
<1>5. IsFiniteSet(first) /\ Cardinality(first) = Cardinality(1..k)
  BY <1>1, <1>4, FirstNumbers, FS_Bijection DEF ExistsBijection
<1> QED BY <1>1, <1>5, FirstNumbers DEF first

(* Call c goes on to p, and others at most from waiting to being woken. *)
Onward(c, p) ==
  /\ pc'[c] = p
  /\ \A d \in Calls \ {c} : \/ pc'[d] = pc[d]
                            \/ pc[d] = "waiting" /\ pc'[d] = "woken"

(* ... and the variables of the semaphores keep their types. *)
Moved(c, p) ==
  /\ Onward(c, p)
  /\ pc' \in [Calls -> {"new", "waiting", "woken", "executing", "over"}]
  /\ free' \in [Tools -> 0..Limit] /\ waiters' \in [Tools -> Seq(Calls)]

(* What the actions move, and how. *)
MoveFits(c, p, q, k) ==
  LET w == waiters[tool[c]]
  IN  /\ pc[c] \in {"waiting", "woken", "executing"}
      /\ p \in {"waiting", "executing", "over"}
      /\ q \in Seq(Calls) /\ Distinct(q) /\ k \in 0..Len(q)
      /\ \A x : Holds(q, x) => (IF x = c THEN p = "waiting" ELSE Holds(w, x))
      /\ \A x : Holds(w, x) /\ x # c => Holds(q, x)
      /\ p = "waiting" => k = 0 /\ Holds(q, c)

(* A call that does not wait leaves the queue to the others. *)
LEMMA QueueFits ==
  ASSUME BulkheadInv, NEW c \in Calls, pc[c] \in {"woken", "executing"},
         NEW k \in 0..Len(waiters[tool[c]]), NEW p \in {"executing", "over"}
  PROVE  MoveFits(c, p, waiters[tool[c]], k)
<1>1. tool[c] \in Tools /\ waiters[tool[c]] \in Seq(Calls)
  BY DEF BulkheadInv, CallsFit, TypeOK
<1>2. Distinct(waiters[tool[c]]) /\ ~Holds(waiters[tool[c]], c)
  BY <1>1 DEF BulkheadInv, WaitersFit
<1> QED BY <1>1, <1>2 DEF MoveFits

(* Where a move leaves the calls and the queues. *)
LEMMA MovePlaces ==
  ASSUME BulkheadInv, NEW c \in Calls, NEW p, NEW q, NEW f, NEW k,
         MoveFits(c, p, q, k), Move(c, p, q, f, k), UNCHANGED tool
  PROVE  LET t == tool[c]
             first == {q[i] : i \in 1..k}
         IN  /\ t \in Tools
             /\ waiters'[t] = SubSeq(q, k + 1, Len(q))
             /\ \A s \in Tools \ {t} : waiters'[s] = waiters[s]
             /\ waiters' \in [Tools -> Seq(Calls)]
             /\ \A x \in first : /\ x \in Calls /\ x # c /\ tool[x] = t
                                 /\ pc[x] = "waiting" /\ Holds(q, x)
             /\ pc' \in [Calls -> {"new", "waiting", "woken", "executing", "over"}]
             /\ pc'[c] = p
             /\ \A d \in Calls \ {c} :
                  pc'[d] = IF d \in first THEN "woken" ELSE pc[d]
<1> DEFINE t == tool[c]
           first == {q[i] : i \in 1..k}
<1>1. TypeOK /\ t \in Tools
  BY DEF BulkheadInv, CallsFit, MoveFits
<1>2. /\ q \in Seq(Calls) /\ Len(q) \in Nat /\ k \in 0..Len(q)
      /\ p = "waiting" => k = 0
  BY DEF MoveFits
<1>3. SubSeq(q, k + 1, Len(q)) \in Seq(Calls)
  BY <1>2, DropElements
<1>4. ASSUME NEW x \in first
      PROVE  /\ x \in Calls /\ x # c /\ tool[x] = t /\ pc[x] = "waiting"
             /\ Holds(q, x)
  <2>1. PICK i \in 1..k : x = q[i]
    OBVIOUS
  <2>2. i \in 1..Len(q) /\ k # 0 /\ Holds(q, x)
    BY <1>2, <2>1 DEF Holds
  <2>3. x # c /\ Holds(waiters[t], x)
    BY <1>2, <2>2 DEF MoveFits
  <2> QED BY <1>1, <2>2, <2>3, HeldIsMember DEF BulkheadInv, WaitersFit, TypeOK
<1>5. /\ pc' = [d \in Calls |-> IF d = c THEN p
                               ELSE IF d \in first THEN "woken" ELSE pc[d]]
      /\ waiters' = [waiters EXCEPT ![t] = SubSeq(q, k + 1, Len(q))]
  BY DEF Move
<1> HIDE DEF first
<1>6. waiters' \in [Tools -> Seq(Calls)]
  BY <1>1, <1>3, <1>5 DEF TypeOK
<1>7. pc' \in [Calls -> {"new", "waiting", "woken", "executing", "over"}]
  BY <1>1, <1>5 DEF TypeOK, MoveFits
<1> QED BY <1>1, <1>4, <1>5, <1>6, <1>7 DEF TypeOK, first

(* Who waits after a move is queued, and only they are. *)
LEMMA MoveQueues ==
  ASSUME BulkheadInv, NEW c \in Calls, NEW p, NEW q, NEW f, NEW k,
         MoveFits(c, p, q, k), Move(c, p, q, f, k), UNCHANGED tool
  PROVE  WaitersFit' /\ (WaitersQueued => WaitersQueued')
<1> DEFINE t == tool[c]
           first == {q[i] : i \in 1..k}
           rest == SubSeq(q, k + 1, Len(q))
<1>1. /\ t \in Tools /\ waiters'[t] = rest
      /\ \A s \in Tools \ {t} : waiters'[s] = waiters[s]
      /\ \A x \in first : x \in Calls /\ x # c /\ tool[x] = t
      /\ pc'[c] = p
      /\ \A d \in Calls \ {c} : pc'[d] = IF d \in first THEN "woken" ELSE pc[d]
  BY MovePlaces
<1>2. /\ q \in Seq(Calls) /\ Len(q) \in Nat /\ k \in 0..Len(q) /\ Distinct(q)
      /\ \A x : Holds(q, x) => (IF x = c THEN p = "waiting" ELSE Holds(waiters[t], x))
      /\ \A x : Holds(waiters[t], x) /\ x # c => Holds(q, x)
      /\ p = "waiting" => k = 0 /\ Holds(q, c)
      /\ p \in {"waiting", "executing", "over"}
  BY DEF MoveFits
<1>3. /\ rest \in Seq(Calls) /\ Len(rest) = Len(q) - k
      /\ \A i \in 1..Len(q) - k : rest[i] = q[i + k] /\ i + k \in 1..Len(q)
  BY <1>2, DropElements
<1>4. \A x : Holds(rest, x) <=> Holds(q, x) /\ x \notin first
  <2>1. ASSUME NEW x, Holds(rest, x) PROVE Holds(q, x) /\ x \notin first
    <3>1. PICK i \in 1..Len(q) - k : x = q[i + k] /\ i + k \in 1..Len(q)
      BY <1>3, <2>1 DEF Holds
    <3>2. ASSUME NEW j \in 1..k, q[j] = x PROVE FALSE
      BY <1>2, <3>1, <3>2 DEF Distinct
    <3> QED BY <3>1, <3>2 DEF Holds
  <2>2. ASSUME NEW x, Holds(q, x), x \notin first PROVE Holds(rest, x)
    <3>1. PICK i \in 1..Len(q) : q[i] = x
      BY <2>2 DEF Holds
    <3>2. i \notin 1..k
      BY <2>2, <3>1
    <3>3. i - k \in 1..Len(q) - k /\ (i - k) + k = i
      BY <1>2, <3>1, <3>2
    <3> QED BY <1>3, <3>1, <3>3 DEF Holds
  <2> QED BY <2>1, <2>2
<1>5. Distinct(rest)
  BY <1>2, <1>3 DEF Distinct
<1> HIDE DEF rest, first
<1>6. WaitersFit'
  <2>1. ASSUME NEW s \in Tools, NEW x, Holds(waiters'[s], x)
        PROVE  tool'[x] = s /\ pc'[x] = "waiting"
    <3>1. CASE s = t /\ x = c
      BY <1>1, <1>2, <1>4, <2>1, <3>1
    <3>2. CASE s = t /\ x # c
      <4>1. Holds(waiters[t], x) /\ x \notin first
        BY <1>1, <1>2, <1>4, <2>1, <3>2
      <4>2. x \in Calls /\ tool[x] = t /\ pc[x] = "waiting"
        BY <1>1, <4>1, HeldIsMember DEF BulkheadInv, WaitersFit, TypeOK
      <4> QED BY <1>1, <3>2, <4>1, <4>2
    <3>3. CASE s # t
      <4>1. x \in Calls /\ tool[x] = s /\ pc[x] = "waiting"
        BY <1>1, <2>1, <3>3, HeldIsMember DEF BulkheadInv, WaitersFit, TypeOK
      <4> QED BY <1>1, <3>3, <4>1
    <3> QED BY <3>1, <3>2, <3>3
  <2>2. \A s \in Tools : Distinct(waiters'[s])
    BY <1>1, <1>5 DEF BulkheadInv, WaitersFit
  <2> QED BY <2>1, <2>2 DEF WaitersFit
<1>7. ASSUME WaitersQueued, NEW d \in Calls, pc'[d] = "waiting"
      PROVE  Holds(waiters'[tool'[d]], d)
  <2>1. CASE d = c
    BY <1>1, <1>2, <1>4, <1>7, <2>1
  <2>2. CASE d # c
    <3>1. d \notin first /\ pc[d] = "waiting" /\ tool[d] \in Tools
      BY <1>1, <1>7, <2>2 DEF BulkheadInv, CallsFit
    <3>2. Holds(waiters[tool[d]], d)
      BY <1>7, <3>1 DEF WaitersQueued
    <3> QED BY <1>1, <1>2, <1>4, <2>2, <3>1, <3>2
  <2> QED BY <2>1, <2>2
<1> QED BY <1>6, <1>7 DEF WaitersQueued

(* How a move changes the numbers of calls that execute and are woken. *)
LEMMA MoveCounts ==
  ASSUME BulkheadInv, NEW c \in Calls, NEW p, NEW q, NEW f, NEW k,
         MoveFits(c, p, q, k), Move(c, p, q, f, k), UNCHANGED tool
  PROVE  LET t == tool[c]
             one(b) == IF b THEN 1 ELSE 0
         IN  /\ Executing(t)' = Executing(t) - one(pc[c] = "executing")
                                             + one(p = "executing")
             /\ Woken(t)' = Woken(t) - one(pc[c] = "woken") + k
             /\ pc[c] = "woken" => Woken(t) > 0
             /\ \A s \in Tools \ {t} :
                  Executing(s)' = Executing(s) /\ Woken(s)' = Woken(s)
<1> DEFINE t == tool[c]
           first == {q[i] : i \in 1..k}
<1>1. /\ t \in Tools
      /\ \A x \in first : /\ x \in Calls /\ x # c /\ tool[x] = t
                          /\ pc[x] = "waiting"
      /\ pc'[c] = p
      /\ \A d \in Calls \ {c} : pc'[d] = IF d \in first THEN "woken" ELSE pc[d]
  BY MovePlaces
<1>2. /\ p \in {"waiting", "executing", "over"} /\ k \in Nat
      /\ IsFiniteSet(first) /\ Cardinality(first) = k
  <2>1. /\ p \in {"waiting", "executing", "over"} /\ q \in Seq(Calls)
        /\ Distinct(q) /\ k \in 0..Len(q) /\ Len(q) \in Nat
    BY DEF MoveFits
  <2>2. IsFiniteSet({q[i] : i \in 1..k}) /\ Cardinality({q[i] : i \in 1..k}) = k
    BY <2>1, FirstCalls, Zenon
  <2> QED BY <2>1, <2>2
<1> HIDE DEF first
<1>3. At(t, "executing")' = IF p = "executing" THEN At(t, "executing") \cup {c}
                            ELSE At(t, "executing") \ {c}
  BY <1>1 DEF At, Of
<1>4. Executing(t)' = IF p = "executing" THEN Cardinality(At(t, "executing") \cup {c})
                      ELSE Cardinality(At(t, "executing") \ {c})
  BY <1>3 DEF Executing
<1>5. c \in At(t, "executing") <=> pc[c] = "executing"
  BY DEF At, Of
<1>6. Executing(t)' = Executing(t) - (IF pc[c] = "executing" THEN 1 ELSE 0)
                                   + (IF p = "executing" THEN 1 ELSE 0)
  <2>1. IsFiniteSet(At(t, "executing")) /\ Executing(t) \in Nat
    BY AtFinite, CountsFinite
  <2>2. Cardinality(At(t, "executing") \cup {c})
          = IF pc[c] = "executing" THEN Executing(t) ELSE Executing(t) + 1
    BY <1>5, <2>1, FS_AddElement DEF Executing
  <2>3. Cardinality(At(t, "executing") \ {c})
          = IF pc[c] = "executing" THEN Executing(t) - 1 ELSE Executing(t)
    BY <1>5, <2>1, FS_RemoveElement DEF Executing
  <2> QED BY <1>4, <2>1, <2>2, <2>3
<1>7. At(t, "woken")' = (At(t, "woken") \ {c}) \cup first
  BY <1>1, <1>2 DEF At, Of
<1>8. (At(t, "woken") \ {c}) \cap first = {}
  BY <1>1 DEF At, Of
<1>9. /\ IsFiniteSet(At(t, "woken") \ {c})
      /\ Cardinality(At(t, "woken") \ {c})
           = Woken(t) - (IF pc[c] = "woken" THEN 1 ELSE 0)
      /\ Cardinality(At(t, "woken") \ {c}) \in Nat
  <2>1. c \in At(t, "woken") <=> pc[c] = "woken"
    BY DEF At, Of
  <2> QED BY <2>1, AtFinite, FS_RemoveElement, FS_CardinalityType DEF Woken
<1>10. Woken(t)' = Woken(t) - (IF pc[c] = "woken" THEN 1 ELSE 0) + k
  <2> DEFINE A == At(t, "woken") \ {c}
  <2>0. IsFiniteSet(A) /\ A \cap first = {}
    BY <1>8, <1>9
  <2> HIDE DEF A
  <2>a. /\ Cardinality(A \cup first)
             = Cardinality(A) + Cardinality(first) - Cardinality(A \cap first)
        /\ Cardinality(A \cap first) = 0
    BY <1>2, <2>0, FS_Union, FS_EmptySet
  <2>1. Cardinality((At(t, "woken") \ {c}) \cup first)
          = Cardinality(At(t, "woken") \ {c}) + k - 0
    BY <1>2, <2>a DEF A
  <2>2. Woken(t)' = Cardinality((At(t, "woken") \ {c}) \cup first)
    BY <1>7 DEF Woken
  <2> QED BY <1>2, <1>9, <2>1, <2>2, CountsFinite
<1>11. \A s \in Tools \ {t} : \A x : At(s, x)' = At(s, x)
  BY <1>1 DEF At, Of
<1>12. \A s \in Tools \ {t} : Executing(s)' = Executing(s) /\ Woken(s)' = Woken(s)
  BY <1>11 DEF Executing, Woken
<1> QED BY <1>6, <1>9, <1>10, <1>12, CountsFinite

(* A move keeps the invariant if the numbers of its tool fit. *)
LEMMA MoveKeeps ==
  ASSUME BulkheadInv, NEW c \in Calls, NEW p, NEW q, NEW f, NEW k \in Nat,
         MoveFits(c, p, q, k), Move(c, p, q, f, k), UNCHANGED <<tool, fifo>>,
         NEW n \in Nat, fifo => n = f - k, ~fifo => n = f,
         Fits(n, Executing(tool[c])', Woken(tool[c])', Len(q) - k)
  PROVE  Moved(c, p) /\ WaitersFit' /\ PermitsKept'
<1> DEFINE t == tool[c]
<1>1. /\ free \in [Tools -> 0..Limit] /\ Limit \in Nat
      /\ free' = [free EXCEPT ![t] = n]
  BY LimitAssumption DEF BulkheadInv, TypeOK, Move
<1>2. t \in Tools /\ waiters'[t] = SubSeq(q, k + 1, Len(q))
      /\ (\A s \in Tools \ {t} : waiters'[s] = waiters[s])
      /\ \A s \in Tools \ {t} : Executing(s)' = Executing(s) /\ Woken(s)' = Woken(s)
  BY MovePlaces, MoveCounts
<1>3. Executing(t)' \in Nat /\ Woken(t)' \in Nat
  BY CountsFinite
<1>4. n \in 0..Limit
  BY <1>1, <1>3 DEF Fits
<1>5. free' \in [Tools -> 0..Limit]
  BY <1>1, <1>4
<1>6. Len(waiters'[t]) = Len(q) - k
  BY <1>2, DropElements DEF MoveFits
<1>7. Fits(free[t]', Executing(t)', Woken(t)', Len(waiters[t]'))
  BY <1>1, <1>2, <1>6 DEF Fits
<1>8. ASSUME NEW s \in Tools \ {t}
      PROVE  Fits(free[s]', Executing(s)', Woken(s)', Len(waiters[s]'))
  <2>1. Fits(free[s], Executing(s), Woken(s), Len(waiters[s]))
    BY DEF BulkheadInv, PermitsKept
  <2> QED BY <1>1, <1>2, <2>1 DEF Fits
<1>9. PermitsKept'
  BY <1>7, <1>8 DEF PermitsKept, Fits
<1>10. Onward(c, p)
  <2>1. /\ pc'[c] = p
        /\ \A x \in {q[i] : i \in 1..k} : pc[x] = "waiting"
        /\ \A d \in Calls \ {c} :
             pc'[d] = IF d \in {q[i] : i \in 1..k} THEN "woken" ELSE pc[d]
    BY MovePlaces
  <2> DEFINE first == {q[i] : i \in 1..k}
  <2> HIDE DEF first
  <2>2. /\ pc'[c] = p /\ \A x \in first : pc[x] = "waiting"
        /\ \A d \in Calls \ {c} : pc'[d] = IF d \in first THEN "woken" ELSE pc[d]
    BY <2>1 DEF first
  <2> QED BY <2>2 DEF Onward
<1> QED BY <1>5, <1>9, <1>10, MovePlaces, MoveQueues DEF Moved

(* What the numbers of a tool are. *)
LEMMA Numbers ==
  ASSUME BulkheadInv, NEW t \in Tools
  PROVE  /\ free[t] \in Nat /\ waiters[t] \in Seq(Calls) /\ Len(waiters[t]) \in Nat
         /\ Executing(t) \in Nat /\ Woken(t) \in Nat /\ Limit \in Nat
         /\ Fits(free[t], Executing(t), Woken(t), Len(waiters[t]))
<1>1. TypeOK /\ PermitsKept /\ Limit \in Nat
  BY LimitAssumption DEF BulkheadInv
<1> QED BY <1>1, CountsFinite DEF TypeOK, PermitsKept

(* One call fewer executes, its permit is back, and k calls are woken for it. *)
LEMMA LeavingFits ==
  ASSUME NEW n \in Nat, NEW e \in Nat, NEW w \in Nat, NEW l \in Nat, NEW k \in 0..l,
         k <= 1, l > 0 => k = 1, Fits(n, e, w, l)
  PROVE  Fits(IF fifo THEN n + 1 - k ELSE n + 1, e - 1, w + k, l - k)
<1>1. Limit \in Nat
  BY LimitAssumption
<1> QED BY <1>1 DEF Fits

(* A woken call goes, with the permit it holds if any, and k calls are woken. *)
LEMMA WokenLeavesFits ==
  ASSUME NEW n \in Nat, NEW e \in Nat, NEW w \in Nat, NEW l \in Nat, NEW k \in 0..l,
         w > 0, ~fifo => k <= 1, Fits(n, e, w, l),
         k <= IF fifo THEN n + 1 ELSE n,
         fifo \/ n > 0 => (k < l => k > 0)
  PROVE  Fits(IF fifo THEN n + 1 - k ELSE n, e, w - 1 + k, l - k)
<1>1. Limit \in Nat
  BY LimitAssumption
<1> QED BY <1>1 DEF Fits

(* One of l calls that wait goes; the first k of the m others are woken. *)
LEMMA WaiterLeavesFits ==
  ASSUME NEW n \in Nat, NEW e \in Nat, NEW w \in Nat, NEW l \in Nat, NEW m \in Nat,
         NEW k \in 0..m, k <= n, ~fifo => k = 0, m > 0 => l > 0, Fits(n, e, w, l)
  PROVE  Fits(IF fifo THEN n - k ELSE n, e, w + k, m - k)
<1>1. Limit \in Nat
  BY LimitAssumption
<1> QED BY <1>1 DEF Fits

(* A call that leaves returns its permit and wakes one that waits. *)
LEMMA LeaveKeeps ==
  ASSUME BulkheadInv, NEW c \in Calls, pc[c] = "executing", Leave(c),
         UNCHANGED <<tool, fifo>>
  PROVE  Moved(c, "over") /\ WaitersFit' /\ PermitsKept'
<1> DEFINE t == tool[c]
           q == waiters[t]
           f == free[t] + 1
           k == One(q, f)
           n == IF fifo THEN f - k ELSE f
<1>1. t \in Tools
  BY DEF BulkheadInv, CallsFit
<1>2. /\ free[t] \in Nat /\ q \in Seq(Calls) /\ Len(q) \in Nat
      /\ Executing(t) \in Nat /\ Woken(t) \in Nat /\ Limit \in Nat
      /\ Fits(free[t], Executing(t), Woken(t), Len(q))
  BY <1>1, Numbers
<1>3. k \in 0..Len(q) /\ k <= 1 /\ (Len(q) > 0 => k = 1) /\ k \in Nat
  BY <1>2 DEF One
<1>4. /\ n = (IF fifo THEN free[t] + 1 - k ELSE free[t] + 1) /\ n \in Nat
      /\ (fifo => n = f - k) /\ (~fifo => n = f)
  BY <1>2, <1>3
<1>5. Move(c, "over", q, f, k)
  BY DEF Leave
<1>6. MoveFits(c, "over", q, k)
  BY <1>3, QueueFits
<1>7. Executing(t)' = Executing(t) - 1 /\ Woken(t)' = Woken(t) + k
  <2>1. Woken(t)' = Woken(t) - 0 + k
    BY <1>5, <1>6, MoveCounts
  <2> QED BY <1>2, <1>3, <1>5, <1>6, <2>1, MoveCounts
<1> HIDE DEF q, f, k, n
<1>8. Fits(IF fifo THEN free[t] + 1 - k ELSE free[t] + 1,
           Executing(t) - 1, Woken(t) + k, Len(q) - k)
  BY <1>2, <1>3, LeavingFits
<1>9. Fits(n, Executing(t)', Woken(t)', Len(q) - k)
  BY <1>4, <1>7, <1>8
<1> QED BY <1>3, <1>4, <1>5, <1>6, <1>9, MoveKeeps

-----------------------------------------------------------------------------
(* Jobs.                                                                   *)

(* A call that executes from now on starts its function or queues its job. *)
LEMMA InvokeKeeps ==
  ASSUME BulkheadInv, NEW c \in Calls, NEW t \in Tools, Invoke(c, t),
         pc[c] \in {"new", "waiting", "woken"}, c \notin running,
         tool'[c] = t, \A d \in Calls \ {c} : tool'[d] = tool[d],
         Onward(c, "executing"), UNCHANGED closeVars
  PROVE  /\ work' \in [Tools -> Seq(Calls)] /\ running' \subseteq Calls
         /\ running' \subseteq running \cup {c}
         /\ JobsFit'
<1>1. /\ work \in [Tools -> Seq(Calls)] /\ running \subseteq Calls
      /\ shut \subseteq ThreadTools /\ ThreadTools \subseteq Tools
      /\ pc \in [Calls -> {"new", "waiting", "woken", "executing", "over"}]
  BY ToolsAssumption DEF BulkheadInv, TypeOK
<1>2. \A s \in Tools : \A x : Holds(work[s], x) =>
        /\ x \in Calls /\ x # c /\ tool[x] = s /\ pc[x] = "executing"
        /\ x \notin running
  BY <1>1, HeldIsMember DEF BulkheadInv, JobsFit
<1>3. \A s \in Tools : \A x : Holds(work[s], x) => tool'[x] = s /\ pc'[x] = "executing"
  BY <1>1, <1>2 DEF Onward
<1>4. \A s \in Tools : Distinct(work[s]) /\ (s \in shut => work[s] = <<>>)
  BY DEF BulkheadInv, JobsFit
<1>5. CASE t \notin ThreadTools
  <2>1. running' = running \cup {c} /\ UNCHANGED work
    BY <1>1, <1>5 DEF Invoke
  <2> QED BY <1>1, <1>2, <1>3, <1>4, <2>1 DEF JobsFit, closeVars
<1>6. CASE t \in ThreadTools /\ t \in shut
  <2>1. UNCHANGED <<running, work>>
    BY <1>6 DEF Invoke
  <2> QED BY <1>1, <1>2, <1>3, <1>4, <2>1 DEF JobsFit, closeVars
<1>7. CASE t \in ThreadTools /\ t \notin shut
  <2>1. work' = [work EXCEPT ![t] = Append(@, c)] /\ UNCHANGED running
    BY <1>7 DEF Invoke
  <2>2. /\ Append(work[t], c) \in Seq(Calls) /\ Distinct(Append(work[t], c))
        /\ \A x : Holds(Append(work[t], c), x) => x = c \/ Holds(work[t], x)
    BY <1>1, <1>2, <1>4, AppendHolds
  <2>3. pc'[c] = "executing"
    BY DEF Onward
  <2>4. \A s \in Tools : work'[s] = IF s = t THEN Append(work[t], c) ELSE work[s]
    BY <1>1, <2>1
  <2>5. \A s \in Tools : \A x : Holds(work'[s], x) =>
          tool'[x] = s /\ pc'[x] = "executing" /\ x \notin running'
    BY <1>2, <1>3, <2>1, <2>2, <2>3, <2>4
  <2>6. \A s \in Tools : Distinct(work'[s]) /\ (s \in shut => work'[s] = <<>>)
    BY <1>4, <1>7, <2>2, <2>4
  <2> QED BY <1>1, <2>1, <2>2, <2>5, <2>6 DEF JobsFit, closeVars
<1> QED BY <1>5, <1>6, <1>7

LEMMA JobsAreCalls ==
  ASSUME BulkheadInv, NEW t \in Tools, NEW x, Holds(work[t], x)
  PROVE  x \in Calls /\ tool[x] = t /\ pc[x] = "executing" /\ x \notin running
  BY HeldIsMember DEF BulkheadInv, JobsFit, TypeOK

-----------------------------------------------------------------------------
(* One lemma for each kind of step.                                        *)

LEMMA ExecuteKeeps ==
  ASSUME BulkheadInv, NEW c \in Calls, NEW t \in Tools, Execute(c, t)
  PROVE  BulkheadInv'
<1> USE LimitAssumption
<1>1. /\ TypeOK /\ pc[c] = "new" /\ tool' = [tool EXCEPT ![c] = t]
      /\ UNCHANGED <<fifo, closeVars>> /\ c \notin running
  BY DEF Execute, BulkheadInv, CallsFit
<1>2. \A s \in Tools : \A x : Holds(waiters[s], x) =>
        x \in Calls \ {c} /\ tool[x] = s /\ pc[x] = "waiting"
  BY <1>1, HeldIsMember DEF BulkheadInv, WaitersFit, TypeOK
<1>3. \A d \in Calls \ {c} : tool'[d] = tool[d]
  BY <1>1 DEF TypeOK
<1>4. tool'[c] = t /\ tool' \in [Calls -> Tools \cup {NoTool}]
  BY <1>1 DEF TypeOK
<1>5. CASE Enters(t)
  <2>1. /\ pc' = [pc EXCEPT ![c] = "executing"] /\ UNCHANGED waiters
        /\ free' = [free EXCEPT ![t] = @ - 1] /\ Invoke(c, t)
    BY <1>5 DEF Execute
  <2>2. /\ work' \in [Tools -> Seq(Calls)] /\ running' \subseteq Calls
        /\ running' \subseteq running \cup {c} /\ JobsFit'
    <3>1. Onward(c, "executing")
      BY <1>1, <2>1 DEF TypeOK, Onward
    <3> QED BY <1>1, <1>3, <1>4, <2>1, <3>1, InvokeKeeps
  <2>3. TypeOK'
    <3>1. free' \in [Tools -> 0..Limit]
      BY <1>1, <1>5, <2>1 DEF TypeOK, Enters
    <3> QED BY <1>1, <1>4, <2>1, <2>2, <3>1 DEF TypeOK, closeVars
  <2>4. CallsFit'
    BY <1>1, <1>3, <1>4, <2>1, <2>2 DEF BulkheadInv, CallsFit, TypeOK
  <2>5. WaitersFit'
    BY <1>1, <1>2, <1>3, <2>1 DEF BulkheadInv, WaitersFit, TypeOK
  <2>6. /\ At(t, "executing")' = At(t, "executing") \cup {c}
        /\ c \notin At(t, "executing") /\ At(t, "woken")' = At(t, "woken")
    BY <1>1, <1>3, <1>4, <2>1 DEF At, Of, TypeOK
  <2>7. \A s \in Tools \ {t} : \A x \in {"executing", "woken"} : At(s, x)' = At(s, x)
    BY <1>1, <1>3, <1>4, <2>1 DEF At, Of, TypeOK
  <2>8. /\ Executing(t)' = Executing(t) + 1 /\ Woken(t)' = Woken(t)
        /\ \A s \in Tools \ {t} : Executing(s)' = Executing(s) /\ Woken(s)' = Woken(s)
    BY <2>6, <2>7, AtFinite, FS_AddElement DEF Executing, Woken
  <2>9. PermitsKept'
    <3>1. /\ free[t]' = free[t] - 1 /\ free[t] \in Nat /\ free[t] > 0
          /\ \A s \in Tools \ {t} : free[s]' = free[s]
      BY <1>1, <1>5, <2>1 DEF TypeOK, Enters
    <3>2. /\ Executing(t) \in Nat /\ Woken(t) \in Nat /\ Limit \in Nat
          /\ Fits(free[t], Executing(t), Woken(t), Len(waiters[t]))
      BY Numbers
    <3>3. fifo => waiters[t] = <<>>
      BY <1>5 DEF Enters
    <3>4. Fits(free[t]', Executing(t)', Woken(t)', Len(waiters[t]'))
      BY <1>1, <2>1, <2>8, <3>1, <3>2, <3>3 DEF Fits
    <3>5. ASSUME NEW s \in Tools \ {t}
          PROVE  Fits(free[s]', Executing(s)', Woken(s)', Len(waiters[s]'))
      <4>1. Fits(free[s], Executing(s), Woken(s), Len(waiters[s]))
        BY DEF BulkheadInv, PermitsKept
      <4> QED BY <1>1, <2>1, <2>8, <3>1, <4>1 DEF Fits
    <3> QED BY <1>1, <3>4, <3>5 DEF PermitsKept, Fits
  <2> QED BY <2>2, <2>3, <2>4, <2>5, <2>9 DEF BulkheadInv
<1>6. CASE ~Enters(t)
  <2>1. /\ pc' = [pc EXCEPT ![c] = "waiting"]
        /\ waiters' = [waiters EXCEPT ![t] = Append(@, c)]
        /\ UNCHANGED <<free, work, running>>
    BY <1>6 DEF Execute
  <2>2. /\ Append(waiters[t], c) \in Seq(Calls) /\ Distinct(Append(waiters[t], c))
        /\ \A x : Holds(Append(waiters[t], c), x) => x = c \/ Holds(waiters[t], x)
    BY <1>1, <1>2, AppendHolds DEF BulkheadInv, WaitersFit, TypeOK
  <2>3. \A s \in Tools : waiters'[s] = IF s = t THEN Append(waiters[t], c)
                                       ELSE waiters[s]
    BY <1>1, <2>1 DEF TypeOK
  <2>4. TypeOK'
    BY <1>1, <1>4, <2>1, <2>2 DEF TypeOK, closeVars
  <2>5. CallsFit'
    BY <1>1, <1>3, <1>4, <2>1 DEF BulkheadInv, CallsFit, TypeOK
  <2>6. WaitersFit'
    BY <1>1, <1>2, <1>3, <1>4, <2>1, <2>2, <2>3
       DEF BulkheadInv, WaitersFit, TypeOK
  <2>7. JobsFit'
    <3>1. \A s \in Tools : \A x : Holds(work[s], x) => x \in Calls \ {c}
      BY <1>1, HeldIsMember DEF BulkheadInv, JobsFit, TypeOK
    <3> QED BY <1>1, <1>3, <2>1, <3>1 DEF BulkheadInv, JobsFit, TypeOK, closeVars
  <2>8. \A s \in Tools : Executing(s)' = Executing(s) /\ Woken(s)' = Woken(s)
    <3>1. \A s \in Tools : \A x \in {"executing", "woken"} : At(s, x)' = At(s, x)
      BY <1>1, <1>3, <1>4, <2>1 DEF At, Of, TypeOK
    <3> QED BY <3>1 DEF Executing, Woken
  <2>9. PermitsKept'
    <3>1. /\ free[t] \in Nat /\ Woken(t) \in Nat
          /\ Fits(free[t], Executing(t), Woken(t), Len(waiters[t]))
      BY Numbers
    <3>2. At(t, "woken") # {} => Woken(t) > 0
      BY <3>1, AtFinite, FS_EmptySet DEF Woken
    <3>3. Fits(free[t], Executing(t), Woken(t), 1)
      BY <1>6, <3>1, <3>2 DEF Enters, Fits
    <3>4. ASSUME NEW s \in Tools
          PROVE  Fits(free[s]', Executing(s)', Woken(s)', Len(waiters[s]'))
      <4>1. Fits(free[s], Executing(s), Woken(s), Len(waiters[s]))
        BY DEF BulkheadInv, PermitsKept
      <4> QED BY <1>1, <2>1, <2>3, <2>8, <3>3, <4>1 DEF Fits
    <3> QED BY <1>1, <3>4 DEF PermitsKept, Fits
  <2> QED BY <2>4, <2>5, <2>6, <2>7, <2>9 DEF BulkheadInv
<1> QED BY <1>5, <1>6

(* A call that resumes takes its permit, or with the early semaphore queues again. *)
LEMMA ResumeKeeps ==
  ASSUME BulkheadInv, NEW c \in Calls, Resume(c)
  PROVE  BulkheadInv'
<1> DEFINE t == tool[c]
           q == waiters[t]
           f == free[t]
<1>1. /\ TypeOK /\ pc[c] = "woken" /\ t \in Tools /\ c \notin running
      /\ UNCHANGED <<tool, fifo, closeVars>>
      /\ f \in Nat /\ q \in Seq(Calls) /\ Len(q) \in Nat
  <2>1. /\ TypeOK /\ pc[c] = "woken" /\ UNCHANGED <<tool, fifo, closeVars>>
    BY DEF Resume, BulkheadInv
  <2>2. t \in Tools /\ c \notin running
    BY <2>1 DEF BulkheadInv, CallsFit
  <2> QED BY <2>1, <2>2, LimitAssumption DEF TypeOK
<1>2. /\ Executing(t) \in Nat /\ Woken(t) \in Nat /\ Limit \in Nat
      /\ Fits(f, Executing(t), Woken(t), Len(q))
  BY <1>1, Numbers
<1>3. ASSUME NEW n \in Nat, NEW k \in 0..Len(q), Invoke(c, t),
             Move(c, "executing", q, n, k), fifo => n = f, ~fifo => n = f - 1,
             fifo => k <= n /\ (n > 0 /\ k < Len(q) => k > 0), ~fifo => k = 0
      PROVE  BulkheadInv'
  <2>1. MoveFits(c, "executing", q, k)
    BY <1>1, QueueFits
  <2>2. /\ Executing(t)' = Executing(t) + 1
        /\ Woken(t)' = Woken(t) - 1 + k /\ Woken(t) > 0
    BY <1>1, <1>2, <1>3, <2>1, MoveCounts
  <2> DEFINE m == IF fifo THEN n - k ELSE n
  <2>3. /\ m \in Nat /\ k \in Nat /\ (fifo => m = n - k) /\ (~fifo => m = n)
    BY <1>1, <1>3
  <2> HIDE DEF q, f, m
  <2>a. Fits(m, Executing(t)', Woken(t)', Len(q) - k)
    <3>1. f \in Nat /\ Len(q) \in Nat
      BY <1>1
    <3>2. CASE fifo
      <4>1. /\ m = f - k /\ k <= f /\ (f > 0 /\ k < Len(q) => k > 0) /\ k \in Nat
            /\ f + Executing(t) + Woken(t) = Limit
        BY <1>2, <1>3, <2>3, <3>2 DEF Fits
      <4>2. m + Executing(t)' + Woken(t)' = Limit
        BY <1>2, <2>2, <3>1, <4>1
      <4>3. m > 0 /\ Len(q) - k > 0 => Woken(t)' > 0
        BY <1>2, <2>2, <3>1, <4>1
      <4> QED BY <3>2, <4>2, <4>3 DEF Fits
    <3>3. CASE ~fifo
      <4>1. /\ m = f - 1 /\ m \in Nat /\ k = 0 /\ f + Executing(t) = Limit
            /\ f > 0 /\ Len(q) > 0 => Woken(t) >= f
        BY <1>2, <1>3, <2>3, <3>3 DEF Fits
      <4> QED BY <1>2, <2>2, <3>1, <3>3, <4>1 DEF Fits
    <3> QED BY <3>2, <3>3
  <2>4. Moved(c, "executing") /\ WaitersFit' /\ PermitsKept'
    BY <1>1, <1>3, <2>1, <2>3, <2>a, MoveKeeps
  <2>5. /\ work' \in [Tools -> Seq(Calls)] /\ running' \subseteq Calls
        /\ running' \subseteq running \cup {c} /\ JobsFit'
    BY <1>1, <1>3, <2>4, InvokeKeeps DEF Moved
  <2>6. TypeOK'
    BY <1>1, <2>4, <2>5 DEF TypeOK, closeVars, Moved
  <2>7. CallsFit'
    BY <1>1, <2>4, <2>5 DEF BulkheadInv, CallsFit, Moved, Onward
  <2> QED BY <2>4, <2>5, <2>6, <2>7 DEF BulkheadInv
<1>4. CASE fifo /\ (\E k \in {One(q, f), Fit(q, f)} : Move(c, "executing", q, f, k))
           /\ Invoke(c, t)
  <2>1. PICK k \in {One(q, f), Fit(q, f)} : Move(c, "executing", q, f, k)
    BY <1>4
  <2>2. k \in 0..Len(q) /\ k <= f /\ (f > 0 /\ k < Len(q) => k > 0)
    BY <1>1 DEF One, Fit
  <2> QED BY <1>1, <1>3, <1>4, <2>1, <2>2
<1>5. CASE ~fifo /\ f > 0 /\ Move(c, "executing", q, f - 1, 0) /\ Invoke(c, t)
  <2>1. f - 1 \in Nat /\ 0 \in 0..Len(q)
    BY <1>1, <1>5
  <2> QED BY <1>3, <1>5, <2>1
<1>6. CASE /\ ~fifo /\ f = 0 /\ Move(c, "waiting", Append(q, c), 0, 0)
           /\ UNCHANGED <<work, running>>
  <2> DEFINE a == Append(q, c)
  <2>1. ~Holds(q, c) /\ Distinct(q)
    BY <1>1 DEF BulkheadInv, WaitersFit
  <2>2. /\ a \in Seq(Calls) /\ Distinct(a) /\ 0 \in 0..Len(a)
        /\ \A x : Holds(a, x) <=> x = c \/ Holds(q, x)
    BY <1>1, <2>1, AppendHolds, AppendKeeps DEF Holds
  <2> HIDE DEF a
  <2>3. MoveFits(c, "waiting", a, 0)
    BY <1>1, <2>1, <2>2 DEF MoveFits
  <2>4. /\ Executing(t)' = Executing(t) /\ Woken(t)' = Woken(t) - 1
    BY <1>1, <1>2, <1>6, <2>3, MoveCounts DEF a
  <2>5. Fits(0, Executing(t)', Woken(t)', Len(a) - 0)
    BY <1>2, <1>6, <2>4 DEF Fits
  <2>6. Moved(c, "waiting") /\ WaitersFit' /\ PermitsKept'
    <3>1. Move(c, "waiting", a, 0, 0)
      BY <1>6 DEF a
    <3>2. 0 \in Nat /\ (fifo => 0 = 0 - 0)
      OBVIOUS
    <3> QED BY <1>1, <2>3, <2>5, <3>1, <3>2, MoveKeeps
  <2>7. TypeOK'
    BY <1>1, <1>6, <2>6 DEF TypeOK, closeVars, Moved
  <2>8. CallsFit'
    BY <1>1, <1>6, <2>6 DEF BulkheadInv, CallsFit, Moved, Onward
  <2>9. JobsFit'
    <3>1. ASSUME NEW s \in Tools, NEW x, Holds(work[s], x)
          PROVE  x \in Calls \ {c} /\ tool[x] = s /\ pc'[x] = "executing"
      <4>1. x \in Calls \ {c} /\ tool[x] = s /\ pc[x] = "executing"
        BY <1>1, <3>1, JobsAreCalls
      <4> QED BY <2>6, <4>1 DEF Moved, Onward
    <3> QED BY <1>1, <1>6, <3>1 DEF BulkheadInv, JobsFit, closeVars
  <2> QED BY <2>6, <2>7, <2>8, <2>9 DEF BulkheadInv
<1> QED BY <1>4, <1>5, <1>6 DEF Resume

(* A call without a job that goes leaves the jobs as they are. *)
LEMMA IdleLeaves ==
  ASSUME BulkheadInv, NEW c \in Calls, pc[c] # "new",
         pc[c] = "executing" => ~Holds(work[tool[c]], c),
         UNCHANGED <<tool, fifo, work, running, closeVars>>,
         Moved(c, "over")
  PROVE  TypeOK' /\ CallsFit' /\ JobsFit'
<1>1. TypeOK'
  BY DEF BulkheadInv, TypeOK, closeVars, Moved
<1>2. CallsFit'
  BY DEF BulkheadInv, CallsFit, Moved, Onward
<1>3. ASSUME NEW t \in Tools, NEW x, Holds(work'[t], x)
      PROVE  tool'[x] = t /\ pc'[x] = "executing" /\ x \notin running'
  <2>1. x \in Calls \ {c} /\ tool[x] = t /\ pc[x] = "executing" /\ x \notin running
    BY <1>3, JobsAreCalls
  <2> QED BY <2>1 DEF Moved, Onward
<1>4. JobsFit'
  BY <1>3 DEF BulkheadInv, JobsFit, closeVars
<1> QED BY <1>1, <1>2, <1>4

(* The function is over and the job gone: the call leaves. *)
LEMMA AnswerKeeps ==
  ASSUME BulkheadInv, NEW c \in Calls, Answer(c)
  PROVE  BulkheadInv'
<1>1. /\ TypeOK /\ pc[c] = "executing" /\ c \notin running
      /\ ~Holds(work[tool[c]], c)
      /\ UNCHANGED <<tool, fifo, work, running, closeVars>>
  BY DEF Answer, BulkheadInv, Queued
<1>2. Moved(c, "over") /\ WaitersFit' /\ PermitsKept'
  BY <1>1, LeaveKeeps DEF Answer
<1>3. TypeOK' /\ CallsFit' /\ JobsFit'
  BY <1>1, <1>2, IdleLeaves
<1> QED BY <1>2, <1>3 DEF BulkheadInv

(* What is left of the jobs when a call is given up. *)
LEMMA GiveUpKeeps ==
  ASSUME BulkheadInv, NEW c \in Calls, GiveUp(c)
  PROVE  BulkheadInv'
<1> DEFINE t == tool[c]
<1>1. /\ TypeOK /\ pc[c] = "executing" /\ t \in Tools
      /\ UNCHANGED <<tool, fifo, closeVars>>
      /\ work' = [work EXCEPT ![t] = Without(@, c)]
      /\ running' \in {running, running \ {c}}
  BY DEF GiveUp, Abandon, BulkheadInv, CallsFit
<1>2. Moved(c, "over") /\ WaitersFit' /\ PermitsKept'
  BY <1>1, LeaveKeeps DEF GiveUp
<1>3. /\ Without(work[t], c) \in Seq(Calls) /\ Distinct(Without(work[t], c))
      /\ \A x : Holds(Without(work[t], c), x) => x # c /\ Holds(work[t], x)
      /\ work[t] = <<>> => Without(work[t], c) = <<>>
  BY <1>1, WithoutHolds DEF BulkheadInv, JobsFit, TypeOK
<1>4. \A s \in Tools : work'[s] = IF s = t THEN Without(work[t], c) ELSE work[s]
  BY <1>1 DEF TypeOK
<1>5. TypeOK'
  BY <1>1, <1>2, <1>3 DEF TypeOK, closeVars, Moved
<1>6. CallsFit'
  BY <1>1, <1>2 DEF BulkheadInv, CallsFit, Moved, Onward
<1>7. JobsFit'
  <2>1. ASSUME NEW s \in Tools, NEW x, Holds(work'[s], x)
        PROVE  tool'[x] = s /\ pc'[x] = "executing" /\ x \notin running'
    <3>1. x # c /\ Holds(work[s], x)
      BY <1>1, <1>3, <1>4, <2>1 DEF BulkheadInv, JobsFit
    <3>2. x \in Calls /\ tool[x] = s /\ pc[x] = "executing" /\ x \notin running
      BY <1>1, <3>1, HeldIsMember DEF BulkheadInv, JobsFit, TypeOK
    <3> QED BY <1>1, <1>2, <3>1, <3>2 DEF Moved, Onward
  <2>2. \A s \in Tools : Distinct(work'[s]) /\ (s \in shut' => work'[s] = <<>>)
    BY <1>1, <1>3, <1>4 DEF BulkheadInv, JobsFit, closeVars
  <2> QED BY <2>1, <2>2 DEF JobsFit
<1> QED BY <1>2, <1>5, <1>6, <1>7 DEF BulkheadInv

(* A call that is cancelled while it is woken passes the wake-up on. *)
LEMMA CancelWokenKeeps ==
  ASSUME BulkheadInv, NEW c \in Calls, CancelWoken(c)
  PROVE  BulkheadInv'
<1> DEFINE t == tool[c]
           q == waiters[t]
           f == IF fifo THEN free[t] + 1 ELSE free[t]
<1>1. /\ TypeOK /\ pc[c] = "woken" /\ t \in Tools
      /\ UNCHANGED <<tool, fifo, work, running, closeVars>>
      /\ free[t] \in Nat /\ f \in Nat /\ q \in Seq(Calls) /\ Len(q) \in Nat
  BY LimitAssumption DEF CancelWoken, BulkheadInv, CallsFit, TypeOK
<1>2. /\ Executing(t) \in Nat /\ Woken(t) \in Nat /\ Limit \in Nat
      /\ Fits(free[t], Executing(t), Woken(t), Len(q))
  BY <1>1, Numbers
<1>3. PICK k \in {One(q, f)} \cup (IF fifo THEN {Fit(q, f)} ELSE {}) :
        Move(c, "over", q, f, k)
  BY DEF CancelWoken
<1>4. /\ k \in 0..Len(q) /\ k <= f /\ (f > 0 /\ k < Len(q) => k > 0)
      /\ ~fifo => k <= 1
  BY <1>1 DEF One, Fit
<1>5. MoveFits(c, "over", q, k)
  BY <1>1, <1>4, QueueFits
<1>6. /\ Executing(t)' = Executing(t)
      /\ Woken(t)' = Woken(t) - 1 + k /\ Woken(t) > 0
  BY <1>1, <1>2, <1>3, <1>4, <1>5, MoveCounts
<1> DEFINE n == IF fifo THEN f - k ELSE f
<1>7. /\ n \in Nat /\ k \in Nat /\ (fifo => n = f - k) /\ (~fifo => n = f)
      /\ (fifo => f = free[t] + 1) /\ (~fifo => f = free[t])
  BY <1>1, <1>4
<1> HIDE DEF q, f, n
<1>b. /\ n = IF fifo THEN free[t] + 1 - k ELSE free[t]
      /\ k <= IF fifo THEN free[t] + 1 ELSE free[t]
      /\ fifo \/ free[t] > 0 => (k < Len(q) => k > 0)
  BY <1>1, <1>4, <1>7
<1>c. Fits(IF fifo THEN free[t] + 1 - k ELSE free[t],
           Executing(t), Woken(t) - 1 + k, Len(q) - k)
  BY <1>1, <1>2, <1>4, <1>6, <1>b, WokenLeavesFits
<1>a. Fits(n, Executing(t)', Woken(t)', Len(q) - k)
  BY <1>6, <1>b, <1>c
<1>8. Moved(c, "over") /\ WaitersFit' /\ PermitsKept'
  BY <1>1, <1>3, <1>5, <1>7, <1>a, MoveKeeps
<1>9. TypeOK' /\ CallsFit' /\ JobsFit'
  BY <1>1, <1>8, IdleLeaves
<1> QED BY <1>8, <1>9 DEF BulkheadInv

LEMMA CancelWaitingKeeps ==
  ASSUME BulkheadInv, NEW c \in Calls, CancelWaiting(c)
  PROVE  BulkheadInv'
<1> DEFINE t == tool[c]
           w == waiters[t]
           q == Without(w, c)
           f == free[t]
<1>1. /\ TypeOK /\ pc[c] = "waiting" /\ t \in Tools
      /\ UNCHANGED <<tool, fifo, work, running, closeVars>>
      /\ f \in Nat /\ w \in Seq(Calls) /\ Distinct(w)
  BY LimitAssumption DEF CancelWaiting, BulkheadInv, CallsFit, WaitersFit, TypeOK
<1>2. /\ Executing(t) \in Nat /\ Woken(t) \in Nat /\ Limit \in Nat
      /\ Fits(f, Executing(t), Woken(t), Len(w))
  BY <1>1, Numbers
<1>3. PICK k \in {0} \cup (IF fifo THEN {Fit(q, f)} ELSE {}) : Move(c, "over", q, f, k)
  BY DEF CancelWaiting
<1>4. /\ q \in Seq(Calls) /\ Distinct(q) /\ Len(q) \in Nat
      /\ \A x : Holds(q, x) <=> x # c /\ Holds(w, x)
      /\ w = <<>> => q = <<>>
  BY <1>1, WithoutHolds, WithoutKeeps
<1> HIDE DEF q
<1>5. /\ k \in 0..Len(q) /\ k <= f /\ (~fifo => k = 0)
  BY <1>1, <1>3, <1>4 DEF Fit
<1>6. MoveFits(c, "over", q, k)
  BY <1>1, <1>4, <1>5 DEF MoveFits
<1>7. Executing(t)' = Executing(t) /\ Woken(t)' = Woken(t) + k
  BY <1>1, <1>2, <1>3, <1>5, <1>6, MoveCounts
<1> DEFINE n == IF fifo THEN f - k ELSE f
<1>8. (Len(q) > 0 => Len(w) > 0) /\ Len(w) \in Nat /\ k <= f
  BY <1>1, <1>4, <1>5
<1>9. /\ n \in Nat /\ k \in Nat /\ (fifo => n = f - k) /\ (~fifo => n = f)
  BY <1>1, <1>5
<1> HIDE DEF w, f, n
<1>c. n = IF fifo THEN f - k ELSE f
  BY <1>9
<1>b. Fits(IF fifo THEN f - k ELSE f, Executing(t), Woken(t) + k, Len(q) - k)
  BY <1>1, <1>2, <1>4, <1>5, <1>8, WaiterLeavesFits
<1>a. Fits(n, Executing(t)', Woken(t)', Len(q) - k)
  BY <1>7, <1>c, <1>b
<1>10. Moved(c, "over") /\ WaitersFit' /\ PermitsKept'
  BY <1>1, <1>3, <1>6, <1>9, <1>a, MoveKeeps
<1>11. TypeOK' /\ CallsFit' /\ JobsFit'
  BY <1>1, <1>10, IdleLeaves
<1> QED BY <1>10, <1>11 DEF BulkheadInv

(* The pools and close() leave the calls where they are. *)
LEMMA OthersKeep ==
  ASSUME BulkheadInv,
         \/ \E t \in Tools : TakeJob(t) \/ Shut(t)
         \/ \E c \in Calls : FunctionEnds(c)
         \/ CloseBegin \/ CloseEnd \/ UNCHANGED vars
  PROVE  BulkheadInv'
<1>1. TypeOK /\ UNCHANGED callVars
  BY DEF TakeJob, Shut, FunctionEnds, CloseBegin, CloseEnd, vars, callVars, BulkheadInv
<1>2. WaitersFit' /\ PermitsKept'
  BY <1>1 DEF callVars, BulkheadInv, WaitersFit, PermitsKept,
     Executing, Woken, At, Of, Fits
<1>3. ASSUME NEW t \in Tools, TakeJob(t)
      PROVE  TypeOK' /\ CallsFit' /\ JobsFit'
  <2> DEFINE h == Head(work[t])
  <2>1. /\ work[t] # <<>> /\ running' = running \cup {h}
        /\ work' = [work EXCEPT ![t] = Tail(@)] /\ UNCHANGED closeVars
    BY <1>3 DEF TakeJob
  <2>2. /\ Tail(work[t]) \in Seq(Calls) /\ Distinct(Tail(work[t]))
        /\ h \in Calls /\ tool[h] = t /\ pc[h] = "executing"
        /\ \A x : Holds(Tail(work[t]), x) => x # h /\ Holds(work[t], x)
    BY <1>1, <2>1, TailHolds DEF BulkheadInv, JobsFit, TypeOK
  <2>3. \A s \in Tools : work'[s] = IF s = t THEN Tail(work[t]) ELSE work[s]
    BY <1>1, <2>1 DEF TypeOK
  <2>4. TypeOK'
    BY <1>1, <2>1, <2>2 DEF TypeOK, closeVars, callVars
  <2>5. CallsFit'
    BY <1>1, <2>1, <2>2 DEF BulkheadInv, CallsFit, callVars
  <2>6. JobsFit'
    BY <1>1, <2>1, <2>2, <2>3 DEF BulkheadInv, JobsFit, closeVars, callVars
  <2> QED BY <2>4, <2>5, <2>6
<1>4. ASSUME NEW t \in Tools, Shut(t)
      PROVE  TypeOK' /\ CallsFit' /\ JobsFit'
  <2>1. /\ t \in ThreadTools /\ shut' = shut \cup {t}
        /\ work' = [work EXCEPT ![t] = <<>>] /\ UNCHANGED <<running, phase>>
    BY <1>4 DEF Shut
  <2>2. \A s \in Tools : work'[s] = IF s = t THEN <<>> ELSE work[s]
    BY <1>1, <2>1 DEF TypeOK
  <2>3. TypeOK'
    BY <1>1, <2>1 DEF TypeOK, callVars
  <2>4. JobsFit'
    BY <1>1, <2>1, <2>2, NothingHeld
       DEF BulkheadInv, JobsFit, callVars, Distinct
  <2> QED BY <1>1, <2>1, <2>3, <2>4 DEF BulkheadInv, CallsFit, callVars
<1>5. ASSUME \/ \E c \in Calls : FunctionEnds(c)
             \/ CloseBegin \/ CloseEnd \/ UNCHANGED vars
      PROVE  TypeOK' /\ CallsFit' /\ JobsFit'
  <2>1. /\ UNCHANGED <<work, shut>> /\ running' \subseteq running
        /\ phase' \in {"open", "closing", "closed"}
    BY <1>1, <1>5 DEF FunctionEnds, CloseBegin, CloseEnd, vars, closeVars, TypeOK
  <2> QED
    BY <1>1, <2>1 DEF BulkheadInv, TypeOK, CallsFit, JobsFit, callVars
<1> QED BY <1>2, <1>3, <1>4, <1>5 DEF BulkheadInv

LEMMA NextKeepsBulkhead == BulkheadInv /\ [Next]_vars => BulkheadInv'
  BY ExecuteKeeps, ResumeKeeps, AnswerKeeps, GiveUpKeeps, CancelWaitingKeeps,
     CancelWokenKeeps, OthersKeep DEF Next, CallStep, CloseStep

LEMMA InitBulkhead == Init => BulkheadInv
<1> SUFFICES ASSUME Init PROVE BulkheadInv
  OBVIOUS
<1>1. TypeOK
  BY LimitAssumption, ToolsAssumption DEF Init, TypeOK
<1>2. CallsFit /\ WaitersFit /\ JobsFit
  BY NothingHeld DEF Init, CallsFit, WaitersFit, JobsFit, Distinct
<1>3. \A t \in Tools : Executing(t) = 0 /\ Woken(t) = 0
  <2>1. \A t \in Tools : At(t, "executing") = {} /\ At(t, "woken") = {}
    BY DEF Init, At, Of
  <2> QED BY <2>1, FS_EmptySet DEF Executing, Woken
<1>4. PermitsKept
  BY <1>3, LimitAssumption DEF Init, PermitsKept, Fits
<1> QED BY <1>1, <1>2, <1>4 DEF BulkheadInv

LEMMA BulkheadInvariant == Spec => []BulkheadInv
  BY InitBulkhead, NextKeepsBulkhead, PTL DEF Spec

-----------------------------------------------------------------------------
(* Every call that waits is in the queue, where a release will find it.    *)

LEMMA NextKeepsQueued ==
  ASSUME BulkheadInv, WaitersQueued, [Next]_vars
  PROVE  WaitersQueued'
<1>1. TypeOK /\ CallsFit
  BY DEF BulkheadInv
<1>2. ASSUME NEW c \in Calls, NEW t \in Tools, Execute(c, t)
      PROVE  WaitersQueued'
  <2> SUFFICES ASSUME NEW d \in Calls, pc'[d] = "waiting"
               PROVE  Holds(waiters'[tool'[d]], d)
    BY DEF WaitersQueued
  <2>1. tool' = [tool EXCEPT ![c] = t] /\ pc[c] = "new"
    BY <1>2 DEF Execute
  <2>2. CASE Enters(t)
    BY <1>1, <1>2, <2>1, <2>2 DEF Execute, WaitersQueued, TypeOK
  <2>3. CASE ~Enters(t)
    <3>1. /\ pc' = [pc EXCEPT ![c] = "waiting"]
          /\ waiters' = [waiters EXCEPT ![t] = Append(@, c)]
      BY <1>2, <2>3 DEF Execute
    <3>2. waiters[t] \in Seq(Calls) /\ waiters'[t] = Append(waiters[t], c)
          /\ \A s \in Tools \ {t} : waiters'[s] = waiters[s]
      BY <1>1, <3>1 DEF TypeOK
    <3>3. \A x : Holds(waiters'[t], x) <=> x = c \/ Holds(waiters[t], x)
      BY <3>2, AppendKeeps DEF Holds
    <3>4. CASE d = c
      BY <1>1, <2>1, <3>3, <3>4 DEF TypeOK
    <3>5. CASE d # c
      <4>1. pc[d] = "waiting" /\ tool'[d] = tool[d]
        BY <1>1, <2>1, <3>1, <3>5 DEF TypeOK
      <4>2. Holds(waiters[tool[d]], d) /\ tool[d] \in Tools
        BY <1>1, <4>1 DEF WaitersQueued, CallsFit
      <4>3. CASE tool[d] = t
        BY <3>3, <4>1, <4>2, <4>3
      <4>4. CASE tool[d] # t
        BY <3>2, <4>1, <4>2, <4>4
      <4> QED BY <4>3, <4>4
    <3> QED BY <3>4, <3>5
  <2> QED BY <2>2, <2>3
<1>3. ASSUME NEW c \in Calls, Answer(c) \/ GiveUp(c)
      PROVE  WaitersQueued'
  <2>1. /\ pc[c] = "executing" /\ Leave(c) /\ UNCHANGED tool
        /\ waiters[tool[c]] \in Seq(Calls) /\ free[tool[c]] \in Nat
    BY <1>1, <1>3, LimitAssumption DEF Answer, GiveUp, TypeOK, CallsFit
  <2>2. One(waiters[tool[c]], free[tool[c]] + 1) \in 0..Len(waiters[tool[c]])
    BY <2>1 DEF One
  <2> QED BY <2>1, <2>2, QueueFits, MoveQueues DEF Leave
<1>4. ASSUME NEW c \in Calls, Resume(c)
      PROVE  WaitersQueued'
  <2> DEFINE t == tool[c]
             q == waiters[t]
             f == free[t]
  <2>1. /\ pc[c] = "woken" /\ UNCHANGED tool /\ t \in Tools
        /\ f \in Nat /\ q \in Seq(Calls) /\ Len(q) \in Nat
    BY <1>1, <1>4, LimitAssumption DEF Resume, TypeOK, CallsFit
  <2>2. CASE \E k \in {One(q, f), Fit(q, f)} : Move(c, "executing", q, f, k)
    <3>1. One(q, f) \in 0..Len(q) /\ Fit(q, f) \in 0..Len(q)
      BY <2>1 DEF One, Fit
    <3> QED BY <2>1, <2>2, <3>1, QueueFits, MoveQueues
  <2>3. CASE Move(c, "executing", q, f - 1, 0)
    <3>1. 0 \in 0..Len(q)
      BY <2>1
    <3> QED BY <2>1, <2>3, <3>1, QueueFits, MoveQueues
  <2>4. CASE Move(c, "waiting", Append(q, c), 0, 0)
    <3>1. ~Holds(q, c) /\ Distinct(q)
      BY <2>1 DEF BulkheadInv, WaitersFit
    <3>2. /\ Append(q, c) \in Seq(Calls) /\ Distinct(Append(q, c))
          /\ 0 \in 0..Len(Append(q, c))
          /\ \A x : Holds(Append(q, c), x) <=> x = c \/ Holds(q, x)
      BY <2>1, <3>1, AppendHolds, AppendKeeps DEF Holds
    <3>3. MoveFits(c, "waiting", Append(q, c), 0)
      BY <2>1, <3>1, <3>2 DEF MoveFits
    <3> QED BY <2>1, <2>4, <3>3, MoveQueues
  <2> QED BY <1>4, <2>2, <2>3, <2>4 DEF Resume
<1>5. ASSUME NEW c \in Calls, CancelWaiting(c)
      PROVE  WaitersQueued'
  <2> DEFINE q == Without(waiters[tool[c]], c)
             f == free[tool[c]]
  <2>1. /\ pc[c] = "waiting" /\ UNCHANGED tool /\ tool[c] \in Tools
        /\ f \in Nat /\ waiters[tool[c]] \in Seq(Calls)
        /\ Distinct(waiters[tool[c]])
    BY <1>1, <1>5, LimitAssumption
       DEF CancelWaiting, BulkheadInv, WaitersFit, TypeOK, CallsFit
  <2>2. /\ q \in Seq(Calls) /\ Distinct(q) /\ Len(q) \in Nat
        /\ \A x : Holds(q, x) <=> x # c /\ Holds(waiters[tool[c]], x)
    BY <2>1, WithoutHolds, WithoutKeeps
  <2>3. PICK k \in {0} \cup (IF fifo THEN {Fit(q, f)} ELSE {}) :
          Move(c, "over", q, f, k)
    BY <1>5 DEF CancelWaiting
  <2> HIDE DEF q
  <2>4. k \in 0..Len(q)
    BY <2>1, <2>2, <2>3 DEF Fit
  <2>5. MoveFits(c, "over", q, k)
    BY <2>1, <2>2, <2>4 DEF MoveFits
  <2> QED BY <2>1, <2>3, <2>5, MoveQueues
<1>7. ASSUME NEW c \in Calls, CancelWoken(c)
      PROVE  WaitersQueued'
  <2> DEFINE q == waiters[tool[c]]
             f == IF fifo THEN free[tool[c]] + 1 ELSE free[tool[c]]
  <2>1. /\ pc[c] = "woken" /\ UNCHANGED tool /\ tool[c] \in Tools
        /\ f \in Nat /\ q \in Seq(Calls) /\ Len(q) \in Nat
    BY <1>1, <1>7, LimitAssumption DEF CancelWoken, TypeOK, CallsFit
  <2>2. PICK k \in {One(q, f)} \cup (IF fifo THEN {Fit(q, f)} ELSE {}) :
          Move(c, "over", q, f, k)
    BY <1>7 DEF CancelWoken
  <2>3. k \in 0..Len(q)
    BY <2>1, <2>2 DEF One, Fit
  <2> QED BY <2>1, <2>2, <2>3, QueueFits, MoveQueues
<1>6. CASE \/ \E t \in Tools : TakeJob(t)
           \/ \E c \in Calls : FunctionEnds(c)
           \/ CloseBegin \/ CloseStep \/ UNCHANGED vars
  <2>1. UNCHANGED callVars
    BY <1>6 DEF TakeJob, FunctionEnds, CloseBegin, CloseStep, Shut, CloseEnd,
       vars, callVars
  <2> QED BY <2>1 DEF callVars, WaitersQueued
<1> QED BY <1>2, <1>3, <1>4, <1>5, <1>6, <1>7 DEF Next, CallStep

LEMMA QueuedInvariant == Spec => []WaitersQueued
<1>1. Init => WaitersQueued
  BY DEF Init, WaitersQueued
<1>2. BulkheadInv /\ WaitersQueued /\ [Next]_vars => WaitersQueued'
  BY NextKeepsQueued
<1> QED BY <1>1, <1>2, BulkheadInvariant, PTL DEF Spec

-----------------------------------------------------------------------------
(* The semaphore never counts below zero or above max_concurrency. *)
THEOREM TypeCorrect == Spec => []TypeOK
<1>1. BulkheadInv => TypeOK
  BY DEF BulkheadInv
<1> QED BY <1>1, BulkheadInvariant, PTL

(* The calls inside are those that execute and, with fifo, those woken. *)
LEMMA InsideCounts ==
  ASSUME NEW t
  PROVE  /\ IsFiniteSet(Inside(t)) /\ Cardinality(Inside(t)) \in Nat
         /\ Cardinality(Inside(t)) = Executing(t) + (IF fifo THEN Woken(t) ELSE 0)
<1>1. CASE fifo
  <2>1. Inside(t) = At(t, "executing") \cup At(t, "woken")
    BY <1>1 DEF Inside
  <2>2. At(t, "executing") \cap At(t, "woken") = {}
    BY DEF At
  <2>3. /\ IsFiniteSet(At(t, "executing")) /\ IsFiniteSet(At(t, "woken"))
        /\ Executing(t) \in Nat /\ Woken(t) \in Nat
    BY AtFinite, CountsFinite
  <2>4. /\ IsFiniteSet(Inside(t))
        /\ Cardinality(Inside(t)) = Executing(t) + Woken(t) - 0
    <3>1. Cardinality(At(t, "executing") \cap At(t, "woken")) = 0
      BY <2>2, FS_EmptySet
    <3>2. /\ IsFiniteSet(At(t, "executing") \cup At(t, "woken"))
          /\ Cardinality(At(t, "executing") \cup At(t, "woken"))
               = Cardinality(At(t, "executing")) + Cardinality(At(t, "woken"))
                 - Cardinality(At(t, "executing") \cap At(t, "woken"))
      BY <2>3, FS_Union
    <3> QED BY <2>1, <3>1, <3>2 DEF Executing, Woken
  <2> QED BY <1>1, <2>3, <2>4
<1>2. CASE ~fifo
  BY <1>2, AtFinite, CountsFinite DEF Inside, Executing
<1> QED BY <1>1, <1>2

(***************************************************************************)
(* No permit is lost or made by any way in which a call can end, and none  *)
(* stays idle while calls wait without one being woken, with the semaphore *)
(* of the early and of the later Pythons, any number of calls and any      *)
(* max_concurrency.                                                        *)
(***************************************************************************)
THEOREM PermitsAlwaysConserved == Spec => []PermitsConserved
<1>1. BulkheadInv /\ WaitersQueued => PermitsConserved
  <2> SUFFICES ASSUME BulkheadInv, WaitersQueued, NEW t \in Tools
               PROVE  /\ free[t] + Cardinality(Inside(t)) = Limit
                      /\ free[t] > 0 /\ At(t, "waiting") # {} => At(t, "woken") # {}
    BY DEF PermitsConserved
  <2>1. /\ free[t] + Executing(t) + (IF fifo THEN Woken(t) ELSE 0) = Limit
        /\ free[t] > 0 /\ waiters[t] # <<>> => Woken(t) > 0
        /\ free[t] \in Nat
    BY Numbers DEF Fits
  <2>2. free[t] + Cardinality(Inside(t)) = Limit
    BY <2>1, InsideCounts, CountsFinite
  <2>3. At(t, "waiting") # {} => waiters[t] # <<>>
    BY NothingHeld DEF WaitersQueued, At, Of
  <2>4. Woken(t) > 0 => At(t, "woken") # {}
    BY FS_EmptySet DEF Woken
  <2> QED BY <2>1, <2>2, <2>3, <2>4
<1> QED BY <1>1, BulkheadInvariant, QueuedInvariant, PTL

(***************************************************************************)
(* Only functions that outlived their calls can use up a tool's threads:   *)
(* otherwise all threads and the queued job would hold permits, one more   *)
(* than there are.                                                         *)
(***************************************************************************)
THEOREM OnlyOrphansDelay == Spec => []DelayedOnlyByOrphans
<1>1. ASSUME BulkheadInv, NEW t \in ThreadTools, work[t] # <<>>, ~ThreadFree(t),
             \A c \in Threads(t) : pc[c] # "over"
      PROVE  FALSE
  <2> DEFINE h == Head(work[t])
  <2>1. t \in Tools
    BY ToolsAssumption
  <2>2. h \in Calls /\ tool[h] = t /\ pc[h] = "executing" /\ h \notin Threads(t)
    BY <1>1, <2>1, TailHolds DEF BulkheadInv, TypeOK, JobsFit, Threads
  <2>3. Threads(t) \subseteq Inside(t) \ {h} /\ h \in Inside(t)
    BY <1>1, <2>2 DEF BulkheadInv, CallsFit, Threads, Inside, At, Of
  <2>4. /\ Cardinality(Threads(t)) <= Cardinality(Inside(t)) - 1
        /\ Cardinality(Threads(t)) \in Nat
    <3>1. Cardinality(Inside(t) \ {h}) = Cardinality(Inside(t)) - 1
          /\ IsFiniteSet(Inside(t) \ {h})
      BY <2>3, InsideCounts, FS_RemoveElement, FS_Subset
    <3> QED BY <2>3, <3>1, FS_Subset, FS_CardinalityType
  <2>5. free[t] + Cardinality(Inside(t)) = Limit /\ free[t] \in Nat
    BY <1>1, <2>1, InsideCounts, Numbers DEF Fits
  <2> QED BY <1>1, <2>4, <2>5, InsideCounts, LimitAssumption DEF ThreadFree
<1>2. BulkheadInv => DelayedOnlyByOrphans
  BY <1>1 DEF DelayedOnlyByOrphans
<1> QED BY <1>2, BulkheadInvariant, PTL

(***************************************************************************)
(* A function never starts in a thread for a call that was given up, nor   *)
(* in a pool that was shut down.                                           *)
(***************************************************************************)
THEOREM NeverLateStart == Spec => NoLateStart
<1>1. ASSUME BulkheadInv, BulkheadInv', [Next]_vars, NEW c \in running' \ running
      PROVE  pc'[c] = "executing" /\ tool'[c] \notin shut'
  <2>1. ASSUME NEW d \in Calls, NEW t \in Tools, Execute(d, t)
        PROVE  pc'[c] = "executing" /\ tool'[c] \notin shut'
    BY <1>1, <2>1 DEF Execute, Invoke, closeVars, BulkheadInv, TypeOK
  <2>2. ASSUME NEW d \in Calls, Resume(d)
        PROVE  pc'[c] = "executing" /\ tool'[c] \notin shut'
    <3>1. Invoke(d, tool[d]) \/ UNCHANGED running
      BY <2>2 DEF Resume
    <3>2. Invoke(d, tool[d])
      BY <1>1, <3>1
    <3>3. c = d /\ tool[d] \notin ThreadTools
      BY <1>1, <3>2 DEF Invoke
    <3>4. shut \subseteq ThreadTools /\ UNCHANGED <<tool, closeVars>>
      BY <1>1, <2>2 DEF Resume, BulkheadInv, TypeOK
    <3>5. pc'[d] = "executing"
      <4>1. UNCHANGED running \/ \E q, f, k : Move(d, "executing", q, f, k)
        BY <2>2 DEF Resume
      <4> QED BY <1>1, <4>1 DEF Move
    <3> QED BY <3>3, <3>4, <3>5 DEF closeVars
  <2>3. ASSUME NEW t \in Tools, TakeJob(t)
        PROVE  pc'[c] = "executing" /\ tool'[c] \notin shut'
    <3>1. c = Head(work[t]) /\ work[t] # <<>> /\ UNCHANGED <<callVars, closeVars>>
      BY <1>1, <2>3 DEF TakeJob
    <3>2. tool[c] = t /\ pc[c] = "executing" /\ t \notin shut
      BY <1>1, <3>1, TailHolds DEF BulkheadInv, TypeOK, JobsFit
    <3> QED BY <3>1, <3>2 DEF callVars, closeVars
  <2>4. CASE \/ \E d \in Calls : \/ Answer(d) \/ GiveUp(d) \/ CancelWaiting(d)
                                 \/ CancelWoken(d) \/ FunctionEnds(d)
             \/ CloseBegin \/ CloseStep \/ UNCHANGED vars
    BY <1>1, <2>4 DEF Answer, GiveUp, Abandon, CancelWaiting, CancelWoken,
       FunctionEnds, CloseBegin, CloseStep, Shut, CloseEnd, vars
  <2> QED BY <1>1, <2>1, <2>2, <2>3, <2>4 DEF Next, CallStep
<1>2. BulkheadInv /\ BulkheadInv' /\ [Next]_vars
        => [\A c \in running' \ running :
               pc'[c] = "executing" /\ tool'[c] \notin shut']_vars
  BY <1>1
<1> QED BY <1>2, BulkheadInvariant, PTL DEF Spec, NoLateStart
=============================================================================
