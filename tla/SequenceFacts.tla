---------------------------- MODULE SequenceFacts ----------------------------
(***************************************************************************)
(* What the queues, rings and lists of this project hold after they are    *)
(* changed.  Lemmas for the modules with proofs.                           *)
(***************************************************************************)
EXTENDS SequencesExt, Integers, FiniteSetTheorems, TLAPS

(* What is left of a queue when its head is taken. *)
LEMMA TailElements ==
  ASSUME NEW S, NEW s \in Seq(S), s # <<>>
  PROVE  /\ Tail(s) \in Seq(S) /\ Len(Tail(s)) = Len(s) - 1
         /\ Head(s) = s[1] /\ 1 \in 1..Len(s)
         /\ \A i \in 1..Len(Tail(s)) : i + 1 \in 1..Len(s) /\ Tail(s)[i] = s[i + 1]
         /\ \A r \in S : (\E i \in 1..Len(s) : s[i] = r)
                      => r = Head(s) \/ \E i \in 1..Len(Tail(s)) : Tail(s)[i] = r
<1>1. /\ Tail(s) \in Seq(S) /\ Len(Tail(s)) = Len(s) - 1
      /\ Head(s) = s[1] /\ 1 \in 1..Len(s)
      /\ \A i \in 1..Len(Tail(s)) : i + 1 \in 1..Len(s) /\ Tail(s)[i] = s[i + 1]
  OBVIOUS
<1>2. ASSUME NEW i \in 1..Len(s), s[i] # Head(s)
      PROVE  i - 1 \in 1..Len(Tail(s)) /\ Tail(s)[i - 1] = s[i]
  BY <1>1, <1>2
<1> QED BY <1>1, <1>2

LEMMA HeadElement ==
  ASSUME NEW S, NEW s \in Seq(S), s # <<>>
  PROVE  s[1] \in S /\ Len(s) \in Nat
  OBVIOUS

(* What a queue holds when an element is appended. *)
LEMMA AppendElements ==
  ASSUME NEW S, NEW s \in Seq(S), NEW e \in S
  PROVE  /\ Append(s, e) \in Seq(S) /\ Len(Append(s, e)) = Len(s) + 1
         /\ \A i \in 1..Len(s) : i \in 1..Len(s) + 1 /\ Append(s, e)[i] = s[i]
         /\ Append(s, e)[Len(s) + 1] = e
         /\ \A i \in 1..Len(s) + 1 : i \in 1..Len(s) \/ i = Len(s) + 1
  OBVIOUS

(* What a concatenation holds. *)
LEMMA ConcatElements ==
  ASSUME NEW S, NEW a \in Seq(S), NEW b \in Seq(S)
  PROVE  /\ a \o b \in Seq(S) /\ Len(a \o b) = Len(a) + Len(b)
         /\ \A j \in 1..Len(a) + Len(b) :
              (a \o b)[j] = IF j <= Len(a) THEN a[j] ELSE b[j - Len(a)]
  OBVIOUS

(* What is left of a sequence when its i-th element is removed. *)
LEMMA RemoveAtElements ==
  ASSUME NEW S, NEW s \in Seq(S), NEW i \in 1..Len(s)
  PROVE  /\ RemoveAt(s, i) \in Seq(S) /\ Len(RemoveAt(s, i)) = Len(s) - 1
         /\ \A j \in 1..Len(s) - 1 :
              /\ j < i => RemoveAt(s, i)[j] = s[j]
              /\ j >= i => RemoveAt(s, i)[j] = s[j + 1]
<1> DEFINE a == SubSeq(s, 1, i - 1)
           b == SubSeq(s, i + 1, Len(s))
<1>1. /\ a \in Seq(S) /\ Len(a) = i - 1
      /\ \A j \in 1..i - 1 : a[j] = s[j]
  OBVIOUS
<1>2. /\ b \in Seq(S) /\ Len(b) = Len(s) - i
      /\ \A j \in 1..Len(s) - i : b[j] = s[j + i]
  OBVIOUS
<1>3. RemoveAt(s, i) = a \o b
  BY DEF RemoveAt
<1> HIDE DEF a, b
<1>4. /\ a \o b \in Seq(S) /\ Len(a \o b) = Len(a) + Len(b)
      /\ \A j \in 1..Len(a) + Len(b) :
            (a \o b)[j] = IF j <= Len(a) THEN a[j] ELSE b[j - Len(a)]
  BY <1>1, <1>2, ConcatElements
<1>5. ASSUME NEW j \in 1..Len(s) - 1, j < i
      PROVE  (a \o b)[j] = s[j]
  BY <1>1, <1>2, <1>4, <1>5
<1>6. ASSUME NEW j \in 1..Len(s) - 1, j >= i
      PROVE  (a \o b)[j] = s[j + 1]
  <2> DEFINE k == j - (i - 1)
  <2>1. k \in 1..Len(s) - i /\ k + i = j + 1
    BY <1>6
  <2>2. (a \o b)[j] = b[k]
    BY <1>1, <1>2, <1>4, <1>6
  <2> QED BY <1>2, <2>1, <2>2
<1> QED BY <1>1, <1>2, <1>3, <1>4, <1>5, <1>6

(* What is left of a sequence when its first n elements are dropped. *)
LEMMA DropElements ==
  ASSUME NEW S, NEW s \in Seq(S), NEW n \in 0..Len(s)
  PROVE  /\ SubSeq(s, n + 1, Len(s)) \in Seq(S)
         /\ Len(SubSeq(s, n + 1, Len(s))) = Len(s) - n
         /\ \A i \in 1..Len(s) - n : /\ SubSeq(s, n + 1, Len(s))[i] = s[i + n]
                                     /\ i + n \in 1..Len(s)
  OBVIOUS

(* Appending to a sequence keeps what it holds. *)
LEMMA AppendKeeps ==
  ASSUME NEW S, NEW s \in Seq(S), NEW e \in S, NEW x
  PROVE  (\E i \in 1..Len(Append(s, e)) : Append(s, e)[i] = x)
           <=> (x = e \/ \E i \in 1..Len(s) : s[i] = x)
  BY AppendElements

(* The size of 1..n. *)
LEMMA FirstNumbers ==
  ASSUME NEW n \in Nat
  PROVE  IsFiniteSet(1..n) /\ Cardinality(1..n) = n
<1>1. IsFiniteSet(1..n)
  BY FS_Interval
<1>2. Cardinality(1..n) = IF 1 > n THEN 0 ELSE n - 1 + 1
  BY FS_Interval
<1> QED BY <1>1, <1>2

(* Every set of numbers that is not empty has a least one. *)
LEMMA LeastNumber ==
  ASSUME NEW S \in SUBSET Nat, S # {}
  PROVE  \E n \in S : \A m \in S : n <= m
<1> DEFINE R == OpToRel(<, Nat)
<1>1. IsWellFoundedOn(R, Nat)
  BY NatLessThanWellFounded
<1> HIDE DEF R
<1>2. PICK n \in S : \A m \in S : ~(<<m, n>> \in R)
  BY <1>1, WFMin
<1>3. \A m, k \in Nat : m < k => <<m, k>> \in R
  BY DEF R, OpToRel
<1>4. \A m \in S : n <= m
  <2> TAKE m \in S
  <2>1. m \in Nat /\ n \in Nat /\ ~(m < n)
    BY <1>2, <1>3
  <2> QED BY <2>1
<1> QED BY <1>4

(* The places of x in the sequence s. *)
Places(s, x) == {i \in 1..Len(s) : s[i] = x}

LEMMA PlacesFinite ==
  ASSUME NEW S, NEW s \in Seq(S), NEW x
  PROVE  IsFiniteSet(Places(s, x)) /\ Cardinality(Places(s, x)) \in Nat
<1>1. IsFiniteSet(1..Len(s)) /\ Places(s, x) \in SUBSET (1..Len(s))
  BY FirstNumbers DEF Places
<1>2. IsFiniteSet(Places(s, x))
  BY <1>1, FS_Subset
<1> QED BY <1>2, FS_CardinalityType

(* Taking the head leaves the other places, each one further to the front. *)
LEMMA TailPlaces ==
  ASSUME NEW S, NEW s \in Seq(S), s # <<>>, NEW x
  PROVE  Cardinality(Places(s, x))
           = Cardinality(Places(Tail(s), x)) + (IF Head(s) = x THEN 1 ELSE 0)
<1> DEFINE t == Tail(s)
           R == Places(s, x) \ {1}
           f == [i \in R |-> i - 1]
<1>1. /\ t \in Seq(S) /\ Len(t) = Len(s) - 1 /\ Len(s) \in Nat
      /\ Head(s) = s[1] /\ 1 \in 1..Len(s)
      /\ \A i \in 1..Len(t) : i + 1 \in 1..Len(s) /\ t[i] = s[i + 1]
  BY TailElements
<1> HIDE DEF t
<1>2. \A i : i \in R <=> i \in 2..Len(s) /\ s[i] = x
  BY DEF Places
<1>3. \A i : i \in Places(t, x) <=> i \in 1..Len(s) - 1 /\ s[i + 1] = x
  BY <1>1 DEF Places
<1> HIDE DEF R
<1>4. f \in [R -> Places(t, x)]
  <2>1. ASSUME NEW i \in R PROVE i - 1 \in 1..Len(s) - 1 /\ s[(i - 1) + 1] = x
    BY <1>1, <1>2
  <2> QED BY <1>3, <2>1
<1>5. f \in Bijection(R, Places(t, x))
  <2>1. \A i, j \in R : f[i] = f[j] => i = j
    BY <1>2
  <2>2. ASSUME NEW j \in Places(t, x) PROVE \E i \in R : f[i] = j
    <3>1. j + 1 \in R /\ (j + 1) - 1 = j
      BY <1>1, <1>2, <1>3
    <3> QED BY <3>1
  <2> HIDE DEF f
  <2> QED BY <1>4, <2>1, <2>2 DEF Bijection, Injection, Surjection, IsInjective
<1>6. /\ IsFiniteSet(R)
      /\ Cardinality(R) = IF 1 \in Places(s, x) THEN Cardinality(Places(s, x)) - 1
                                                ELSE Cardinality(Places(s, x))
  BY PlacesFinite, FS_RemoveElement DEF R
<1>7. Cardinality(Places(t, x)) = Cardinality(R)
  <2>1. ExistsBijection(R, Places(t, x))
    BY <1>5 DEF ExistsBijection
  <2> QED BY <1>6, <2>1, FS_Bijection
<1>8. 1 \in Places(s, x) <=> Head(s) = x
  BY <1>1 DEF Places
<1>9. Cardinality(Places(s, x)) \in Nat
  BY PlacesFinite
<1> QED BY <1>6, <1>7, <1>8, <1>9 DEF t

(* Appending adds its own place or none. *)
LEMMA AppendPlaces ==
  ASSUME NEW S, NEW s \in Seq(S), NEW e \in S, NEW x
  PROVE  Cardinality(Places(Append(s, e), x))
           = Cardinality(Places(s, x)) + (IF e = x THEN 1 ELSE 0)
<1>1. Len(s) \in Nat
  OBVIOUS
<1>2. CASE e = x
  <2>1. Places(Append(s, e), x) = Places(s, x) \cup {Len(s) + 1}
    BY <1>1, <1>2, AppendElements DEF Places
  <2>2. Len(s) + 1 \notin Places(s, x)
    BY <1>1 DEF Places
  <2> QED BY <1>2, <2>1, <2>2, PlacesFinite, FS_AddElement
<1>3. CASE e # x
  <2>1. Places(Append(s, e), x) = Places(s, x)
    BY <1>1, <1>3, AppendElements DEF Places
  <2> QED BY <1>3, <2>1, PlacesFinite
<1> QED BY <1>2, <1>3
=============================================================================
