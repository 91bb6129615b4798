---------------------------- MODULE Pipeline_proofs ----------------------------
(***************************************************************************)
(* The lemmas that the proofs about the components share: what the pools   *)
(* and the channels do to a sequence of deliveries, and, for publishers,   *)
(* janitors and readers, that a step keeps the types and moves a delivery  *)
(* without losing or doubling it.                                          *)
(***************************************************************************)
EXTENDS Reader, Publisher, Janitor, FiniteSetTheorems, FunctionTheorems,
        SequenceTheorems, WellFoundedInduction, TLAPS

-----------------------------------------------------------------------------
(* Induction over the naturals, for a property given as a set.             *)
LEMMA NatSetInduction ==
  ASSUME NEW S, 0 \in S, \A n \in Nat : n \in S => n + 1 \in S
  PROVE  Nat \subseteq S
<1>1. SUFFICES ASSUME Nat \ S # {} PROVE FALSE
  OBVIOUS
<1> DEFINE R == {ss \in Nat \X Nat : ss[1] < ss[2]}
<1>2. IsWellFoundedOn(R, Nat)
  BY NatLessThanWellFounded DEF OpToRel
<1>3. PICK x \in Nat \ S : \A y \in Nat \ S : ~(<<y, x>> \in R)
  <2>1. Nat \ S \subseteq Nat
    OBVIOUS
  <2> HIDE DEF R
  <2> QED BY <1>1, <1>2, <2>1, WFMin
<1>4. x # 0
  OBVIOUS
<1>5. x - 1 \in Nat /\ x - 1 < x /\ (x - 1) + 1 = x
  BY <1>4
<1>6. <<x - 1, x>> \in R
  BY <1>5
<1>7. x - 1 \in S
  BY <1>3, <1>5, <1>6
<1> QED BY <1>5, <1>7

-----------------------------------------------------------------------------
(* The k-th smallest element of a finite set of naturals exists: ranks are *)
(* an injection into 1..Cardinality(I), hence onto it.                     *)
LEMMA NthIn ==
  ASSUME NEW I \in SUBSET Nat, IsFiniteSet(I), NEW k \in 1..Cardinality(I)
  PROVE  /\ Nth(I, k) \in I
         /\ Cardinality({j \in I : j <= Nth(I, k)}) = k
<1> DEFINE upto(i) == {j \in I : j <= i}
           rank == [i \in I |-> Cardinality(upto(i))]
           n == Cardinality(I)
<1>1. n \in Nat
  BY FS_CardinalityType
<1>2. \A i \in I : /\ IsFiniteSet(upto(i))
                   /\ Cardinality(upto(i)) \in 1..n
  <2> SUFFICES ASSUME NEW i \in I
               PROVE  IsFiniteSet(upto(i)) /\ Cardinality(upto(i)) \in 1..n
    OBVIOUS
  <2>1. upto(i) \in SUBSET I /\ i \in upto(i)
    OBVIOUS
  <2>2. IsFiniteSet(upto(i)) /\ Cardinality(upto(i)) <= n
    BY <2>1, FS_Subset
  <2>3. Cardinality(upto(i)) # 0
    BY <2>1, <2>2, FS_EmptySet
  <2> QED BY <1>1, <2>2, <2>3, FS_CardinalityType
<1>3. \A a, b \in I : a < b => rank[a] # rank[b]
  <2> SUFFICES ASSUME NEW a \in I, NEW b \in I, a < b
               PROVE  Cardinality(upto(a)) # Cardinality(upto(b))
    OBVIOUS
  <2>1. upto(a) \in SUBSET upto(b) /\ b \in upto(b) /\ b \notin upto(a)
    <3>1. a \in Nat /\ b \in Nat
      OBVIOUS
    <3>2. \A j \in I : j \in Nat /\ (j <= a => j <= b)
      BY <3>1
    <3>3. upto(a) \subseteq upto(b)
      BY <3>2
    <3> QED BY <3>1, <3>3
  <2>2. IsFiniteSet(upto(b))
    BY <1>2
  <2> HIDE DEF upto
  <2> QED BY <2>1, <2>2, FS_Subset
<1>4. rank \in Injection(I, 1..n)
  <2>1. rank \in [I -> 1..n]
    BY <1>2
  <2>2. \A a, b \in I : a # b => a < b \/ b < a
    OBVIOUS
  <2>3. \A a, b \in I : rank[a] = rank[b] => a = b
    <3> HIDE DEF rank
    <3> QED BY <1>3, <2>2
  <2> HIDE DEF rank, n
  <2> QED BY <2>1, <2>3 DEF Injection, IsInjective
<1>5. IsFiniteSet(1..n) /\ Cardinality(1..n) = n
  BY <1>1, FS_Interval
<1>6. rank \in Surjection(I, 1..n)
  <2> HIDE DEF rank, n
  <2>1. Cardinality(I) = n
    BY DEF n
  <2> QED BY <1>4, <1>5, <2>1, FS_Injection
<1>7. PICK i \in I : rank[i] = k
  <2> HIDE DEF rank
  <2> QED BY <1>6 DEF Surjection, n
<1>8. \E x \in I : Cardinality({j \in I : j <= x}) = k
  BY <1>7
<1> QED BY <1>8 DEF Nth

LEMMA UpToFinite ==
  ASSUME NEW n \in Nat
  PROVE  IsFiniteSet(1..n) /\ Cardinality(1..n) = n
BY FS_Interval

(* Pick(s, I) is made of the elements of s at the indices I, one for each. *)
LEMMA PickType ==
  ASSUME NEW S, NEW s \in Seq(S), NEW I \in SUBSET DOMAIN s
  PROVE  /\ IsFiniteSet(I) /\ Cardinality(I) \in Nat /\ Cardinality(I) <= Len(s)
         /\ Pick(s, I) \in Seq(S)
         /\ Len(Pick(s, I)) = Cardinality(I)
         /\ \A k \in DOMAIN Pick(s, I) : \E i \in I : Pick(s, I)[k] = s[i]
<1>1. /\ IsFiniteSet(I) /\ Cardinality(I) \in Nat /\ Cardinality(I) <= Len(s)
      /\ I \in SUBSET Nat
  <2>1. Len(s) \in Nat /\ DOMAIN s = 1..Len(s)
    OBVIOUS
  <2>2. IsFiniteSet(1..Len(s)) /\ Cardinality(1..Len(s)) = Len(s)
    BY <2>1, UpToFinite
  <2> QED BY <2>1, <2>2, FS_Subset, FS_CardinalityType
<1>2. \A k \in 1..Cardinality(I) : Nth(I, k) \in I
  BY <1>1, NthIn
<1>3. \A k \in 1..Cardinality(I) : s[Nth(I, k)] \in S
  BY <1>2
<1>4. Pick(s, I) \in [1..Cardinality(I) -> S]
  BY <1>3 DEF Pick
<1>5. Pick(s, I) \in Seq(S) /\ Len(Pick(s, I)) = Cardinality(I)
  BY <1>1, <1>4
<1>6. \A k \in 1..Cardinality(I) : Pick(s, I)[k] = s[Nth(I, k)]
  BY DEF Pick
<1> QED BY <1>1, <1>2, <1>4, <1>5, <1>6

-----------------------------------------------------------------------------
(* The scan of findIndices, element by element: the recursive function     *)
(* exists, so it satisfies its definition.                                 *)
Unfolds(f, buf, n) ==
  f = [i \in 0..n |-> IF i = 0 THEN [indices |-> {}, payloadSum |-> 0]
                               ELSE Consider(f[i - 1], buf, i)]

LEMMA ScanExists ==
  ASSUME NEW buf
  PROVE  \A n \in Nat : \E f : Unfolds(f, buf, n)
<1> DEFINE base == [indices |-> {}, payloadSum |-> 0]
           S == {n \in Nat : \E f : Unfolds(f, buf, n)}
<1>1. 0 \in S
  <2> DEFINE f == [i \in 0..0 |-> base]
  <2>1. f = [i \in 0..0 |-> IF i = 0 THEN base ELSE Consider(f[i - 1], buf, i)]
    OBVIOUS
  <2>2. Unfolds(f, buf, 0)
    BY <2>1 DEF Unfolds
  <2> QED BY <2>2
<1>2. ASSUME NEW n \in Nat, n \in S
      PROVE  n + 1 \in S
  <2>1. PICK f : Unfolds(f, buf, n)
    BY <1>2
  <2> DEFINE g == [i \in 0..(n + 1) |-> IF i = n + 1 THEN Consider(f[n], buf, i) ELSE f[i]]
             Rhs(i) == IF i = 0 THEN base ELSE Consider(g[i - 1], buf, i)
  <2>2. \A i \in 0..n : f[i] = IF i = 0 THEN base ELSE Consider(f[i - 1], buf, i)
    BY <2>1, Zenon DEF Unfolds
  <2>3. \A i \in 0..n : g[i] = f[i]
    OBVIOUS
  <2>4. ASSUME NEW i \in 0..(n + 1)
        PROVE  g[i] = Rhs(i)
    <3>1. CASE i = 0
      <4>1. g[i] = f[i] /\ f[i] = base
        BY <2>2, <2>3, <3>1
      <4> QED BY <3>1, <4>1
    <3>2. CASE i # 0 /\ i # n + 1
      <4>1. i \in 0..n /\ i - 1 \in 0..n
        BY <3>2
      <4>2. g[i] = f[i] /\ g[i - 1] = f[i - 1]
        BY <2>3, <4>1
      <4>3. f[i] = Consider(f[i - 1], buf, i)
        BY <2>2, <3>2, <4>1
      <4> HIDE DEF g
      <4> QED BY <3>2, <4>2, <4>3
    <3>3. CASE i = n + 1
      <4>1. i # 0 /\ i - 1 = n
        BY <3>3
      <4>2. g[i] = Consider(f[n], buf, i)
        BY <3>3
      <4>3. g[n] = f[n]
        BY <2>3
      <4> HIDE DEF g
      <4> QED BY <4>1, <4>2, <4>3
    <3> QED BY <3>1, <3>2, <3>3
  <2>5. DOMAIN g = 0..(n + 1) /\ g = [i \in 0..(n + 1) |-> g[i]]
    OBVIOUS
  <2>6. Unfolds(g, buf, n + 1)
    <3>1. g = [i \in 0..(n + 1) |-> Rhs(i)]
      <4> HIDE DEF g, Rhs
      <4> QED BY <2>4, <2>5
    <3> HIDE DEF g
    <3> QED BY <3>1 DEF Unfolds
  <2> HIDE DEF g
  <2> QED BY <2>6
<1> HIDE DEF S
<1>3. Nat \subseteq S
  BY <1>1, <1>2, NatSetInduction
<1> QED BY <1>3 DEF S

LEMMA ScanUnfolds ==
  ASSUME NEW buf \in Seq(Delivery)
  PROVE  /\ Scan(buf)[0] = [indices |-> {}, payloadSum |-> 0]
         /\ \A i \in 1..Len(buf) : Scan(buf)[i] = Consider(Scan(buf)[i - 1], buf, i)
<1>1. Len(buf) \in Nat
  OBVIOUS
<1>2. PICK f : Unfolds(f, buf, Len(buf))
  BY <1>1, ScanExists
<1>3. Scan(buf) = CHOOSE g : Unfolds(g, buf, Len(buf))
  BY DEF Scan, Unfolds
<1>4. Unfolds(Scan(buf), buf, Len(buf))
  BY <1>2, <1>3
<1>5. \A i \in 0..Len(buf) :
        Scan(buf)[i] = IF i = 0 THEN [indices |-> {}, payloadSum |-> 0]
                                ELSE Consider(Scan(buf)[i - 1], buf, i)
  BY <1>4, Zenon DEF Unfolds
<1>6. 0 \in 0..Len(buf) /\ \A i \in 1..Len(buf) : i \in 0..Len(buf) /\ i # 0
  BY <1>1
<1> QED BY <1>5, <1>6

(* What has been taken after i elements: indices of these, no more than    *)
(* maxBatchItems, within the payload limit.  Two facts decide that nobody  *)
(* starves: an element that fits alone is taken when it is the first, and  *)
(* an element is passed over only if the batch is full without it.         *)
Taken(taken, i) ==
  /\ taken.indices \in SUBSET (1..i)
  /\ Cardinality(taken.indices) <= MaxBatchItems
  /\ taken.payloadSum \in 0..MaxSnsPublishPayload

LEMMA WeightNat ==
  ASSUME NEW d \in Delivery
  PROVE  Weight(d) \in Nat
BY PoolAssumption DEF Weight, Delivery

LEMMA ScanInvariant ==
  ASSUME NEW buf \in Seq(Delivery)
  PROVE  \A i \in 0..Len(buf) : Taken(Scan(buf)[i], i)
<1> DEFINE S == {i \in Nat : i <= Len(buf) => Taken(Scan(buf)[i], i)}
<1>1. 0 \in S
  <2>1. Scan(buf)[0] = [indices |-> {}, payloadSum |-> 0]
    BY ScanUnfolds
  <2>2. Scan(buf)[0].indices = {} /\ Scan(buf)[0].payloadSum = 0
    BY <2>1
  <2>3. Cardinality({}) = 0
    BY FS_EmptySet
  <2>4. 0 <= MaxBatchItems /\ 0 \in 0..MaxSnsPublishPayload
    BY PoolAssumption
  <2>5. Taken(Scan(buf)[0], 0)
    BY <2>2, <2>3, <2>4 DEF Taken
  <2> QED BY <2>5
<1>2. ASSUME NEW i \in Nat, i \in S
      PROVE  i + 1 \in S
  <2>1. SUFFICES ASSUME i + 1 <= Len(buf)
                 PROVE  Taken(Scan(buf)[i + 1], i + 1)
    OBVIOUS
  <2>2. Taken(Scan(buf)[i], i)
    BY <1>2, <2>1
  <2> DEFINE t == Scan(buf)[i]
  <2>3. i + 1 \in 1..Len(buf) /\ (i + 1) - 1 = i /\ buf[i + 1] \in Delivery
    BY <2>1
  <2>4. Scan(buf)[i + 1] = Consider(t, buf, i + 1)
    BY <2>3, ScanUnfolds
  <2>5. Weight(buf[i + 1]) \in Nat
    BY <2>3, WeightNat
  <2>6. IsFiniteSet(t.indices)
    BY <2>2, UpToFinite, FS_Subset DEF Taken
  <2>7. CASE ~RoomFor(t, buf[i + 1])
    <3>1. Scan(buf)[i + 1] = t
      BY <2>4, <2>7 DEF Consider
    <3>2. 1..i \subseteq 1..(i + 1)
      OBVIOUS
    <3> QED BY <2>2, <3>1, <3>2 DEF Taken
  <2>8. CASE RoomFor(t, buf[i + 1])
    <3> DEFINE u == [indices |-> t.indices \cup {i + 1},
                     payloadSum |-> t.payloadSum + Weight(buf[i + 1])]
    <3>1. Scan(buf)[i + 1] = u
      BY <2>4, <2>8 DEF Consider
    <3>2. i + 1 \notin t.indices
      BY <2>2 DEF Taken
    <3>3. Cardinality(t.indices \cup {i + 1}) = Cardinality(t.indices) + 1
      BY <2>6, <3>2, FS_AddElement
    <3>4. /\ Cardinality(t.indices) < MaxBatchItems
          /\ t.payloadSum + Weight(buf[i + 1]) <= MaxSnsPublishPayload
      BY <2>8 DEF RoomFor, Room
    <3>5. Cardinality(t.indices) + 1 <= MaxBatchItems
      BY <2>6, <3>4, FS_CardinalityType, PoolAssumption
    <3>6. t.indices \cup {i + 1} \in SUBSET (1..(i + 1))
      BY <2>2 DEF Taken
    <3>7. t.payloadSum + Weight(buf[i + 1]) \in 0..MaxSnsPublishPayload
      BY <2>2, <2>5, <3>4, PoolAssumption DEF Taken
    <3> QED BY <3>1, <3>3, <3>5, <3>6, <3>7 DEF Taken
  <2> QED BY <2>7, <2>8
<1> HIDE DEF S
<1>3. Nat \subseteq S
  BY <1>1, <1>2, NatSetInduction
<1> QED BY <1>3 DEF S

(* findIndices never selects more than a batch, nor more than the limit.   *)
LEMMA FindIndicesType ==
  ASSUME NEW buf \in Seq(Delivery)
  PROVE  /\ FindIndices(buf).indices \in SUBSET DOMAIN buf
         /\ Cardinality(FindIndices(buf).indices) <= MaxBatchItems
         /\ FindIndices(buf).payloadSum \in 0..MaxSnsPublishPayload
<1>1. Len(buf) \in 0..Len(buf) /\ DOMAIN buf = 1..Len(buf)
  OBVIOUS
<1>2. Taken(Scan(buf)[Len(buf)], Len(buf))
  BY <1>1, ScanInvariant
<1> QED BY <1>1, <1>2 DEF Taken, FindIndices

(* An element that is publishable alone is selected when it is the oldest. *)
LEMMA HeadTaken ==
  ASSUME NEW buf \in Seq(Delivery), Len(buf) >= 1, Fits(buf[1].id)
  PROVE  1 \in FindIndices(buf).indices
<1> DEFINE S == {i \in Nat : i + 1 <= Len(buf) => 1 \in Scan(buf)[i + 1].indices}
<1>0. Len(buf) \in Nat
  OBVIOUS
<1>1. 0 \in S
  <2> DEFINE t == Scan(buf)[0]
  <2>1. t = [indices |-> {}, payloadSum |-> 0]
    BY ScanUnfolds
  <2>2. t.indices = {} /\ t.payloadSum = 0
    BY <2>1
  <2>3. 1 \in 1..Len(buf) /\ buf[1] \in Delivery /\ 1 - 1 = 0
    BY <1>0
  <2>4. Scan(buf)[1] = Consider(t, buf, 1)
    BY <2>3, ScanUnfolds
  <2>5. Weight(buf[1]) \in Nat /\ Weight(buf[1]) <= MaxSnsPublishPayload
    BY <2>3, WeightNat DEF Fits, Weight
  <2>6. Cardinality({}) = 0
    BY FS_EmptySet
  <2> HIDE DEF t
  <2>7. RoomFor(t, buf[1])
    BY <2>2, <2>5, <2>6, PoolAssumption DEF RoomFor, Room
  <2>8. 1 \in Scan(buf)[1].indices
    BY <2>4, <2>7 DEF Consider
  <2>9. 0 + 1 = 1
    OBVIOUS
  <2> QED BY <2>8, <2>9
<1>2. ASSUME NEW i \in Nat, i \in S
      PROVE  i + 1 \in S
  <2>1. SUFFICES ASSUME (i + 1) + 1 <= Len(buf)
                 PROVE  1 \in Scan(buf)[(i + 1) + 1].indices
    OBVIOUS
  <2>2. 1 \in Scan(buf)[i + 1].indices
    BY <1>0, <1>2, <2>1
  <2>3. (i + 1) + 1 \in 1..Len(buf) /\ ((i + 1) + 1) - 1 = i + 1
    BY <1>0, <2>1
  <2>4. Scan(buf)[(i + 1) + 1] = Consider(Scan(buf)[i + 1], buf, (i + 1) + 1)
    BY <2>3, ScanUnfolds
  <2> QED BY <2>2, <2>4 DEF Consider
<1> HIDE DEF S
<1>3. Nat \subseteq S
  BY <1>1, <1>2, NatSetInduction
<1>4. Len(buf) - 1 \in Nat /\ (Len(buf) - 1) + 1 = Len(buf)
  BY <1>0
<1> QED BY <1>0, <1>3, <1>4 DEF S, FindIndices

-----------------------------------------------------------------------------
(* A batch has at most maxBatchItems elements of the buffer, and what stays *)
(* in the buffer are elements of it, as many as the batch left over.       *)
LEMMA BatchType ==
  ASSUME NEW buf \in Seq(Delivery)
  PROVE  /\ Batch(buf) \in Seq(Delivery)
         /\ Len(Batch(buf)) <= MaxBatchItems
         /\ \A k \in DOMAIN Batch(buf) : \E i \in DOMAIN buf : Batch(buf)[k] = buf[i]
<1> DEFINE I == FindIndices(buf).indices
<1>1. I \in SUBSET DOMAIN buf /\ Cardinality(I) <= MaxBatchItems
  BY FindIndicesType
<1> HIDE DEF I
<1>2. /\ Pick(buf, I) \in Seq(Delivery)
      /\ Len(Pick(buf, I)) = Cardinality(I)
      /\ \A k \in DOMAIN Pick(buf, I) : \E i \in I : Pick(buf, I)[k] = buf[i]
  BY <1>1, PickType
<1>3. Batch(buf) = Pick(buf, I)
  BY DEF Batch, I
<1> QED BY <1>1, <1>2, <1>3

LEMMA SurvivorsType ==
  ASSUME NEW buf \in Seq(Delivery)
  PROVE  /\ Survivors(buf) \in Seq(Delivery)
         /\ Len(Survivors(buf)) <= Len(buf)
         /\ \A k \in DOMAIN Survivors(buf) :
              \E i \in DOMAIN buf : Survivors(buf)[k] = buf[i]
<1> DEFINE J == DOMAIN buf \ FindIndices(buf).indices
<1>1. J \in SUBSET DOMAIN buf
  OBVIOUS
<1> HIDE DEF J
<1>2. /\ Cardinality(J) <= Len(buf)
      /\ Pick(buf, J) \in Seq(Delivery)
      /\ Len(Pick(buf, J)) = Cardinality(J)
      /\ \A k \in DOMAIN Pick(buf, J) : \E i \in J : Pick(buf, J)[k] = buf[i]
  BY <1>1, PickType
<1>3. Survivors(buf) = Pick(buf, J)
  BY DEF Survivors, J
<1> QED BY <1>1, <1>2, <1>3

(* When getFullBatch finds nothing in a buffer of publishable messages, the *)
(* buffer holds less than a batch: the density rule leaves nothing behind.  *)
LEMMA NotFullShort ==
  ASSUME NEW buf \in Seq(Delivery),
         \A i \in DOMAIN buf : Fits(buf[i].id),
         ~FullBatchFound(buf)
  PROVE  Len(buf) <= MaxBatchItems - 1
<1>1. CASE Len(buf) = 0
  BY <1>1, PoolAssumption
<1>2. CASE Len(buf) # 0
  <2> DEFINE I == FindIndices(buf).indices
  <2>1. Len(buf) \in Nat /\ Len(buf) >= 1 /\ 1 \in DOMAIN buf
    BY <1>2
  <2>2. I # {}
    BY <2>1, HeadTaken
  <2>3. I \in SUBSET DOMAIN buf
    BY FindIndicesType
  <2>4. ~(Cardinality(I) >= MaxBatchItems) /\ ~(Cardinality(I) < Len(buf))
    BY <2>2 DEF FullBatchFound
  <2> HIDE DEF I
  <2>5. Cardinality(I) \in Nat
    BY <2>3, PickType
  <2> QED BY <2>1, <2>4, <2>5, PoolAssumption
<1> QED BY <1>1, <1>2

(* What getFullBatch finds, and what getAvailable gives, is not empty.     *)
LEMMA BatchNotEmpty ==
  ASSUME NEW buf \in Seq(Delivery), FullBatchFound(buf) \/ Available(buf)
  PROVE  Len(Batch(buf)) \in 1..MaxBatchItems
<1> DEFINE I == FindIndices(buf).indices
<1>1. I # {}
  BY DEF FullBatchFound, Available
<1>2. I \in SUBSET DOMAIN buf /\ Cardinality(I) <= MaxBatchItems
  BY FindIndicesType
<1>3. Batch(buf) = Pick(buf, I)
  BY DEF Batch
<1> HIDE DEF I
<1>4. IsFiniteSet(I) /\ Cardinality(I) \in Nat /\ Len(Pick(buf, I)) = Cardinality(I)
  BY <1>2, PickType
<1>5. Cardinality(I) # 0
  BY <1>1, <1>4, FS_EmptySet
<1> QED BY <1>2, <1>3, <1>4, <1>5, PoolAssumption

LEMMA EmptyNotFull == ~FullBatchFound(<<>>)
<1>1. <<>> \in Seq(Delivery) /\ DOMAIN <<>> = {}
  OBVIOUS
<1>2. FindIndices(<<>>).indices = {}
  BY <1>1, FindIndicesType
<1> QED BY <1>2 DEF FullBatchFound

(* When getFullBatch finds nothing, getAvailable gives all or nothing.     *)
LEMMA NotFullAllAvailable ==
  ASSUME NEW buf \in Seq(Delivery), ~FullBatchFound(buf), Available(buf)
  PROVE  Survivors(buf) = <<>>
<1> DEFINE I == FindIndices(buf).indices
           J == DOMAIN buf \ I
<1>1. I # {} /\ ~(Cardinality(I) < Len(buf))
  BY DEF FullBatchFound, Available
<1>2. I \in SUBSET DOMAIN buf
  BY FindIndicesType
<1>3. Survivors(buf) = Pick(buf, J)
  BY DEF Survivors
<1> HIDE DEF I
<1>4. Cardinality(I) \in Nat /\ Cardinality(I) <= Len(buf)
  BY <1>2, PickType
<1>5. Len(buf) \in Nat /\ DOMAIN buf = 1..Len(buf)
  OBVIOUS
<1>6. IsFiniteSet(DOMAIN buf) /\ Cardinality(DOMAIN buf) = Len(buf)
  BY <1>5, UpToFinite
<1>7. I = DOMAIN buf
  BY <1>1, <1>2, <1>4, <1>5, <1>6, FS_Subset
<1>8. J = {}
  BY <1>7
<1> HIDE DEF J
<1>9. J \in SUBSET DOMAIN buf /\ Cardinality(J) = 0
  BY <1>8, FS_EmptySet
<1>10. Pick(buf, J) \in Seq(Delivery) /\ Len(Pick(buf, J)) = 0
  BY <1>9, PickType
<1> QED BY <1>3, <1>10

-----------------------------------------------------------------------------
(* Counting: how often a delivery occurs in what is put together, taken    *)
(* apart or picked out of a buffer.                                        *)
LEMMA OccurrencesType ==
  ASSUME NEW S, NEW s \in Seq(S), NEW d
  PROVE  /\ IsFiniteSet({i \in DOMAIN s : s[i] = d})
         /\ Occurrences(s, d) \in Nat
         /\ Occurrences(s, d) = 0 <=> \A i \in DOMAIN s : s[i] # d
<1> DEFINE at == {i \in DOMAIN s : s[i] = d}
<1>1. Len(s) \in Nat /\ DOMAIN s = 1..Len(s)
  OBVIOUS
<1>2. at \in SUBSET (1..Len(s))
  BY <1>1
<1>3. IsFiniteSet(at)
  BY <1>1, <1>2, UpToFinite, FS_Subset
<1>4. at = {} <=> \A i \in DOMAIN s : s[i] # d
  OBVIOUS
<1>5. Occurrences(s, d) = Cardinality(at)
  BY DEF Occurrences
<1> HIDE DEF at
<1>6. Cardinality(at) \in Nat /\ (Cardinality(at) = 0 <=> at = {})
  BY <1>3, FS_CardinalityType, FS_EmptySet
<1> QED BY <1>3, <1>4, <1>5, <1>6 DEF at

LEMMA OccurrencesEmpty ==
  ASSUME NEW d
  PROVE  Occurrences(<<>>, d) = 0
<1>1. {i \in DOMAIN <<>> : <<>>[i] = d} = {}
  OBVIOUS
<1> QED BY <1>1, FS_EmptySet DEF Occurrences

LEMMA OccurrencesOne ==
  ASSUME NEW e, NEW d
  PROVE  Occurrences(<<e>>, d) = IF e = d THEN 1 ELSE 0
<1>1. {i \in DOMAIN <<e>> : <<e>>[i] = d} = IF e = d THEN {1} ELSE {}
  OBVIOUS
<1> QED BY <1>1, FS_EmptySet, FS_Singleton DEF Occurrences

LEMMA ShiftCardinality ==
  ASSUME NEW T \in SUBSET Int, IsFiniteSet(T), NEW n \in Int,
         NEW U, U = {i + n : i \in T}
  PROVE  IsFiniteSet(U) /\ Cardinality(U) = Cardinality(T)
<1> DEFINE f == [i \in T |-> i + n]
<1>1. f \in [T -> U]
  OBVIOUS
<1>2. \A i, j \in T : f[i] = f[j] => i = j
  OBVIOUS
<1>3. \A u \in U : \E i \in T : f[i] = u
  OBVIOUS
<1> HIDE DEF f
<1>4. f \in Bijection(T, U)
  BY <1>1, <1>2, <1>3 DEF Bijection, Injection, Surjection, IsInjective
<1>5. ExistsBijection(T, U)
  BY <1>4 DEF ExistsBijection
<1> QED BY <1>5, FS_Bijection

LEMMA OccurrencesConcat ==
  ASSUME NEW S, NEW s \in Seq(S), NEW t \in Seq(S), NEW d
  PROVE  Occurrences(s \o t, d) = Occurrences(s, d) + Occurrences(t, d)
<1> DEFINE A == {i \in DOMAIN s : s[i] = d}
           B == {i \in DOMAIN t : t[i] = d}
           C == {i + Len(s) : i \in B}
           R == {i \in DOMAIN (s \o t) : (s \o t)[i] = d}
<1>1. /\ Len(s) \in Nat /\ Len(t) \in Nat
      /\ DOMAIN s = 1..Len(s) /\ DOMAIN t = 1..Len(t)
      /\ DOMAIN (s \o t) = 1..(Len(s) + Len(t))
  OBVIOUS
<1>2. \A i \in 1..(Len(s) + Len(t)) :
        (s \o t)[i] = IF i <= Len(s) THEN s[i] ELSE t[i - Len(s)]
  BY ConcatProperties
<1>3. R = A \cup C
  <2>1. ASSUME NEW i \in R PROVE i \in A \cup C
    <3>1. CASE i <= Len(s)
      BY <1>1, <1>2, <2>1, <3>1
    <3>2. CASE ~(i <= Len(s))
      <4>1. /\ i \in 1..(Len(s) + Len(t)) /\ i - Len(s) \in 1..Len(t)
            /\ (i - Len(s)) + Len(s) = i
        BY <1>1, <2>1, <3>2
      <4>2. t[i - Len(s)] = d
        BY <1>2, <2>1, <3>2, <4>1
      <4>3. i - Len(s) \in B
        BY <1>1, <4>1, <4>2
      <4> QED BY <4>1, <4>3
    <3> QED BY <3>1, <3>2
  <2>2. A \subseteq R
    BY <1>1, <1>2
  <2>3. ASSUME NEW j \in B PROVE j + Len(s) \in R
    <3>1. j \in 1..Len(t) /\ t[j] = d
      BY <1>1, <2>3
    <3>2. /\ j + Len(s) \in 1..(Len(s) + Len(t)) /\ ~(j + Len(s) <= Len(s))
          /\ (j + Len(s)) - Len(s) = j
      BY <1>1, <3>1
    <3>3. (s \o t)[j + Len(s)] = d
      BY <1>2, <3>1, <3>2
    <3> QED BY <1>1, <3>2, <3>3
  <2>4. C \subseteq R
    BY <2>3
  <2> QED BY <2>1, <2>2, <2>4
<1>4. A \cap C = {}
  BY <1>1
<1>5. B \in SUBSET Int
  BY <1>1
<1>6. IsFiniteSet(A) /\ IsFiniteSet(B)
  BY OccurrencesType
<1>7. /\ Occurrences(s, d) = Cardinality(A) /\ Occurrences(t, d) = Cardinality(B)
      /\ Occurrences(s \o t, d) = Cardinality(R)
  BY DEF Occurrences
<1>8. IsFiniteSet(C) /\ Cardinality(C) = Cardinality(B)
  <2>1. C = {i + Len(s) : i \in B} /\ Len(s) \in Int
    BY <1>1
  <2> HIDE DEF B, C
  <2> QED BY <1>5, <1>6, <2>1, ShiftCardinality
<1> HIDE DEF A, B, C, R
<1>9. Cardinality(A \cup C) = Cardinality(A) + Cardinality(C) - Cardinality({})
  BY <1>4, <1>6, <1>8, FS_Union
<1>10. Cardinality(A) \in Nat /\ Cardinality(C) \in Nat /\ Cardinality({}) = 0
  BY <1>6, <1>8, FS_CardinalityType, FS_EmptySet
<1> QED BY <1>3, <1>7, <1>8, <1>9, <1>10

LEMMA OccurrencesAppend ==
  ASSUME NEW S, NEW s \in Seq(S), NEW e \in S, NEW d
  PROVE  Occurrences(Append(s, e), d) = Occurrences(s, d) + Occurrences(<<e>>, d)
<1> DEFINE t == <<e>>
<1>1. t \in Seq(S)
  OBVIOUS
<1>2. Append(s, e) = s \o t
  BY AppendIsConcat
<1> HIDE DEF t
<1>3. Occurrences(s \o t, d) = Occurrences(s, d) + Occurrences(t, d)
  BY <1>1, OccurrencesConcat
<1> QED BY <1>2, <1>3 DEF t

LEMMA OccurrencesHeadTail ==
  ASSUME NEW S, NEW s \in Seq(S), s # <<>>, NEW d
  PROVE  Occurrences(s, d) = Occurrences(<<Head(s)>>, d) + Occurrences(Tail(s), d)
<1>1. /\ Len(s) \in Nat /\ Len(s) >= 1 /\ Head(s) \in S /\ Tail(s) \in Seq(S)
      /\ Len(Tail(s)) = Len(s) - 1
      /\ Head(s) = s[1] /\ \A i \in 1..(Len(s) - 1) : Tail(s)[i] = s[i + 1]
  OBVIOUS
<1> DEFINE h == <<Head(s)>>
           t == Tail(s)
<1>2. h \in Seq(S) /\ Len(h) = 1 /\ h[1] = s[1] /\ t \in Seq(S)
  BY <1>1
<1>3. /\ \A i \in 1..(Len(s) - 1) : t[i] = s[i + 1]
      /\ Len(t) = Len(s) - 1
  BY <1>1
<1> HIDE DEF h, t
<1>4. /\ h \o t \in Seq(S) /\ Len(h \o t) = Len(h) + Len(t)
      /\ \A i \in 1..(Len(h) + Len(t)) :
           (h \o t)[i] = IF i <= Len(h) THEN h[i] ELSE t[i - Len(h)]
  BY <1>2, ConcatProperties
<1>5. \A i \in 1..Len(s) : s[i] = (h \o t)[i]
  BY <1>1, <1>2, <1>3, <1>4
<1>6. Len(s) = Len(h \o t)
  BY <1>1, <1>2, <1>3, <1>4
<1>7. s = h \o t
  BY <1>4, <1>5, <1>6, SeqEqual
<1>8. Occurrences(s, d) = Occurrences(h, d) + Occurrences(t, d)
  BY <1>2, <1>7, OccurrencesConcat
<1> QED BY <1>8 DEF h, t

-----------------------------------------------------------------------------
(* poolV1: the batch and the survivors are elements of the buffer, and     *)
(* together they are the buffer.                                           *)
LEMMA BatchV1Type ==
  ASSUME NEW S, NEW buf \in Seq(S)
  PROVE  /\ BatchV1(buf) \in Seq(S) /\ SurvivorsV1(buf) \in Seq(S)
         /\ Len(BatchV1(buf)) = AvailableV1(buf)
         /\ Len(SurvivorsV1(buf)) = Len(buf) - AvailableV1(buf)
         /\ BatchV1(buf) \o SurvivorsV1(buf) = buf
<1>1. Len(buf) \in Nat /\ \A i \in 1..Len(buf) : buf[i] \in S
  OBVIOUS
<1>2. AvailableV1(buf) \in Nat /\ AvailableV1(buf) <= Len(buf)
  BY <1>1, PoolAssumption DEF AvailableV1
<1> DEFINE n == AvailableV1(buf)
<1> HIDE DEF n
<1>3. \A i \in 1..n : buf[i] \in S
  BY <1>1, <1>2 DEF n
<1>4. \A i \in (n + 1)..Len(buf) : buf[i] \in S
  BY <1>1, <1>2 DEF n
<1>5. 1 \in Int /\ n \in Int /\ n + 1 \in Int /\ Len(buf) \in Int /\ n >= 0 /\ n <= Len(buf)
  BY <1>1, <1>2 DEF n
<1>6. /\ SubSeq(buf, 1, n) \in Seq(S)
      /\ Len(SubSeq(buf, 1, n)) = IF 1 <= n THEN n - 1 + 1 ELSE 0
  BY <1>3, <1>5, SubSeqProperties
<1>7. /\ SubSeq(buf, n + 1, Len(buf)) \in Seq(S)
      /\ Len(SubSeq(buf, n + 1, Len(buf)))
           = IF n + 1 <= Len(buf) THEN Len(buf) - (n + 1) + 1 ELSE 0
  BY <1>4, <1>5, SubSeqProperties
<1>8. /\ 1 \in 1..(Len(buf) + 1) /\ n \in (1 - 1)..Len(buf) /\ Len(buf) \in n..Len(buf)
  BY <1>1, <1>5
<1>9. SubSeq(buf, 1, n) \o SubSeq(buf, n + 1, Len(buf)) = SubSeq(buf, 1, Len(buf))
  BY <1>8, ConcatAdjacentSubSeq
<1>10. SubSeq(buf, 1, Len(buf)) = buf
  BY SubSeqFull
<1>11. /\ Len(SubSeq(buf, 1, n)) = n
       /\ Len(SubSeq(buf, n + 1, Len(buf))) = Len(buf) - n
  BY <1>1, <1>5, <1>6, <1>7
<1> QED BY <1>6, <1>7, <1>9, <1>10, <1>11 DEF n, BatchV1, SurvivorsV1

(* poolV1.shiftUnsafe loses nothing and leaves nothing behind twice.       *)
LEMMA SplitV1 ==
  ASSUME NEW S, NEW buf \in Seq(S), NEW d
  PROVE  Occurrences(buf, d) = Occurrences(BatchV1(buf), d) + Occurrences(SurvivorsV1(buf), d)
<1> DEFINE b == BatchV1(buf)
           r == SurvivorsV1(buf)
<1>1. b \in Seq(S) /\ r \in Seq(S) /\ b \o r = buf
  BY BatchV1Type
<1> HIDE DEF b, r
<1>2. Occurrences(b \o r, d) = Occurrences(b, d) + Occurrences(r, d)
  BY <1>1, OccurrencesConcat
<1> QED BY <1>1, <1>2 DEF b, r

-----------------------------------------------------------------------------
(* Pick enumerates its indices: each is the k-th smallest for one k.       *)
LEMMA NthBijection ==
  ASSUME NEW I \in SUBSET Nat, IsFiniteSet(I)
  PROVE  [k \in 1..Cardinality(I) |-> Nth(I, k)] \in Bijection(1..Cardinality(I), I)
<1> DEFINE n == Cardinality(I)
           f == [k \in 1..n |-> Nth(I, k)]
<1>1. n \in Nat
  BY FS_CardinalityType
<1>2. \A k \in 1..n : Nth(I, k) \in I /\ Cardinality({j \in I : j <= Nth(I, k)}) = k
  BY NthIn
<1>3. f \in [1..n -> I]
  BY <1>2
<1>4. \A k, l \in 1..n : f[k] = f[l] => k = l
  BY <1>2
<1>5. IsFiniteSet(1..n) /\ Cardinality(1..n) = n
  BY <1>1, UpToFinite
<1> HIDE DEF f
<1>6. f \in Injection(1..n, I)
  BY <1>3, <1>4 DEF Injection, IsInjective
<1>7. f \in Surjection(1..n, I)
  BY <1>5, <1>6, FS_Injection
<1> QED BY <1>6, <1>7 DEF f, Bijection

(* An element is the k-th smallest if k elements are not above it.         *)
LEMMA NthIs ==
  ASSUME NEW I \in SUBSET Nat, IsFiniteSet(I), NEW x \in I, NEW k \in 1..Cardinality(I),
         Cardinality({j \in I : j <= x}) = k
  PROVE  Nth(I, k) = x
<1> DEFINE n == Cardinality(I)
           f == [l \in 1..n |-> Nth(I, l)]
<1>1. f \in Bijection(1..n, I)
  BY NthBijection
<1>2. PICK l \in 1..n : f[l] = x
  <2> HIDE DEF f, n
  <2> QED BY <1>1 DEF Bijection, Surjection
<1>3. Nth(I, l) = x /\ Cardinality({j \in I : j <= Nth(I, l)}) = l
  BY <1>2, NthIn
<1> QED BY <1>3

(* Picking one element more, behind the others.                            *)
LEMMA PickAppend ==
  ASSUME NEW S, NEW s \in Seq(S), NEW i \in Nat, i + 1 <= Len(s),
         NEW I \in SUBSET (1..i)
  PROVE  Pick(s, I \cup {i + 1}) = Append(Pick(s, I), s[i + 1])
<1> DEFINE J == I \cup {i + 1}
           n == Cardinality(I)
<1>1. /\ Len(s) \in Nat /\ DOMAIN s = 1..Len(s) /\ s[i + 1] \in S
      /\ I \in SUBSET DOMAIN s /\ I \in SUBSET Nat /\ J \in SUBSET Nat
      /\ J \in SUBSET DOMAIN s
  OBVIOUS
<1>2. IsFiniteSet(I) /\ n \in Nat /\ Pick(s, I) \in Seq(S) /\ Len(Pick(s, I)) = n
  BY <1>1, PickType
<1>3. i + 1 \notin I
  OBVIOUS
<1>4. IsFiniteSet(J) /\ Cardinality(J) = n + 1
  BY <1>2, <1>3, FS_AddElement
<1>5. Nth(J, n + 1) = i + 1
  <2>1. {j \in J : j <= i + 1} = J
    <3>1. \A j \in J : j \in Nat /\ j <= i + 1
      OBVIOUS
    <3> QED BY <3>1
  <2>2. i + 1 \in J
    OBVIOUS
  <2>3. n + 1 \in 1..Cardinality(J)
    BY <1>2, <1>4
  <2> HIDE DEF J, n
  <2> QED BY <1>1, <1>4, <2>1, <2>2, <2>3, NthIs
<1>6. ASSUME NEW k \in 1..n PROVE Nth(J, k) = Nth(I, k)
  <2> DEFINE x == Nth(I, k)
  <2>1. x \in I /\ Cardinality({j \in I : j <= x}) = k
    BY <1>1, <1>2, NthIn
  <2>2. {j \in J : j <= x} = {j \in I : j <= x}
    <3>1. x \in Nat /\ x <= i
      <4> HIDE DEF x
      <4>1. x \in 1..i
        BY <2>1
      <4> QED BY <4>1
    <3>2. ~(i + 1 <= x)
      BY <3>1
    <3> HIDE DEF x
    <3> QED BY <3>2
  <2>3. x \in J /\ k \in 1..Cardinality(J)
    BY <1>2, <1>4, <2>1
  <2>4. Cardinality({j \in J : j <= x}) = k
    BY <2>1, <2>2
  <2> HIDE DEF J, n, x
  <2>5. Nth(J, k) = x
    BY <1>1, <1>4, <2>3, <2>4, NthIs
  <2> QED BY <2>5 DEF x
<1>7. /\ Append(Pick(s, I), s[i + 1]) \in Seq(S)
      /\ Len(Append(Pick(s, I), s[i + 1])) = n + 1
      /\ \A k \in 1..n : Append(Pick(s, I), s[i + 1])[k] = Pick(s, I)[k]
      /\ Append(Pick(s, I), s[i + 1])[n + 1] = s[i + 1]
  <2> HIDE DEF n
  <2> QED BY <1>1, <1>2, AppendProperties
<1>8. Pick(s, J) \in Seq(S) /\ Len(Pick(s, J)) = n + 1
  <2> HIDE DEF J, n
  <2> QED BY <1>1, <1>4, PickType
<1>9. \A k \in 1..(n + 1) : Pick(s, J)[k] = Append(Pick(s, I), s[i + 1])[k]
  <2> SUFFICES ASSUME NEW k \in 1..(n + 1)
               PROVE  Pick(s, J)[k] = Append(Pick(s, I), s[i + 1])[k]
    OBVIOUS
  <2>1. Pick(s, J)[k] = s[Nth(J, k)]
    <3>1. k \in 1..Cardinality(J)
      BY <1>4
    <3> HIDE DEF J, n
    <3> QED BY <3>1 DEF Pick
  <2>2. CASE k = n + 1
    <3> HIDE DEF J, n
    <3> QED BY <1>5, <1>7, <2>1, <2>2
  <2>3. CASE k # n + 1
    <3>1. k \in 1..n
      BY <1>2, <2>3
    <3>2. Pick(s, I)[k] = s[Nth(I, k)]
      <4> HIDE DEF n
      <4> QED BY <3>1 DEF Pick, n
    <3> HIDE DEF J, n
    <3> QED BY <1>6, <1>7, <2>1, <3>1, <3>2
  <2> QED BY <2>2, <2>3
<1> HIDE DEF J, n
<1>10. Pick(s, J) = Append(Pick(s, I), s[i + 1])
  BY <1>7, <1>8, <1>9, SeqEqual
<1> QED BY <1>10 DEF J

LEMMA OccurrencesPick ==
  ASSUME NEW S, NEW s \in Seq(S), NEW I \in SUBSET DOMAIN s, NEW d
  PROVE  Occurrences(Pick(s, I), d) = Cardinality({i \in I : s[i] = d})
<1> DEFINE n == Cardinality(I)
           f == [k \in 1..n |-> Nth(I, k)]
           K == {k \in 1..n : s[f[k]] = d}
           J == {i \in I : s[i] = d}
           g == [k \in K |-> f[k]]
<1>1. /\ IsFiniteSet(I) /\ n \in Nat /\ Pick(s, I) \in Seq(S) /\ Len(Pick(s, I)) = n
      /\ I \in SUBSET Nat
  BY PickType
<1>2. f \in Bijection(1..n, I)
  BY <1>1, NthBijection
<1>3. {k \in DOMAIN Pick(s, I) : Pick(s, I)[k] = d} = K
  <2>1. DOMAIN Pick(s, I) = 1..n
    BY DEF Pick
  <2>2. \A k \in 1..n : Pick(s, I)[k] = s[f[k]]
    BY DEF Pick
  <2> HIDE DEF f, n
  <2> QED BY <2>1, <2>2
<1>4. Occurrences(Pick(s, I), d) = Cardinality(K)
  BY <1>3 DEF Occurrences
<1> HIDE DEF f, n
<1>5. /\ \A k \in 1..n : f[k] \in I
      /\ \A k, l \in 1..n : f[k] = f[l] => k = l
      /\ \A i \in I : \E k \in 1..n : f[k] = i
  BY <1>2 DEF Bijection, Injection, Surjection, IsInjective
<1>6. g \in Bijection(K, J)
  <2>1. g \in [K -> J]
    BY <1>5
  <2>2. \A k, l \in K : g[k] = g[l] => k = l
    BY <1>5
  <2>3. \A j \in J : \E k \in K : g[k] = j
    BY <1>5
  <2> HIDE DEF g, K, J
  <2> QED BY <2>1, <2>2, <2>3 DEF Bijection, Injection, Surjection, IsInjective
<1>7. K \in SUBSET (1..n)
  OBVIOUS
<1> HIDE DEF g, K, J
<1>8. IsFiniteSet(K)
  BY <1>1, <1>7, UpToFinite, FS_Subset
<1>9. Cardinality(J) = Cardinality(K)
  BY <1>6, <1>8, FS_Bijection DEF ExistsBijection
<1> QED BY <1>4, <1>9 DEF J

(* poolV2.extractUnsafe loses nothing and leaves nothing behind twice.     *)
LEMMA SplitV2 ==
  ASSUME NEW buf \in Seq(Delivery), NEW d
  PROVE  Occurrences(buf, d) = Occurrences(Batch(buf), d) + Occurrences(Survivors(buf), d)
<1> DEFINE I == FindIndices(buf).indices
           A == {i \in I : buf[i] = d}
           B == {i \in DOMAIN buf \ I : buf[i] = d}
           R == {i \in DOMAIN buf : buf[i] = d}
<1>1. I \in SUBSET DOMAIN buf
  BY FindIndicesType
<1>2. Occurrences(Batch(buf), d) = Cardinality(A)
  BY <1>1, OccurrencesPick DEF Batch
<1>3. DOMAIN buf \ I \in SUBSET DOMAIN buf
  OBVIOUS
<1>4. Occurrences(Survivors(buf), d) = Cardinality(B)
  BY <1>3, OccurrencesPick DEF Survivors
<1>5. Occurrences(buf, d) = Cardinality(R) /\ IsFiniteSet(R)
  BY OccurrencesType DEF Occurrences
<1>6. R = A \cup B /\ A \cap B = {} /\ A \in SUBSET R /\ B \in SUBSET R
  BY <1>1
<1> HIDE DEF A, B, R
<1>7. IsFiniteSet(A) /\ IsFiniteSet(B)
  BY <1>5, <1>6, FS_Subset
<1>8. Cardinality(A \cup B) = Cardinality(A) + Cardinality(B) - Cardinality({})
  BY <1>6, <1>7, FS_Union
<1>9. Cardinality(A) \in Nat /\ Cardinality(B) \in Nat /\ Cardinality({}) = 0
  BY <1>7, FS_CardinalityType, FS_EmptySet
<1> QED BY <1>2, <1>4, <1>5, <1>6, <1>8, <1>9

-----------------------------------------------------------------------------
(* A delivery is at one place and in one goroutine's hands at most.  A step *)
(* that only moves deliveries between goroutine a and the places where the *)
(* delivery occurs c times before and k times after leaves it so.          *)
LEMMA CustodyMove ==
  ASSUME NEW A, IsFiniteSet(A), NEW h \in [A -> Nat], NEW g \in [A -> Nat],
         NEW a \in A, \A b \in A \ {a} : g[b] = h[b],
         NEW c \in Nat, NEW k \in Nat, k + g[a] <= c + h[a],
         \A b \in A : h[b] <= 1,
         c + Cardinality({b \in A : h[b] > 0}) <= 1
  PROVE  /\ \A b \in A : g[b] <= 1
         /\ k + Cardinality({b \in A : g[b] > 0}) <= 1
<1> DEFINE H == {b \in A : h[b] > 0}
           G == {b \in A : g[b] > 0}
           R == {b \in A \ {a} : h[b] > 0}
<1>1. H \in SUBSET A /\ G \in SUBSET A /\ R \in SUBSET A /\ a \notin R
  OBVIOUS
<1>2. H = IF h[a] > 0 THEN R \cup {a} ELSE R
  OBVIOUS
<1>3. G = IF g[a] > 0 THEN R \cup {a} ELSE R
  OBVIOUS
<1>4. c + Cardinality(H) <= 1
  OBVIOUS
<1> HIDE DEF H, G, R
<1>5. IsFiniteSet(R) /\ Cardinality(R) \in Nat
  BY <1>1, FS_Subset, FS_CardinalityType
<1>6. Cardinality(R \cup {a}) = Cardinality(R) + 1
  BY <1>1, <1>5, FS_AddElement
<1>7. Cardinality(H) = Cardinality(R) + h[a]
  <2>1. h[a] \in Nat /\ h[a] <= 1
    OBVIOUS
  <2>2. CASE h[a] > 0
    BY <2>1, <2>2, <1>2, <1>5, <1>6
  <2>3. CASE h[a] = 0
    BY <2>3, <1>2, <1>5
  <2> QED BY <2>1, <2>2, <2>3
<1>8. g[a] \in Nat /\ h[a] \in Nat
  OBVIOUS
<1>9. k + g[a] + Cardinality(R) <= 1
  BY <1>4, <1>5, <1>7, <1>8
<1>10. g[a] <= 1
  BY <1>5, <1>8, <1>9
<1>11. \A b \in A : g[b] <= 1
  BY <1>10
<1>12. Cardinality(G) = Cardinality(R) + g[a]
  <2>1. CASE g[a] > 0
    BY <2>1, <1>3, <1>5, <1>6, <1>8, <1>10
  <2>2. CASE g[a] = 0
    BY <2>2, <1>3, <1>5
  <2> QED BY <1>8, <2>1, <2>2
<1>13. k + Cardinality(G) <= 1
  BY <1>5, <1>8, <1>9, <1>12
<1> QED BY <1>11, <1>13 DEF G

-----------------------------------------------------------------------------
(* The publishers, strengthening PubTypeOK: the messages in a goroutine's  *)
(* hands are no more than a batch, and those still to be forwarded are     *)
(* among them.                                                             *)
PubHands ==
  \A a \in PublishAgents :
    /\ Len(pubBatch[a]) <= MaxBatchItems
    /\ pubOk[a] \in SUBSET DOMAIN pubBatch[a]
    /\ pubOk[a] # {} => pubPc[a] = "forward"

(* The flusher does not run before the root has started it.                *)
PublishFlusherWaits == pubPc[RootPublisher] = "start" => pubPc[PublishFlusher] = "none"

PubTypeInv == ChTypeOK /\ PubTypeOK /\ PubHands /\ PublishFlusherWaits

(* An entry id contains the index, so only successful entries are returned. *)
LEMMA ReturnedSuccessful ==
  ASSUME NEW batch, NEW successful
  PROVE  Returned(batch, successful) \in SUBSET (successful \cap DOMAIN batch)
BY DEF Returned, BatchEntryID

(* How a channel's type survives a send and a receive.                     *)
LEMMA ReceiveType ==
  ASSUME NEW s \in Seq(Delivery), s # <<>>
  PROVE  /\ Head(s) \in Delivery /\ Tail(s) \in Seq(Delivery)
         /\ Len(Tail(s)) = Len(s) - 1
OBVIOUS

LEMMA SendType ==
  ASSUME NEW s \in Seq(Delivery), NEW d \in Delivery
  PROVE  Append(s, d) \in Seq(Delivery) /\ Len(Append(s, d)) = Len(s) + 1
OBVIOUS

LEMMA PubInitTypes == PubInitProc /\ ChInit /\ accepted \subseteq Delivery => PubTypeInv
<1> SUFFICES ASSUME PubInitProc, ChInit, accepted \subseteq Delivery PROVE PubTypeInv
  OBVIOUS
<1> USE DEF PubInitProc, ChInit, PubPcInit
<1>1. ChTypeOK
  BY QueueAssumption DEF ChTypeOK
<1>2. /\ publishPool \in Seq(Delivery) /\ publishers \in Int
      /\ accepted \subseteq Delivery
  OBVIOUS
<1>6. publishRecent \in BOOLEAN
  OBVIOUS
<1>7. PublishFlusherWaits
  BY PublisherAssumption DEF PublishFlusherWaits, PublishAgents
<1>3. /\ pubPc \in [PublishAgents -> PublisherPcs \cup FlusherPcs]
      /\ pubPc[PublishFlusher] \in FlusherPcs
      /\ \A p \in Publishers : pubPc[p] \in PublisherPcs
  BY PublisherAssumption DEF PublishAgents, PublisherPcs, FlusherPcs
<1>4. /\ pubBatch \in [PublishAgents -> Seq(Delivery)]
      /\ pubOk \in [PublishAgents -> SUBSET (1..MaxBatchItems)]
  OBVIOUS
<1>5. PubHands
  BY PoolAssumption DEF PubHands
<1> QED BY <1>1, <1>2, <1>3, <1>4, <1>5, <1>6, <1>7 DEF PubTypeInv, PubTypeOK

(* Every step of the goroutines, apart from the calls of SNS, keeps this.  *)
LEMMA PubStepTypes == PubTypeInv /\ PublishersStep => PubTypeInv'
<1> SUFFICES ASSUME PubTypeInv, PublishersStep PROVE PubTypeInv'
  OBVIOUS
<1> USE DEF PubTypeInv, PubTypeOK, ChTypeOK, PubHands, PublishFlusherWaits, PubGoto, PubHold, chVars, pubProcVars
<1>a. /\ PublishFlusher \notin Publishers /\ RootPublisher \in Publishers
      /\ PublishFlusher \in PublishAgents /\ Publishers \subseteq PublishAgents
      /\ MaxBatchItems \in Nat /\ MaxBatchItems >= 1
      /\ \A a \in PublishAgents : a \in Publishers \/ a = PublishFlusher
  BY PublisherAssumption, PoolAssumption DEF PublishAgents
<1>b. <<>> \in Seq(Delivery) /\ Len(<<>>) = 0
  OBVIOUS
<1>1. CASE StartRootPublisher
  <2> USE <1>1 DEF StartRootPublisher
  <2>1. /\ pubPc' \in [PublishAgents -> PublisherPcs \cup FlusherPcs]
        /\ pubPc'[PublishFlusher] \in FlusherPcs
        /\ \A p \in Publishers : pubPc'[p] \in PublisherPcs
    BY <1>a DEF PublisherPcs, FlusherPcs
  <2>2. publishers' \in Int
    OBVIOUS
  <2>3. PubHands'
    <3> SUFFICES ASSUME NEW b \in PublishAgents
                 PROVE  /\ Len(pubBatch'[b]) <= MaxBatchItems
                        /\ pubOk'[b] \in SUBSET DOMAIN pubBatch'[b]
                        /\ pubOk'[b] # {} => pubPc'[b] = "forward"
      OBVIOUS
    <3> QED BY <1>a
  <2>4. ChTypeOK' /\ UNCHANGED <<publishPool, publishRecent, pubBatch, pubOk, accepted>>
    OBVIOUS
  <2>5. PublishFlusherWaits'
    BY <1>a
  <2> QED BY <2>1, <2>2, <2>3, <2>4, <2>5
<1>2. ASSUME NEW p \in Publishers, TakePublish(p) PROVE PubTypeInv'
  <2> USE <1>2 DEF TakePublish, ReceivePublish
  <2>1. /\ Head(publishCh) \in Delivery /\ Tail(publishCh) \in Seq(Delivery)
        /\ Len(Tail(publishCh)) <= BufferSizePublish
    BY ReceiveType, QueueAssumption
  <2>2. ChTypeOK'
    BY <2>1
  <2>3. /\ pubPc' \in [PublishAgents -> PublisherPcs \cup FlusherPcs]
        /\ pubPc'[PublishFlusher] \in FlusherPcs
        /\ \A q \in Publishers : pubPc'[q] \in PublisherPcs
    BY <1>a DEF PublisherPcs, FlusherPcs
  <2>4. pubBatch' \in [PublishAgents -> Seq(Delivery)]
    BY <2>1, <1>a
  <2>5. PubHands'
    BY <2>1, <1>a
  <2> QED BY <2>2, <2>3, <2>4, <2>5
<1>3. ASSUME NEW p \in Publishers, AddPublish(p) PROVE PubTypeInv'
  BY <1>3, <1>a DEF AddPublish, PublisherPcs, FlusherPcs
<1>4. ASSUME NEW p \in Publishers, DrainPublish(p) PROVE PubTypeInv'
  BY <1>4, <1>a, BatchType, SurvivorsType DEF DrainPublish, PublisherPcs, FlusherPcs
<1>5. ASSUME NEW p \in Publishers, DrainedPublish(p) PROVE PubTypeInv'
  BY <1>5, <1>a DEF DrainedPublish, PublisherPcs, FlusherPcs
<1>7. ASSUME NEW a \in PublishAgents, ForwardPublished(a) PROVE PubTypeInv'
  <2> PICK i \in pubOk[a] :
         /\ SendDelete(pubBatch[a][i])
         /\ pubOk' = [pubOk EXCEPT ![a] = @ \ {i}]
         /\ IF pubOk[a] = {i}
            THEN PubHold(a, <<>>) /\ PubGoto(a, PubCaller(a))
            ELSE UNCHANGED <<pubBatch, pubPc>>
    BY <1>7 DEF ForwardPublished
  <2>1. /\ pubPc[a] = "forward"
        /\ UNCHANGED <<publishPool, publishers, publishRecent, accepted, publishCh>>
    BY <1>7 DEF ForwardPublished
  <2>2. pubBatch[a][i] \in Delivery
    OBVIOUS
  <2>3. ChTypeOK'
    BY <2>1, <2>2, SendType, QueueAssumption DEF SendDelete
  <2>4. /\ pubPc' \in [PublishAgents -> PublisherPcs \cup FlusherPcs]
        /\ pubPc'[PublishFlusher] \in FlusherPcs
        /\ \A q \in Publishers : pubPc'[q] \in PublisherPcs
    BY <1>a DEF PubCaller, PublisherPcs, FlusherPcs
  <2>5. /\ pubBatch' \in [PublishAgents -> Seq(Delivery)]
        /\ pubOk' \in [PublishAgents -> SUBSET (1..MaxBatchItems)]
    <3>1. CASE pubBatch' = pubBatch
      BY <3>1
    <3>2. CASE PubHold(a, <<>>)
      BY <3>2, <1>b
    <3> QED BY <3>1, <3>2
  <2>6. PubHands'
    BY <1>a, <2>1
  <2>7. PublishFlusherWaits'
    BY <1>a, <2>1 DEF PubCaller
  <2> QED BY <2>1, <2>3, <2>4, <2>5, <2>6, <2>7
<1>8. ASSUME NEW p \in Publishers, ScaleUpPublisher(p) PROVE PubTypeInv'
  BY <1>8, <1>a DEF ScaleUpPublisher, PublisherPcs, FlusherPcs
<1>9. ASSUME NEW p \in Publishers, CheckLimitPublishers(p) PROVE PubTypeInv'
  BY <1>9, <1>a DEF CheckLimitPublishers, PublisherPcs, FlusherPcs
<1>10. ASSUME NEW p \in Publishers, NEW q \in Publishers, SpawnPublisher(p, q) PROVE PubTypeInv'
  <2> USE <1>10 DEF SpawnPublisher
  <2>1. /\ pubPc' \in [PublishAgents -> PublisherPcs \cup FlusherPcs]
        /\ pubPc'[PublishFlusher] \in FlusherPcs
        /\ \A r \in Publishers : pubPc'[r] \in PublisherPcs
    BY <1>a DEF PublisherPcs, FlusherPcs
  <2>2. publishers' \in Int
    OBVIOUS
  <2>3. PubHands'
    <3> SUFFICES ASSUME NEW b \in PublishAgents
                 PROVE  /\ Len(pubBatch'[b]) <= MaxBatchItems
                        /\ pubOk'[b] \in SUBSET DOMAIN pubBatch'[b]
                        /\ pubOk'[b] # {} => pubPc'[b] = "forward"
      OBVIOUS
    <3> QED BY <1>a
  <2>4. ChTypeOK' /\ UNCHANGED <<publishPool, publishRecent, pubBatch, pubOk, accepted>>
    OBVIOUS
  <2>5. PublishFlusherWaits'
    BY <1>a
  <2> QED BY <2>1, <2>2, <2>3, <2>4, <2>5
<1>11. ASSUME NEW p \in Publishers, ScaleDownPublisher(p) PROVE PubTypeInv'
  <2> USE <1>11 DEF ScaleDownPublisher
  <2>1. /\ pubPc' \in [PublishAgents -> PublisherPcs \cup FlusherPcs]
        /\ pubPc'[PublishFlusher] \in FlusherPcs
        /\ \A q \in Publishers : pubPc'[q] \in PublisherPcs
    BY <1>a DEF PublisherPcs, FlusherPcs
  <2>2. publishers' \in Int
    OBVIOUS
  <2>3. PubHands'
    BY <1>a
  <2>4. PublishFlusherWaits'
    BY <1>a
  <2> QED BY <2>1, <2>2, <2>3, <2>4
<1>12. CASE ElapsePublish
  BY <1>12, <1>a DEF ElapsePublish
<1>13. CASE TickPublish
  BY <1>13, <1>a DEF TickPublish, PublisherPcs, FlusherPcs
<1>14. CASE FlushPublish
  <2> USE <1>14 DEF FlushPublish
  <2>1. /\ pubPc' \in [PublishAgents -> PublisherPcs \cup FlusherPcs]
        /\ pubPc'[PublishFlusher] \in FlusherPcs
        /\ \A q \in Publishers : pubPc'[q] \in PublisherPcs
    BY <1>a DEF PublisherPcs, FlusherPcs
  <2>2. /\ publishPool' \in Seq(Delivery)
        /\ pubBatch' \in [PublishAgents -> Seq(Delivery)]
    BY BatchType, SurvivorsType
  <2>3. PubHands'
    BY <1>a, BatchType
  <2>4. PublishFlusherWaits'
    BY <1>a
  <2> QED BY <2>1, <2>2, <2>3, <2>4
<1> QED
  BY <1>1, <1>2, <1>3, <1>4, <1>5, <1>7, <1>8, <1>9, <1>10, <1>11, <1>12, <1>13, <1>14, <1>a
  DEF PublishersStep, PublisherStep, PublishFlusherStep

(* So does a call, whatever SNS answers.                                   *)
LEMMA PubCallTypes ==
  ASSUME PubTypeInv, NEW a \in PublishAgents, PublishCall(a)
  PROVE  PubTypeInv'
<1> USE DEF PubTypeInv, PubTypeOK, ChTypeOK, PubHands, PublishFlusherWaits, PubGoto, PubHold, chVars, pubProcVars
<1>a. /\ PublishFlusher \notin Publishers /\ RootPublisher \in Publishers
      /\ PublishFlusher \in PublishAgents /\ Publishers \subseteq PublishAgents
      /\ MaxBatchItems \in Nat /\ MaxBatchItems >= 1
      /\ \A b \in PublishAgents : b \in Publishers \/ b = PublishFlusher
  BY PublisherAssumption, PoolAssumption DEF PublishAgents
<1>b. <<>> \in Seq(Delivery) /\ Len(<<>>) = 0
  OBVIOUS
<1> PICK successful \in SUBSET DOMAIN pubBatch[a], errPub \in BOOLEAN :
        BatchPublish(a, successful, errPub)
  BY DEF PublishCall
<1> DEFINE pub == IF errPub THEN {} ELSE Returned(pubBatch[a], successful)
<1> USE DEF BatchPublish
<1>1. pub \in SUBSET DOMAIN pubBatch[a] /\ pub \in SUBSET (1..MaxBatchItems)
  BY <1>a, ReturnedSuccessful
<1>2. {pubBatch[a][i] : i \in successful} \subseteq Delivery
  OBVIOUS
<1>3. accepted' \subseteq Delivery
  BY <1>2
<1>4. publishRecent' \in BOOLEAN
  OBVIOUS
<1>5. pubOk' = [pubOk EXCEPT ![a] = pub]
  OBVIOUS
<1>6. pubOk' \in [PublishAgents -> SUBSET (1..MaxBatchItems)]
  BY <1>1, <1>5
<1>7. \/ pub = {} /\ PubHold(a, <<>>) /\ PubGoto(a, PubCaller(a))
      \/ pub # {} /\ pubBatch' = pubBatch /\ PubGoto(a, "forward")
  OBVIOUS
<1>8. pubPc[a] = "publish" /\ UNCHANGED <<publishPool, publishers, chVars>>
  OBVIOUS
<1> HIDE DEF pub, BatchPublish
<1>9. pubBatch' \in [PublishAgents -> Seq(Delivery)]
  <2>1. CASE pubBatch' = pubBatch
    BY <2>1
  <2>2. CASE PubHold(a, <<>>)
    BY <2>2, <1>b
  <2> QED BY <1>7, <2>1, <2>2
<1>10. /\ pubPc' \in [PublishAgents -> PublisherPcs \cup FlusherPcs]
       /\ pubPc'[PublishFlusher] \in FlusherPcs
       /\ \A q \in Publishers : pubPc'[q] \in PublisherPcs
  BY <1>a, <1>7 DEF PubCaller, PublisherPcs, FlusherPcs
<1>11. PubHands'
  <2> SUFFICES ASSUME NEW b \in PublishAgents
               PROVE  /\ Len(pubBatch'[b]) <= MaxBatchItems
                      /\ pubOk'[b] \in SUBSET DOMAIN pubBatch'[b]
                      /\ pubOk'[b] # {} => pubPc'[b] = "forward"
    OBVIOUS
  <2>1. CASE b # a
    BY <2>1, <1>5, <1>7
  <2>2. CASE b = a /\ pub = {}
    BY <2>2, <1>a, <1>5, <1>7
  <2>3. CASE b = a /\ pub # {}
    BY <2>3, <1>1, <1>5, <1>7
  <2> QED BY <2>1, <2>2, <2>3
<1>12. PublishFlusherWaits'
  BY <1>a, <1>7, <1>8 DEF PubCaller
<1> QED BY <1>3, <1>4, <1>6, <1>8, <1>9, <1>10, <1>11, <1>12

-----------------------------------------------------------------------------
(* A goroutine outside of add, publish and forward has empty hands.        *)
PubIdle ==
  \A a \in PublishAgents : pubPc[a] \notin {"add", "publish", "forward"} => pubBatch[a] = <<>>

LEMMA PubStepIdle == PubTypeInv /\ PubIdle /\ PublishersStep => PubIdle'
<1> SUFFICES ASSUME PubTypeInv, PubIdle, PublishersStep PROVE PubIdle'
  OBVIOUS
<1> USE DEF PubGoto, PubHold, chVars, pubProcVars
<1>a. /\ PublishFlusher \in PublishAgents /\ Publishers \subseteq PublishAgents
  BY DEF PublishAgents
<1>b. /\ pubPc \in [PublishAgents -> PublisherPcs \cup FlusherPcs]
      /\ pubBatch \in [PublishAgents -> Seq(Delivery)]
  BY DEF PubTypeInv, PubTypeOK
<1>1. ASSUME NEW a \in PublishAgents, NEW l, PubGoto(a, l),
             \/ l \in {"add", "publish", "forward"} /\ UNCHANGED pubBatch
             \/ l \in {"add", "publish", "forward"} /\ \E batch : PubHold(a, batch)
             \/ pubPc[a] \notin {"add", "publish", "forward"} /\ UNCHANGED pubBatch
             \/ PubHold(a, <<>>)
      PROVE  PubIdle'
  <2>1. \A b \in PublishAgents \ {a} : pubBatch'[b] = pubBatch[b] /\ pubPc'[b] = pubPc[b]
    BY <1>1, <1>b
  <2>2. pubPc'[a] = l
    BY <1>1, <1>b
  <2>3. l \notin {"add", "publish", "forward"} => pubBatch'[a] = <<>>
    BY <1>1, <1>b DEF PubIdle
  <2> QED BY <2>1, <2>2, <2>3 DEF PubIdle
<1>2. ASSUME UNCHANGED <<pubPc, pubBatch>> PROVE PubIdle'
  BY <1>2 DEF PubIdle
<1>4. ASSUME NEW a \in PublishAgents, ForwardPublished(a) PROVE PubIdle'
  <2>1. \/ UNCHANGED <<pubPc, pubBatch>>
        \/ PubHold(a, <<>>) /\ PubGoto(a, PubCaller(a))
    BY <1>4 DEF ForwardPublished
  <2> QED BY <2>1, <1>1, <1>2
<1>5. ASSUME NEW p \in Publishers, PublisherStep(p) PROVE PubIdle'
  <2>1. CASE TakePublish(p)
    <3>1. PubGoto(p, "add") /\ \E batch : PubHold(p, batch)
      BY <2>1 DEF TakePublish
    <3> QED BY <3>1, <1>1, <1>a
  <2>2. CASE AddPublish(p)
    BY <2>2, <1>1, <1>a DEF AddPublish
  <2>3. CASE DrainPublish(p)
    <3>1. PubGoto(p, "publish") /\ \E batch : PubHold(p, batch)
      BY <2>3 DEF DrainPublish
    <3> QED BY <3>1, <1>1, <1>a
  <2>4. CASE \/ DrainedPublish(p) \/ ScaleUpPublisher(p) \/ CheckLimitPublishers(p)
             \/ ScaleDownPublisher(p)
    <3>1. /\ pubPc[p] \notin {"add", "publish", "forward"} /\ UNCHANGED pubBatch
          /\ \E l : PubGoto(p, l)
      BY <2>4 DEF DrainedPublish, ScaleUpPublisher, CheckLimitPublishers, ScaleDownPublisher
    <3> QED BY <3>1, <1>1, <1>a
  <2>5. ASSUME NEW q \in Publishers, SpawnPublisher(p, q) PROVE PubIdle'
    <3>1. /\ pubPc[p] = "spawn" /\ pubPc[q] = "none" /\ UNCHANGED pubBatch
          /\ pubPc' = [pubPc EXCEPT ![p] = "range", ![q] = "range"]
      BY <2>5 DEF SpawnPublisher
    <3> QED BY <3>1, <1>a, <1>b DEF PubIdle
  <2> QED BY <1>5, <2>1, <2>2, <2>3, <2>4, <2>5, <1>4, <1>a DEF PublisherStep
<1>6. CASE FlushPublish
  <2>1. CASE Available(publishPool)
    <3>1. PubGoto(PublishFlusher, "publish") /\ \E batch : PubHold(PublishFlusher, batch)
      BY <1>6, <2>1 DEF FlushPublish
    <3> QED BY <3>1, <1>1, <1>a
  <2>2. CASE ~Available(publishPool)
    BY <1>6, <2>2, <1>1, <1>a DEF FlushPublish
  <2> QED BY <2>1, <2>2
<1>7. CASE TickPublish
  BY <1>7, <1>1, <1>a DEF TickPublish
<1>8. CASE StartRootPublisher
  <2>1. /\ pubPc[RootPublisher] = "start" /\ pubPc[PublishFlusher] = "none" /\ UNCHANGED pubBatch
        /\ pubPc' = [pubPc EXCEPT ![RootPublisher] = "range", ![PublishFlusher] = "ticker"]
    BY <1>8 DEF StartRootPublisher, PubTypeInv, PublishFlusherWaits
  <2> QED BY <2>1, <1>a, <1>b, PublisherAssumption DEF PubIdle
<1>9. CASE ElapsePublish
  BY <1>9, <1>2 DEF ElapsePublish
<1> QED BY <1>4, <1>5, <1>6, <1>7, <1>8, <1>9, <1>a DEF PublishersStep, PublishFlusherStep

LEMMA PubCallIdle ==
  ASSUME PubTypeInv, PubIdle, NEW a \in PublishAgents, PublishCall(a)
  PROVE  PubIdle'
<1> USE DEF PubGoto, PubHold
<1>a. /\ pubPc \in [PublishAgents -> PublisherPcs \cup FlusherPcs]
      /\ pubBatch \in [PublishAgents -> Seq(Delivery)]
  BY DEF PubTypeInv, PubTypeOK
<1>1. \/ UNCHANGED pubBatch /\ PubGoto(a, "forward")
      \/ PubHold(a, <<>>) /\ PubGoto(a, PubCaller(a))
  BY DEF PublishCall, BatchPublish
<1>2. \A b \in PublishAgents \ {a} : pubBatch'[b] = pubBatch[b] /\ pubPc'[b] = pubPc[b]
  BY <1>1, <1>a
<1>3. pubPc'[a] = "forward" \/ pubBatch'[a] = <<>>
  BY <1>1, <1>a
<1> QED BY <1>2, <1>3 DEF PubIdle

-----------------------------------------------------------------------------
(* The accounting behind NothingLost and SingleCustody: a step of the      *)
(* goroutines moves occurrences of a delivery between one goroutine's      *)
(* hands, the channels and the pool, and changes no other hands.           *)
PubStored(d) ==
  Occurrences(publishCh, d) + Occurrences(publishPool, d) + Occurrences(deleteCh, d)

PubMoves(a, d) ==
  /\ \A b \in PublishAgents \ {a} : PubInHand(b, d)' = PubInHand(b, d)
  /\ PubStored(d)' + PubInHand(a, d)' = PubStored(d) + PubInHand(a, d)

LEMMA PubCounts ==
  ASSUME PubTypeInv, NEW d
  PROVE  /\ Occurrences(publishCh, d) \in Nat /\ Occurrences(publishPool, d) \in Nat
         /\ Occurrences(deleteCh, d) \in Nat /\ PubStored(d) \in Nat
         /\ \A a \in PublishAgents : PubInHand(a, d) \in Nat
<1>1. /\ publishCh \in Seq(Delivery) /\ deleteCh \in Seq(Delivery)
      /\ publishPool \in Seq(Delivery)
      /\ \A a \in PublishAgents : /\ pubBatch[a] \in Seq(Delivery)
                                  /\ pubOk[a] \in SUBSET (1..MaxBatchItems)
  BY DEF PubTypeInv, PubTypeOK, ChTypeOK
<1>2. /\ Occurrences(publishCh, d) \in Nat /\ Occurrences(publishPool, d) \in Nat
      /\ Occurrences(deleteCh, d) \in Nat
  BY <1>1, OccurrencesType
<1>3. ASSUME NEW a \in PublishAgents PROVE PubInHand(a, d) \in Nat
  <2>1. Occurrences(pubBatch[a], d) \in Nat
    BY <1>1, OccurrencesType
  <2>2. Cardinality({i \in pubOk[a] : pubBatch[a][i] = d}) \in Nat
    <3> DEFINE T == {i \in pubOk[a] : pubBatch[a][i] = d}
    <3>1. T \in SUBSET (1..MaxBatchItems)
      BY <1>1
    <3> HIDE DEF T
    <3>2. Cardinality(T) \in Nat
      BY <3>1, PoolAssumption, UpToFinite, FS_Subset, FS_CardinalityType
    <3> QED BY <3>2 DEF T
  <2> QED BY <2>1, <2>2 DEF PubInHand
<1> QED BY <1>2, <1>3 DEF PubStored

LEMMA PubCountsNext ==
  ASSUME PubTypeInv', NEW d
  PROVE  /\ PubStored(d)' \in Nat
         /\ \A a \in PublishAgents : PubInHand(a, d)' \in Nat
<1>1. /\ publishCh' \in Seq(Delivery) /\ deleteCh' \in Seq(Delivery)
      /\ publishPool' \in Seq(Delivery)
      /\ \A a \in PublishAgents : /\ pubBatch'[a] \in Seq(Delivery)
                                  /\ pubOk'[a] \in SUBSET (1..MaxBatchItems)
  BY DEF PubTypeInv, PubTypeOK, ChTypeOK
<1>2. /\ Occurrences(publishCh', d) \in Nat /\ Occurrences(publishPool', d) \in Nat
      /\ Occurrences(deleteCh', d) \in Nat
  BY <1>1, OccurrencesType
<1>3. ASSUME NEW a \in PublishAgents PROVE PubInHand(a, d)' \in Nat
  <2>1. Occurrences(pubBatch'[a], d) \in Nat
    BY <1>1, OccurrencesType
  <2>2. Cardinality({i \in pubOk'[a] : pubBatch'[a][i] = d}) \in Nat
    <3> DEFINE T == {i \in pubOk'[a] : pubBatch'[a][i] = d}
    <3>1. T \in SUBSET (1..MaxBatchItems)
      BY <1>1
    <3> HIDE DEF T
    <3>2. Cardinality(T) \in Nat
      BY <3>1, PoolAssumption, UpToFinite, FS_Subset, FS_CardinalityType
    <3> QED BY <3>2 DEF T
  <2> QED BY <2>1, <2>2 DEF PubInHand
<1> QED BY <1>2, <1>3 DEF PubStored

LEMMA PubStepMoves ==
  ASSUME PubTypeInv, PubIdle, PublishersStep, NEW d
  PROVE  \E a \in PublishAgents : PubMoves(a, d)
<1> USE DEF PubGoto, PubHold
<1>a. PublishFlusher \in PublishAgents /\ Publishers \subseteq PublishAgents
  BY DEF PublishAgents
<1>b. /\ publishCh \in Seq(Delivery) /\ deleteCh \in Seq(Delivery)
      /\ publishPool \in Seq(Delivery)
      /\ pubBatch \in [PublishAgents -> Seq(Delivery)]
      /\ pubPc \in [PublishAgents -> PublisherPcs \cup FlusherPcs]
      /\ pubOk \in [PublishAgents -> SUBSET (1..MaxBatchItems)]
      /\ \A a \in PublishAgents : pubOk[a] \in SUBSET DOMAIN pubBatch[a]
  BY DEF PubTypeInv, PubTypeOK, ChTypeOK, PubHands
<1>c. /\ Occurrences(publishCh, d) \in Nat /\ Occurrences(publishPool, d) \in Nat
      /\ Occurrences(deleteCh, d) \in Nat
      /\ \A a \in PublishAgents : PubInHand(a, d) \in Nat
      /\ Occurrences(<<>>, d) = 0
  BY PubCounts, OccurrencesEmpty
(* Nobody else's hands change.                                             *)
<1>d. ASSUME NEW a \in PublishAgents,
             \A b \in PublishAgents \ {a} :
               pubBatch'[b] = pubBatch[b] /\ pubOk'[b] = pubOk[b] /\ pubPc'[b] = pubPc[b]
      PROVE  \A b \in PublishAgents \ {a} : PubInHand(b, d)' = PubInHand(b, d)
  BY <1>d DEF PubInHand
<1>1. ASSUME UNCHANGED <<publishCh, publishPool, deleteCh, pubBatch, pubOk>>,
             \A b \in PublishAgents : pubPc'[b] = "forward" <=> pubPc[b] = "forward"
      PROVE  \E a \in PublishAgents : PubMoves(a, d)
  <2>1. \A b \in PublishAgents : PubInHand(b, d)' = PubInHand(b, d)
    BY <1>1 DEF PubInHand
  <2>2. PubStored(d)' = PubStored(d)
    BY <1>1 DEF PubStored
  <2> QED BY <2>1, <2>2, <1>a DEF PubMoves
(* A batch or what getAvailable gives is taken out of the pool.            *)
<1>2. ASSUME NEW a \in PublishAgents, pubPc[a] \notin {"add", "publish", "forward"},
             PubHold(a, Batch(publishPool)), PubGoto(a, "publish"),
             publishPool' = Survivors(publishPool), UNCHANGED <<publishCh, deleteCh, pubOk>>
      PROVE  PubMoves(a, d)
  <2>1. PubInHand(a, d) = 0
    BY <1>2, <1>c DEF PubIdle, PubInHand
  <2>2. pubBatch'[a] = Batch(publishPool) /\ pubPc'[a] = "publish"
    BY <1>2, <1>b
  <2>3. PubInHand(a, d)' = Occurrences(Batch(publishPool), d)
    BY <2>2 DEF PubInHand
  <2>4. /\ Occurrences(publishPool, d)
             = Occurrences(Batch(publishPool), d) + Occurrences(Survivors(publishPool), d)
    BY <1>b, SplitV2
  <2>5. /\ Occurrences(Batch(publishPool), d) \in Nat
        /\ Occurrences(Survivors(publishPool), d) \in Nat
    BY <1>b, BatchType, SurvivorsType, OccurrencesType
  <2>6. /\ Occurrences(publishPool', d) = Occurrences(Survivors(publishPool), d)
        /\ Occurrences(publishCh', d) = Occurrences(publishCh, d)
        /\ Occurrences(deleteCh', d) = Occurrences(deleteCh, d)
    BY <1>2
  <2>7. \A b \in PublishAgents \ {a} : PubInHand(b, d)' = PubInHand(b, d)
    BY <1>2, <1>b, <1>d
  <2> QED BY <2>1, <2>3, <2>4, <2>5, <2>6, <2>7, <1>c DEF PubMoves, PubStored
<1>3. ASSUME NEW p \in Publishers, TakePublish(p) PROVE PubMoves(p, d)
  <2>1. /\ pubPc[p] = "range" /\ publishCh # <<>> /\ publishCh' = Tail(publishCh)
        /\ pubBatch' = [pubBatch EXCEPT ![p] = <<Head(publishCh)>>]
        /\ pubPc' = [pubPc EXCEPT ![p] = "add"]
        /\ UNCHANGED <<publishPool, deleteCh, pubOk>>
    BY <1>3 DEF TakePublish, ReceivePublish
  <2>2. PubInHand(p, d) = 0
    BY <2>1, <1>a, <1>c DEF PubIdle, PubInHand
  <2>3. Occurrences(publishCh, d)
          = Occurrences(<<Head(publishCh)>>, d) + Occurrences(Tail(publishCh), d)
    BY <2>1, <1>b, OccurrencesHeadTail
  <2>4. pubBatch'[p] = <<Head(publishCh)>> /\ pubPc'[p] = "add"
    BY <2>1, <1>a, <1>b
  <2>5. PubInHand(p, d)' = Occurrences(<<Head(publishCh)>>, d)
    BY <2>4 DEF PubInHand
  <2>6. Occurrences(Tail(publishCh), d) \in Nat /\ Occurrences(<<Head(publishCh)>>, d) \in Nat
    <3>1. Tail(publishCh) \in Seq(Delivery)
      BY <2>1, <1>b
    <3>2. Occurrences(Tail(publishCh), d) \in Nat
      BY <3>1, OccurrencesType
    <3>3. Occurrences(<<Head(publishCh)>>, d) \in Nat
      BY OccurrencesOne
    <3> QED BY <3>2, <3>3
  <2>7. /\ Occurrences(publishCh', d) = Occurrences(Tail(publishCh), d)
        /\ Occurrences(publishPool', d) = Occurrences(publishPool, d)
        /\ Occurrences(deleteCh', d) = Occurrences(deleteCh, d)
    BY <2>1
  <2>8. \A b \in PublishAgents \ {p} : PubInHand(b, d)' = PubInHand(b, d)
    BY <2>1, <1>a, <1>b, <1>d
  <2> QED BY <2>2, <2>3, <2>5, <2>6, <2>7, <2>8, <1>c DEF PubMoves, PubStored
<1>4. ASSUME NEW p \in Publishers, AddPublish(p) PROVE PubMoves(p, d)
  <2>1. /\ pubPc[p] = "add" /\ publishPool' = publishPool \o pubBatch[p]
        /\ pubBatch' = [pubBatch EXCEPT ![p] = <<>>]
        /\ pubPc' = [pubPc EXCEPT ![p] = "getFullBatch"]
        /\ UNCHANGED <<publishCh, deleteCh, pubOk>>
    BY <1>4 DEF AddPublish, chVars
  <2>2. pubBatch[p] \in Seq(Delivery)
    BY <1>a, <1>b
  <2>3. Occurrences(publishPool \o pubBatch[p], d)
          = Occurrences(publishPool, d) + Occurrences(pubBatch[p], d)
    BY <2>2, <1>b, OccurrencesConcat
  <2>4. PubInHand(p, d) = Occurrences(pubBatch[p], d)
    BY <2>1 DEF PubInHand
  <2>5. pubBatch'[p] = <<>> /\ pubPc'[p] = "getFullBatch"
    BY <2>1, <1>a, <1>b
  <2>6. PubInHand(p, d)' = 0
    BY <2>5, <1>c DEF PubInHand
  <2>7. /\ Occurrences(publishPool', d) = Occurrences(publishPool \o pubBatch[p], d)
        /\ Occurrences(publishCh', d) = Occurrences(publishCh, d)
        /\ Occurrences(deleteCh', d) = Occurrences(deleteCh, d)
    BY <2>1
  <2>8. \A b \in PublishAgents \ {p} : PubInHand(b, d)' = PubInHand(b, d)
    BY <2>1, <1>a, <1>b, <1>d
  <2>9. PubInHand(p, d) \in Nat
    BY <1>a, <1>c
  <2> QED BY <2>3, <2>4, <2>6, <2>7, <2>8, <2>9, <1>c DEF PubMoves, PubStored
<1>5. ASSUME NEW a \in PublishAgents, ForwardPublished(a) PROVE PubMoves(a, d)
  <2> PICK i \in pubOk[a] :
         /\ SendDelete(pubBatch[a][i])
         /\ pubOk' = [pubOk EXCEPT ![a] = @ \ {i}]
         /\ IF pubOk[a] = {i}
            THEN PubHold(a, <<>>) /\ PubGoto(a, PubCaller(a))
            ELSE UNCHANGED <<pubBatch, pubPc>>
    BY <1>5 DEF ForwardPublished
  <2> DEFINE e == pubBatch[a][i]
             T == {j \in pubOk[a] : pubBatch[a][j] = d}
             U == {j \in pubOk[a] \ {i} : pubBatch[a][j] = d}
             one == IF e = d THEN 1 ELSE 0
  <2>1. /\ pubPc[a] = "forward" /\ UNCHANGED <<publishPool, publishCh>>
        /\ deleteCh' = Append(deleteCh, e)
    BY <1>5 DEF ForwardPublished, SendDelete
  <2>2. e \in Delivery
    BY <1>b
  <2>3. Occurrences(Append(deleteCh, e), d) = Occurrences(deleteCh, d) + one
    <3> HIDE DEF e
    <3>1. /\ Occurrences(Append(deleteCh, e), d)
               = Occurrences(deleteCh, d) + Occurrences(<<e>>, d)
      BY <2>2, <1>b, OccurrencesAppend
    <3> QED BY <3>1, OccurrencesOne
  <2>4. Cardinality(T) = Cardinality(U) + one
    <3>1. T \in SUBSET pubOk[a] /\ (IF e = d THEN i \in T /\ U = T \ {i} ELSE U = T)
      OBVIOUS
    <3>2. one = IF e = d THEN 1 ELSE 0
      OBVIOUS
    <3>3. T \in SUBSET (1..MaxBatchItems)
      BY <1>b
    <3> HIDE DEF T, U, e, one
    <3>4. IsFiniteSet(T) /\ Cardinality(T) \in Nat
      BY <3>3, PoolAssumption, UpToFinite, FS_Subset, FS_CardinalityType
    <3>5. CASE e = d
      <4>1. i \in T /\ U = T \ {i} /\ one = 1
        BY <3>1, <3>2, <3>5
      <4>2. Cardinality(U) = Cardinality(T) - 1
        BY <3>4, <4>1, FS_RemoveElement
      <4> QED BY <3>4, <4>1, <4>2
    <3>6. CASE e # d
      BY <3>1, <3>2, <3>4, <3>6
    <3> QED BY <3>5, <3>6
  <2>5. PubInHand(a, d) = Cardinality(T)
    BY <2>1 DEF PubInHand
  <2>6. PubInHand(a, d)' = Cardinality(U)
    <3>1. CASE pubOk[a] = {i}
      <4>1. pubBatch'[a] = <<>> /\ pubPc'[a] # "forward"
        BY <3>1, <1>b DEF PubCaller
      <4>2. U = {}
        BY <3>1
      <4> QED BY <4>1, <4>2, <1>c, FS_EmptySet DEF PubInHand
    <3>2. CASE pubOk[a] # {i}
      <4>1. pubBatch'[a] = pubBatch[a] /\ pubPc'[a] = "forward" /\ pubOk'[a] = pubOk[a] \ {i}
        BY <3>2, <2>1, <1>b
      <4> QED BY <4>1 DEF PubInHand
    <3> QED BY <3>1, <3>2
  <2>7. \A b \in PublishAgents \ {a} : PubInHand(b, d)' = PubInHand(b, d)
    <3>1. \A b \in PublishAgents \ {a} :
            pubBatch'[b] = pubBatch[b] /\ pubOk'[b] = pubOk[b] /\ pubPc'[b] = pubPc[b]
      BY <1>b
    <3> QED BY <3>1, <1>d
  <2>8. Cardinality(T) \in Nat
    BY <2>5, <1>c
  <2>9. Cardinality(U) \in Nat
    <3>1. U \in SUBSET (1..MaxBatchItems)
      BY <1>b
    <3> HIDE DEF U
    <3> QED BY <3>1, PoolAssumption, UpToFinite, FS_Subset, FS_CardinalityType
  <2>10. one \in {0, 1}
    OBVIOUS
  <2>11. /\ Occurrences(deleteCh', d) = Occurrences(deleteCh, d) + one
         /\ Occurrences(publishCh', d) = Occurrences(publishCh, d)
         /\ Occurrences(publishPool', d) = Occurrences(publishPool, d)
    BY <2>1, <2>3
  <2> HIDE DEF T, U, e, one
  <2> QED BY <2>4, <2>5, <2>6, <2>7, <2>8, <2>9, <2>10, <2>11, <1>c DEF PubMoves, PubStored
<1>6. ASSUME NEW p \in Publishers, DrainPublish(p) PROVE PubMoves(p, d)
  BY <1>6, <1>2, <1>a DEF DrainPublish, chVars
<1>7. CASE FlushPublish
  <2>1. CASE Available(publishPool)
    BY <1>7, <1>2, <1>a, <2>1 DEF FlushPublish, chVars
  <2>2. CASE ~Available(publishPool)
    <3>1. /\ UNCHANGED <<publishCh, publishPool, deleteCh, pubBatch, pubOk>>
          /\ pubPc[PublishFlusher] = "getAvailable"
          /\ pubPc' = [pubPc EXCEPT ![PublishFlusher] = "ticker"]
      BY <1>7, <2>2 DEF FlushPublish, chVars
    <3> QED BY <3>1, <1>1, <1>b
  <2> QED BY <2>1, <2>2, <1>a
<1>8. ASSUME NEW p \in Publishers, PublisherStep(p)
      PROVE  \E a \in PublishAgents : PubMoves(a, d)
  <2>1. CASE \/ DrainedPublish(p) \/ ScaleUpPublisher(p) \/ CheckLimitPublishers(p)
             \/ ScaleDownPublisher(p)
    <3>1. /\ UNCHANGED <<publishCh, publishPool, deleteCh, pubBatch, pubOk>>
          /\ pubPc[p] # "forward"
          /\ \E l : l # "forward" /\ PubGoto(p, l)
      BY <2>1 DEF DrainedPublish, ScaleUpPublisher, CheckLimitPublishers, ScaleDownPublisher, chVars
    <3>2. \A b \in PublishAgents : pubPc'[b] = "forward" <=> pubPc[b] = "forward"
      BY <3>1, <1>b
    <3> QED BY <3>1, <3>2, <1>1
  <2>2. ASSUME NEW q \in Publishers, SpawnPublisher(p, q)
        PROVE  \E a \in PublishAgents : PubMoves(a, d)
    <3>1. /\ UNCHANGED <<publishCh, publishPool, deleteCh, pubBatch, pubOk>>
          /\ pubPc[p] = "spawn" /\ pubPc[q] = "none"
          /\ pubPc' = [pubPc EXCEPT ![p] = "range", ![q] = "range"]
      BY <2>2 DEF SpawnPublisher, chVars
    <3>2. \A b \in PublishAgents : pubPc'[b] = "forward" <=> pubPc[b] = "forward"
      BY <3>1, <1>b
    <3> QED BY <3>1, <3>2, <1>1
  <2> QED BY <1>8, <2>1, <2>2, <1>3, <1>4, <1>5, <1>6, <1>a DEF PublisherStep
<1>9. CASE StartRootPublisher
  <2>1. /\ UNCHANGED <<publishCh, publishPool, deleteCh, pubBatch, pubOk>>
        /\ pubPc[RootPublisher] = "start" /\ pubPc[PublishFlusher] = "none"
        /\ pubPc' = [pubPc EXCEPT ![RootPublisher] = "range", ![PublishFlusher] = "ticker"]
    BY <1>9 DEF StartRootPublisher, chVars, PubTypeInv, PublishFlusherWaits
  <2>2. \A b \in PublishAgents : pubPc'[b] = "forward" <=> pubPc[b] = "forward"
    BY <2>1, <1>b
  <2> QED BY <2>1, <2>2, <1>1
<1>10. CASE TickPublish
  <2>1. /\ UNCHANGED <<publishCh, publishPool, deleteCh, pubBatch, pubOk>>
        /\ pubPc[PublishFlusher] = "ticker"
        /\ pubPc' = [pubPc EXCEPT ![PublishFlusher] = "getAvailable"]
    BY <1>10 DEF TickPublish, chVars
  <2> QED BY <2>1, <1>1, <1>b
<1>11. CASE ElapsePublish
  BY <1>11, <1>1 DEF ElapsePublish, chVars
<1> QED BY <1>5, <1>7, <1>8, <1>9, <1>10, <1>11, <1>a DEF PublishersStep, PublishFlusherStep

(* A PublishBatch keeps or drops what is in the caller's hands.            *)
LEMMA PubCallDrops ==
  ASSUME PubTypeInv, NEW a \in PublishAgents, PublishCall(a), NEW d
  PROVE  /\ pubPc[a] = "publish" /\ pubPc'[a] # "publish"
         /\ UNCHANGED <<publishCh, publishPool, deleteCh>>
         /\ \A b \in PublishAgents \ {a} : PubInHand(b, d)' = PubInHand(b, d)
         /\ PubInHand(a, d)' <= PubInHand(a, d)
<1> USE DEF PubGoto, PubHold
<1>b. /\ pubBatch \in [PublishAgents -> Seq(Delivery)]
      /\ pubPc \in [PublishAgents -> PublisherPcs \cup FlusherPcs]
      /\ pubOk \in [PublishAgents -> SUBSET (1..MaxBatchItems)]
  BY DEF PubTypeInv, PubTypeOK, ChTypeOK, PubHands
<1> PICK successful \in SUBSET DOMAIN pubBatch[a], errPub \in BOOLEAN :
       BatchPublish(a, successful, errPub)
  BY DEF PublishCall
<1> DEFINE pub == IF errPub THEN {} ELSE Returned(pubBatch[a], successful)
<1>1. pub \in SUBSET DOMAIN pubBatch[a]
  BY ReturnedSuccessful
<1>2. /\ pubPc[a] = "publish" /\ UNCHANGED <<publishCh, publishPool, deleteCh>>
      /\ pubOk' = [pubOk EXCEPT ![a] = pub]
      /\ \/ pub = {} /\ PubHold(a, <<>>) /\ PubGoto(a, PubCaller(a))
         \/ pub # {} /\ pubBatch' = pubBatch /\ PubGoto(a, "forward")
  BY DEF BatchPublish, chVars
<1> HIDE DEF pub
<1>3. pubPc'[a] # "publish"
  BY <1>2, <1>b DEF PubCaller
<1>4. \A b \in PublishAgents \ {a} : PubInHand(b, d)' = PubInHand(b, d)
  <2>1. \A b \in PublishAgents \ {a} :
          pubBatch'[b] = pubBatch[b] /\ pubOk'[b] = pubOk[b] /\ pubPc'[b] = pubPc[b]
    BY <1>2, <1>b
  <2> QED BY <2>1 DEF PubInHand
<1>5. PubInHand(a, d) = Occurrences(pubBatch[a], d)
  BY <1>2 DEF PubInHand
<1>6. PubInHand(a, d) \in Nat
  BY PubCounts
<1>7. CASE pub = {}
  <2>1. pubBatch'[a] = <<>> /\ pubPc'[a] # "forward"
    BY <1>2, <1>7, <1>b DEF PubCaller
  <2>2. PubInHand(a, d)' = 0
    BY <2>1, OccurrencesEmpty DEF PubInHand
  <2> QED BY <1>2, <1>3, <1>4, <1>6, <2>2
<1>8. CASE pub # {}
  <2> DEFINE T == {i \in DOMAIN pubBatch[a] : pubBatch[a][i] = d}
             U == {i \in pub : pubBatch[a][i] = d}
  <2>1. pubBatch'[a] = pubBatch[a] /\ pubPc'[a] = "forward" /\ pubOk'[a] = pub
    BY <1>2, <1>8, <1>b
  <2>2. PubInHand(a, d)' = Cardinality(U)
    BY <2>1 DEF PubInHand
  <2>3. U \in SUBSET T
    BY <1>1
  <2>4. IsFiniteSet(T)
    BY <1>b, OccurrencesType
  <2>5. PubInHand(a, d) = Cardinality(T)
    BY <1>5 DEF Occurrences
  <2> HIDE DEF T, U
  <2>6. Cardinality(U) <= Cardinality(T)
    BY <2>3, <2>4, FS_Subset
  <2> QED BY <1>2, <1>3, <1>4, <2>2, <2>5, <2>6
<1> QED BY <1>7, <1>8

LEMMA PublishAgentsFinite == IsFiniteSet(PublishAgents)
BY PublisherAssumption, FS_AddElement DEF PublishAgents

-----------------------------------------------------------------------------
(* The janitors, strengthening their types: one holds a message between the *)
(* channel and the pool, a batch while it deletes, and nothing otherwise.  *)
JanHands ==
  \A a \in DeleteAgents :
    /\ janPc[a] = "add" => Len(janBatch[a]) = 1
    /\ janPc[a] = "delete" => Len(janBatch[a]) \in 1..MaxBatchItems
    /\ janPc[a] \notin {"add", "delete"} => janBatch[a] = <<>>

(* The flusher does not run before the root has started it.                *)
DeleteFlusherWaits == janPc[RootJanitor] = "start" => janPc[DeleteFlusher] = "none"

JanTypeInv == ChTypeOK /\ JanTypeOK /\ SqsTypeOK /\ JanHands /\ DeleteFlusherWaits

LEMMA JanInitTypes == JanInit /\ ChInit /\ SqsTypeOK => JanTypeInv
<1> SUFFICES ASSUME JanInit, ChInit, SqsTypeOK PROVE JanTypeInv
  OBVIOUS
<1> USE DEF JanInit, ChInit, JanPcInit
<1>1. ChTypeOK
  BY QueueAssumption DEF ChTypeOK
<1>3. /\ janPc \in [DeleteAgents -> JanitorPcs \cup DeleteFlusherPcs]
      /\ janPc[DeleteFlusher] \in DeleteFlusherPcs
      /\ \A j \in Janitors : janPc[j] \in JanitorPcs
  BY JanitorAssumption DEF DeleteAgents, JanitorPcs, DeleteFlusherPcs
<1>4. /\ deletePool \in Seq(Delivery) /\ janitors \in Int
      /\ janBatch \in [DeleteAgents -> Seq(Delivery)]
  OBVIOUS
<1>5. deleteRecent \in BOOLEAN
  OBVIOUS
<1>6. JanHands /\ DeleteFlusherWaits
  BY JanitorAssumption DEF JanHands, DeleteFlusherWaits, DeleteAgents
<1> QED BY <1>1, <1>3, <1>4, <1>5, <1>6 DEF JanTypeInv, JanTypeOK

(* Every step of the goroutines, apart from the calls of SQS, keeps this.  *)
LEMMA JanStepTypes == JanTypeInv /\ JanitorsStep => JanTypeInv'
<1> SUFFICES ASSUME JanTypeInv, JanitorsStep PROVE JanTypeInv'
  OBVIOUS
<1> USE DEF JanTypeInv, JanTypeOK, JanHands, DeleteFlusherWaits, JanGoto, JanHold
<1>a. /\ DeleteFlusher \notin Janitors /\ RootJanitor \in Janitors
      /\ DeleteFlusher \in DeleteAgents /\ Janitors \subseteq DeleteAgents
      /\ MaxBatchItems \in Nat /\ MaxBatchItems >= 1
      /\ \A a \in DeleteAgents : a \in Janitors \/ a = DeleteFlusher
  BY JanitorAssumption, PoolAssumption DEF DeleteAgents
<1>b. <<>> \in Seq(Delivery) /\ Len(<<>>) = 0
  OBVIOUS
<1>c. ASSUME UNCHANGED chVars PROVE ChTypeOK'
  BY <1>c DEF ChTypeOK, chVars
<1>d. ASSUME UNCHANGED sqsVars PROVE SqsTypeOK'
  BY <1>d DEF SqsTypeOK, sqsVars
(* A step of a goroutine with empty hands that takes nothing into them.    *)
<1>e. ASSUME NEW a \in DeleteAgents, janPc[a] \notin {"add", "delete"},
             NEW l, l \notin {"start", "add", "delete"}, JanGoto(a, l),
             a = DeleteFlusher => l \in DeleteFlusherPcs,
             a = DeleteFlusher => janPc[a] # "none",
             a # DeleteFlusher => l \in JanitorPcs,
             janitors' \in Int,
             UNCHANGED <<deletePool, deleteRecent, janBatch, chVars, sqsVars>>
      PROVE  JanTypeInv'
  <2>1. /\ janPc' \in [DeleteAgents -> JanitorPcs \cup DeleteFlusherPcs]
        /\ janPc'[DeleteFlusher] \in DeleteFlusherPcs
        /\ \A q \in Janitors : janPc'[q] \in JanitorPcs
    BY <1>e, <1>a
  <2>2. JanHands' /\ DeleteFlusherWaits'
    BY <1>e, <1>a
  <2> QED BY <1>c, <1>d, <1>e, <2>1, <2>2
<1>1. CASE StartRootJanitor
  <2> USE <1>1 DEF StartRootJanitor
  <2>1. /\ janPc' \in [DeleteAgents -> JanitorPcs \cup DeleteFlusherPcs]
        /\ janPc'[DeleteFlusher] \in DeleteFlusherPcs
        /\ \A p \in Janitors : janPc'[p] \in JanitorPcs
    BY <1>a DEF JanitorPcs, DeleteFlusherPcs
  <2>2. janitors' \in Int
    OBVIOUS
  <2>3. JanHands'
    BY <1>a
  <2>4. DeleteFlusherWaits'
    BY <1>a
  <2> QED BY <1>c, <1>d, <2>1, <2>2, <2>3, <2>4
<1>2. ASSUME NEW j \in Janitors, TakeDelete(j) PROVE JanTypeInv'
  <2> USE <1>2 DEF TakeDelete, ReceiveDelete
  <2>1. /\ Head(deleteCh) \in Delivery /\ Tail(deleteCh) \in Seq(Delivery)
        /\ Len(Tail(deleteCh)) = Len(deleteCh) - 1 /\ Len(deleteCh) \in Nat
    BY DEF ChTypeOK
  <2>2. ChTypeOK'
    BY <2>1, QueueAssumption DEF ChTypeOK
  <2>3. /\ janPc' \in [DeleteAgents -> JanitorPcs \cup DeleteFlusherPcs]
        /\ janPc'[DeleteFlusher] \in DeleteFlusherPcs
        /\ \A q \in Janitors : janPc'[q] \in JanitorPcs
    BY <1>a DEF JanitorPcs, DeleteFlusherPcs
  <2>4. <<Head(deleteCh)>> \in Seq(Delivery) /\ Len(<<Head(deleteCh)>>) = 1
    BY <2>1
  <2>5. janBatch' \in [DeleteAgents -> Seq(Delivery)]
    BY <2>4, <1>a
  <2>6. JanHands'
    BY <2>4, <1>a
  <2>7. DeleteFlusherWaits'
    BY <1>a
  <2> QED BY <1>d, <2>2, <2>3, <2>5, <2>6, <2>7
<1>3. ASSUME NEW j \in Janitors, AddDelete(j) PROVE JanTypeInv'
  <2> USE <1>3 DEF AddDelete
  <2>1. deletePool' \in Seq(Delivery)
    BY <1>a, ConcatProperties
  <2>2. /\ janPc' \in [DeleteAgents -> JanitorPcs \cup DeleteFlusherPcs]
        /\ janPc'[DeleteFlusher] \in DeleteFlusherPcs
        /\ \A q \in Janitors : janPc'[q] \in JanitorPcs
    BY <1>a DEF JanitorPcs, DeleteFlusherPcs
  <2>3. janBatch' \in [DeleteAgents -> Seq(Delivery)]
    BY <1>a, <1>b
  <2>4. JanHands' /\ DeleteFlusherWaits'
    BY <1>a, <1>b
  <2> QED BY <1>c, <1>d, <2>1, <2>2, <2>3, <2>4
<1>4. ASSUME NEW j \in Janitors, DrainDelete(j) PROVE JanTypeInv'
  <2> USE <1>4 DEF DrainDelete
  <2>1. /\ BatchV1(deletePool) \in Seq(Delivery)
        /\ Len(BatchV1(deletePool)) \in 1..MaxBatchItems
        /\ SurvivorsV1(deletePool) \in Seq(Delivery)
    BY <1>a, BatchV1Type DEF FullBatchFoundV1, AvailableV1
  <2>2. /\ janPc' \in [DeleteAgents -> JanitorPcs \cup DeleteFlusherPcs]
        /\ janPc'[DeleteFlusher] \in DeleteFlusherPcs
        /\ \A q \in Janitors : janPc'[q] \in JanitorPcs
    BY <1>a DEF JanitorPcs, DeleteFlusherPcs
  <2>3. janBatch' \in [DeleteAgents -> Seq(Delivery)] /\ deletePool' \in Seq(Delivery)
    BY <1>a, <2>1
  <2>4. JanHands' /\ DeleteFlusherWaits'
    BY <1>a, <2>1
  <2> QED BY <1>c, <1>d, <2>2, <2>3, <2>4
<1>5. ASSUME NEW j \in Janitors, DrainedDelete(j) PROVE JanTypeInv'
  BY <1>5, <1>a, <1>e DEF DrainedDelete, JanitorPcs
<1>7. ASSUME NEW j \in Janitors, ScaleUpJanitor(j) PROVE JanTypeInv'
  BY <1>7, <1>a, <1>e DEF ScaleUpJanitor, JanitorPcs
<1>8. ASSUME NEW j \in Janitors, CheckLimitDeleters(j) PROVE JanTypeInv'
  BY <1>8, <1>a, <1>e DEF CheckLimitDeleters, JanitorPcs
<1>9. ASSUME NEW j \in Janitors, NEW k \in Janitors, SpawnJanitor(j, k) PROVE JanTypeInv'
  <2> USE <1>9 DEF SpawnJanitor
  <2>1. /\ janPc' \in [DeleteAgents -> JanitorPcs \cup DeleteFlusherPcs]
        /\ janPc'[DeleteFlusher] \in DeleteFlusherPcs
        /\ \A r \in Janitors : janPc'[r] \in JanitorPcs
    BY <1>a DEF JanitorPcs, DeleteFlusherPcs
  <2>2. janitors' \in Int
    OBVIOUS
  <2>3. JanHands'
    BY <1>a
  <2>4. DeleteFlusherWaits'
    BY <1>a
  <2> QED BY <1>c, <1>d, <2>1, <2>2, <2>3, <2>4
<1>10. ASSUME NEW j \in Janitors, ExitJanitor(j) PROVE JanTypeInv'
  <2>1. /\ janPc[j] = "load" /\ janitors' = janitors - 1 /\ JanGoto(j, "none")
        /\ UNCHANGED <<deletePool, deleteRecent, janBatch, chVars, sqsVars>>
    BY <1>10 DEF ExitJanitor
  <2>2. janitors' \in Int
    BY <2>1
  <2>3. "none" \in JanitorPcs
    BY DEF JanitorPcs
  <2> QED BY <1>a, <1>e, <2>1, <2>2, <2>3
<1>11. ASSUME NEW j \in Janitors, StayJanitor(j) PROVE JanTypeInv'
  BY <1>11, <1>a, <1>e DEF StayJanitor, JanitorPcs
<1>12. CASE ElapseDelete
  BY <1>12, <1>c, <1>d DEF ElapseDelete
<1>13. CASE TickDelete
  BY <1>13, <1>a, <1>e DEF TickDelete, DeleteFlusherPcs
<1>14. CASE FlushDelete
  <2>1. CASE deletePool # <<>>
    <3>1. /\ janPc[DeleteFlusher] = "getAvailable"
          /\ JanHold(DeleteFlusher, BatchV1(deletePool))
          /\ deletePool' = SurvivorsV1(deletePool)
          /\ JanGoto(DeleteFlusher, "delete")
          /\ UNCHANGED <<janitors, deleteRecent, chVars, sqsVars>>
      BY <1>14, <2>1 DEF FlushDelete
    <3>2. /\ BatchV1(deletePool) \in Seq(Delivery)
          /\ Len(BatchV1(deletePool)) \in 1..MaxBatchItems
          /\ SurvivorsV1(deletePool) \in Seq(Delivery)
      <4>1. Len(deletePool) \in Nat /\ Len(deletePool) >= 1
        BY <2>1
      <4>2. AvailableV1(deletePool) \in 1..MaxBatchItems
        BY <1>a, <4>1 DEF AvailableV1
      <4> QED BY <4>2, BatchV1Type
    <3>3. /\ janPc' \in [DeleteAgents -> JanitorPcs \cup DeleteFlusherPcs]
          /\ janPc'[DeleteFlusher] \in DeleteFlusherPcs
          /\ \A q \in Janitors : janPc'[q] \in JanitorPcs
      BY <1>a, <3>1 DEF JanitorPcs, DeleteFlusherPcs
    <3>4. janBatch' \in [DeleteAgents -> Seq(Delivery)] /\ deletePool' \in Seq(Delivery)
      BY <1>a, <3>1, <3>2
    <3>5. JanHands' /\ DeleteFlusherWaits'
      BY <1>a, <3>1, <3>2
    <3> QED BY <1>c, <1>d, <3>1, <3>3, <3>4, <3>5
  <2>2. CASE deletePool = <<>>
    BY <1>14, <1>a, <1>e, <2>2 DEF FlushDelete, DeleteFlusherPcs
  <2> QED BY <2>1, <2>2
<1> QED
  BY <1>1, <1>2, <1>3, <1>4, <1>5, <1>7, <1>8, <1>9, <1>10, <1>11, <1>12, <1>13, <1>14
  DEF JanitorsStep, JanitorStep, DeleteFlusherStep

(* So does a call, whatever SQS deletes.                                   *)
LEMMA JanCallTypes ==
  ASSUME JanTypeInv, NEW a \in DeleteAgents, DeleteCall(a)
  PROVE  JanTypeInv'
<1> USE DEF JanTypeInv, JanTypeOK, JanHands, DeleteFlusherWaits, JanGoto, JanHold
<1>a. /\ DeleteFlusher \notin Janitors /\ RootJanitor \in Janitors
      /\ DeleteFlusher \in DeleteAgents /\ Janitors \subseteq DeleteAgents
      /\ MaxBatchItems \in Nat /\ MaxBatchItems >= 1
      /\ \A b \in DeleteAgents : b \in Janitors \/ b = DeleteFlusher
  BY JanitorAssumption, PoolAssumption DEF DeleteAgents
<1>b. <<>> \in Seq(Delivery) /\ Len(<<>>) = 0
  OBVIOUS
<1>c. ASSUME UNCHANGED chVars PROVE ChTypeOK'
  BY <1>c DEF ChTypeOK, chVars
<1>d. ASSUME UNCHANGED sqsVars PROVE SqsTypeOK'
  BY <1>d DEF SqsTypeOK, sqsVars
<1> PICK applied \in SUBSET DOMAIN janBatch[a] : BatchDelete(a, applied)
  BY DEF DeleteCall
<1> DEFINE D == {janBatch[a][i] : i \in applied}
<1>1. /\ janPc[a] = "delete" /\ deleteRecent' = TRUE /\ SqsDelete(D)
      /\ JanHold(a, <<>>) /\ JanGoto(a, JanCaller(a))
      /\ UNCHANGED <<deletePool, janitors, chVars>>
  BY DEF BatchDelete
<1> HIDE DEF D
<1>2. SqsTypeOK'
  BY <1>1 DEF SqsDelete, SqsTypeOK
<1>3. /\ janPc' \in [DeleteAgents -> JanitorPcs \cup DeleteFlusherPcs]
      /\ janPc'[DeleteFlusher] \in DeleteFlusherPcs
      /\ \A q \in Janitors : janPc'[q] \in JanitorPcs
  BY <1>a, <1>1 DEF JanCaller, JanitorPcs, DeleteFlusherPcs
<1>4. janBatch' \in [DeleteAgents -> Seq(Delivery)]
  BY <1>a, <1>b, <1>1
<1>5. JanHands' /\ DeleteFlusherWaits'
  BY <1>a, <1>b, <1>1 DEF JanCaller
<1>6. deleteRecent' \in BOOLEAN
  BY <1>1
<1> QED BY <1>c, <1>1, <1>2, <1>3, <1>4, <1>5, <1>6

-----------------------------------------------------------------------------
(* A step of the goroutines moves occurrences of a delivery between one goroutine's      *)
(* hands, the channel and the pool, and changes no other hands.            *)
JanStored(d) == Occurrences(deleteCh, d) + Occurrences(deletePool, d)

JanMoves(a, d) ==
  /\ \A b \in DeleteAgents \ {a} : janBatch'[b] = janBatch[b]
  /\ JanStored(d)' + Occurrences(janBatch'[a], d) = JanStored(d) + Occurrences(janBatch[a], d)

LEMMA JanCounts ==
  ASSUME JanTypeInv, NEW d
  PROVE  /\ Occurrences(deleteCh, d) \in Nat /\ Occurrences(deletePool, d) \in Nat
         /\ JanStored(d) \in Nat
         /\ \A a \in DeleteAgents : Occurrences(janBatch[a], d) \in Nat
<1>1. /\ deleteCh \in Seq(Delivery) /\ deletePool \in Seq(Delivery)
      /\ \A a \in DeleteAgents : janBatch[a] \in Seq(Delivery)
  BY DEF JanTypeInv, ChTypeOK, JanTypeOK
<1>2. Occurrences(deleteCh, d) \in Nat /\ Occurrences(deletePool, d) \in Nat
  BY <1>1, OccurrencesType
<1>3. \A a \in DeleteAgents : Occurrences(janBatch[a], d) \in Nat
  BY <1>1, OccurrencesType
<1> QED BY <1>2, <1>3 DEF JanStored

LEMMA JanCountsNext ==
  ASSUME JanTypeInv', NEW d
  PROVE  /\ JanStored(d)' \in Nat
         /\ \A a \in DeleteAgents : Occurrences(janBatch'[a], d) \in Nat
<1>1. /\ deleteCh' \in Seq(Delivery) /\ deletePool' \in Seq(Delivery)
      /\ \A a \in DeleteAgents : janBatch'[a] \in Seq(Delivery)
  BY DEF JanTypeInv, ChTypeOK, JanTypeOK
<1>2. Occurrences(deleteCh', d) \in Nat /\ Occurrences(deletePool', d) \in Nat
  BY <1>1, OccurrencesType
<1>3. \A a \in DeleteAgents : Occurrences(janBatch'[a], d) \in Nat
  BY <1>1, OccurrencesType
<1> QED BY <1>2, <1>3 DEF JanStored

LEMMA JanStepMoves ==
  ASSUME JanTypeInv, JanitorsStep, NEW d
  PROVE  \E a \in DeleteAgents : JanMoves(a, d)
<1> USE DEF JanGoto, JanHold
<1>a. /\ DeleteFlusher \in DeleteAgents /\ Janitors \subseteq DeleteAgents
  BY DEF DeleteAgents
<1>b. /\ deleteCh \in Seq(Delivery) /\ deletePool \in Seq(Delivery)
      /\ janBatch \in [DeleteAgents -> Seq(Delivery)]
  BY DEF JanTypeInv, ChTypeOK, JanTypeOK
<1>c. /\ Occurrences(deleteCh, d) \in Nat /\ Occurrences(deletePool, d) \in Nat
      /\ \A a \in DeleteAgents : Occurrences(janBatch[a], d) \in Nat
      /\ Occurrences(<<>>, d) = 0
  BY JanCounts, OccurrencesEmpty
<1>1. ASSUME UNCHANGED <<deleteCh, deletePool, janBatch>>
      PROVE  JanMoves(DeleteFlusher, d)
  BY <1>1 DEF JanMoves, JanStored
(* A batch or what getAvailable gives is taken out of the pool.            *)
<1>2. ASSUME NEW a \in DeleteAgents, janPc[a] \notin {"add", "delete"},
             janBatch' = [janBatch EXCEPT ![a] = BatchV1(deletePool)],
             deletePool' = SurvivorsV1(deletePool), deleteCh' = deleteCh
      PROVE  JanMoves(a, d)
  <2>1. janBatch[a] = <<>>
    BY <1>2 DEF JanTypeInv, JanHands
  <2>2. Occurrences(janBatch[a], d) = 0
    BY <2>1, <1>c
  <2>3. janBatch'[a] = BatchV1(deletePool)
    BY <1>2, <1>b
  <2>4. /\ Occurrences(deletePool, d)
             = Occurrences(BatchV1(deletePool), d) + Occurrences(SurvivorsV1(deletePool), d)
    BY <1>b, SplitV1
  <2>5. /\ Occurrences(BatchV1(deletePool), d) \in Nat
        /\ Occurrences(SurvivorsV1(deletePool), d) \in Nat
    BY <1>b, BatchV1Type, OccurrencesType
  <2>6. /\ Occurrences(deletePool', d) = Occurrences(SurvivorsV1(deletePool), d)
        /\ Occurrences(deleteCh', d) = Occurrences(deleteCh, d)
        /\ Occurrences(janBatch'[a], d) = Occurrences(BatchV1(deletePool), d)
    BY <1>2, <2>3
  <2>7. \A b \in DeleteAgents \ {a} : janBatch'[b] = janBatch[b]
    BY <1>2, <1>b
  <2> QED BY <2>2, <2>4, <2>5, <2>6, <2>7, <1>c DEF JanMoves, JanStored
<1>3. ASSUME NEW j \in Janitors, TakeDelete(j) PROVE JanMoves(j, d)
  <2>1. /\ janPc[j] = "range" /\ deleteCh # <<>> /\ deleteCh' = Tail(deleteCh)
        /\ janBatch' = [janBatch EXCEPT ![j] = <<Head(deleteCh)>>]
        /\ deletePool' = deletePool
    BY <1>3 DEF TakeDelete, ReceiveDelete
  <2>2. janBatch[j] = <<>> /\ Occurrences(janBatch[j], d) = 0
    BY <2>1, <1>a, <1>c DEF JanTypeInv, JanHands
  <2>3. Occurrences(deleteCh, d) = Occurrences(<<Head(deleteCh)>>, d) + Occurrences(Tail(deleteCh), d)
    BY <2>1, <1>b, OccurrencesHeadTail
  <2>4. /\ Occurrences(deletePool', d) = Occurrences(deletePool, d)
        /\ Occurrences(deleteCh', d) = Occurrences(Tail(deleteCh), d)
        /\ Occurrences(janBatch'[j], d) = Occurrences(<<Head(deleteCh)>>, d)
    BY <2>1, <1>a, <1>b
  <2>5. Occurrences(Tail(deleteCh), d) \in Nat /\ Occurrences(<<Head(deleteCh)>>, d) \in Nat
    <3>1. Tail(deleteCh) \in Seq(Delivery)
      BY <2>1, <1>b
    <3>2. Occurrences(Tail(deleteCh), d) \in Nat
      BY <3>1, OccurrencesType
    <3>3. Occurrences(<<Head(deleteCh)>>, d) \in Nat
      BY OccurrencesOne
    <3> QED BY <3>2, <3>3
  <2>6. \A b \in DeleteAgents \ {j} : janBatch'[b] = janBatch[b]
    BY <2>1, <1>b
  <2> QED BY <2>2, <2>3, <2>4, <2>5, <2>6, <1>c DEF JanMoves, JanStored
<1>4. ASSUME NEW j \in Janitors, AddDelete(j) PROVE JanMoves(j, d)
  <2>1. /\ deletePool' = deletePool \o janBatch[j] /\ deleteCh' = deleteCh
        /\ janBatch' = [janBatch EXCEPT ![j] = <<>>]
    BY <1>4 DEF AddDelete, chVars
  <2>2. Occurrences(deletePool \o janBatch[j], d)
          = Occurrences(deletePool, d) + Occurrences(janBatch[j], d)
    <3>1. janBatch[j] \in Seq(Delivery)
      BY <1>a, <1>b
    <3> QED BY <3>1, <1>b, OccurrencesConcat
  <2>3. Occurrences(janBatch'[j], d) = 0
    BY <2>1, <1>a, <1>b, <1>c
  <2>4. \A b \in DeleteAgents \ {j} : janBatch'[b] = janBatch[b]
    BY <2>1, <1>b
  <2>5. /\ Occurrences(deletePool', d) = Occurrences(deletePool \o janBatch[j], d)
        /\ Occurrences(deleteCh', d) = Occurrences(deleteCh, d)
    BY <2>1
  <2>6. Occurrences(janBatch[j], d) \in Nat
    BY <1>a, <1>c
  <2> QED BY <2>2, <2>3, <2>4, <2>5, <2>6, <1>c DEF JanMoves, JanStored
<1>5. ASSUME NEW j \in Janitors, DrainDelete(j) PROVE JanMoves(j, d)
  BY <1>5, <1>2, <1>a DEF DrainDelete, chVars
<1>6. CASE FlushDelete
  <2>1. CASE deletePool # <<>>
    BY <1>6, <1>2, <1>a, <2>1 DEF FlushDelete, chVars
  <2>2. CASE deletePool = <<>>
    BY <1>6, <1>1, <1>a, <2>2 DEF FlushDelete, chVars
  <2> QED BY <2>1, <2>2, <1>a
<1>7. ASSUME NEW j \in Janitors, JanitorStep(j)
      PROVE  \E a \in DeleteAgents : JanMoves(a, d)
  <2>1. CASE DrainedDelete(j) \/ ScaleUpJanitor(j) \/ CheckLimitDeleters(j)
             \/ ExitJanitor(j) \/ StayJanitor(j)
    BY <2>1, <1>1, <1>a
    DEF DrainedDelete, ScaleUpJanitor, CheckLimitDeleters, ExitJanitor, StayJanitor, chVars
  <2>2. CASE \E k \in Janitors : SpawnJanitor(j, k)
    BY <2>2, <1>1, <1>a DEF SpawnJanitor, chVars
  <2> QED BY <1>7, <2>1, <2>2, <1>3, <1>4, <1>5, <1>a DEF JanitorStep
<1>8. CASE StartRootJanitor \/ TickDelete \/ ElapseDelete
  BY <1>8, <1>1, <1>a DEF StartRootJanitor, TickDelete, ElapseDelete, chVars
<1> QED BY <1>6, <1>7, <1>8 DEF JanitorsStep, DeleteFlusherStep

(* A DeleteMessageBatch empties the hands of the goroutine that calls it.  *)
LEMMA JanCallDrops ==
  ASSUME JanTypeInv, NEW a \in DeleteAgents, DeleteCall(a)
  PROVE  /\ janPc[a] = "delete" /\ janPc'[a] # "delete"
         /\ UNCHANGED <<deleteCh, deletePool>>
         /\ janBatch' = [janBatch EXCEPT ![a] = <<>>]
BY DEF DeleteCall, BatchDelete, JanHold, JanGoto, JanCaller, chVars, JanTypeInv, JanTypeOK

LEMMA DeleteAgentsFinite == IsFiniteSet(DeleteAgents)
BY JanitorAssumption, FS_AddElement DEF DeleteAgents

-----------------------------------------------------------------------------
(* What a response brings: at most MaxNumberOfMessages well-typed          *)
(* deliveries, also after newMessage has thrown away what does not fit.    *)
LEMMA ResponseType ==
  ASSUME NEW S \in Receivable(MaxNumberOfMessages), SqsTypeOK, SqsReceive(S)
  PROVE  /\ SqsTypeOK'
         /\ S \subseteq Msg
         /\ {[id |-> m, rcpt |-> receives'[m]] : m \in Kept(S)} \subseteq Delivery
         /\ Cardinality(Kept(S)) \in 0..MaxNumberOfMessages
<1>1. S \subseteq Msg /\ IsFiniteSet(S) /\ Cardinality(S) <= MaxNumberOfMessages
  BY DEF Receivable
<1>2. Kept(S) \in SUBSET S
  BY DEF Kept
<1>3. /\ Cardinality(Kept(S)) \in Nat /\ Cardinality(S) \in Nat
      /\ Cardinality(Kept(S)) <= Cardinality(S)
  BY <1>1, <1>2, FS_Subset, FS_CardinalityType
<1>4. Cardinality(Kept(S)) \in 0..MaxNumberOfMessages
  BY <1>1, <1>3, ReaderAssumption
<1>5. SqsTypeOK'
  BY DEF SqsTypeOK, SqsReceive
<1>6. \A m \in Kept(S) : m \in Msg /\ receives'[m] \in Nat
  BY <1>1, <1>2, <1>5 DEF SqsTypeOK
<1> QED BY <1>1, <1>4, <1>5, <1>6 DEF Delivery

(* The readers, strengthening their types: one that does not forward has   *)
(* empty hands.                                                            *)
RdHands == \A r \in Readers : rdHand[r] # {} => rdPc[r] = "forward"

RdTypeInv == ChTypeOK /\ RdTypeOK /\ SqsTypeOK /\ RdHands

LEMMA RdInitTypes == RdInit /\ ChInit /\ SqsTypeOK => RdTypeInv
<1> SUFFICES ASSUME RdInit, ChInit, SqsTypeOK PROVE RdTypeInv
  OBVIOUS
<1> USE DEF RdInit, ChInit, RdPcInit
<1>1. ChTypeOK
  BY QueueAssumption DEF ChTypeOK
<1>2. rdPc \in [Readers -> ReaderPcs] /\ rdErr \in [Readers -> Errors]
  BY DEF ReaderPcs, Errors
<1>3. rdLen \in [Readers -> 0..MaxNumberOfMessages]
  BY ReaderAssumption
<1>4. /\ readers \in Int /\ rdHand \in [Readers -> SUBSET Delivery]
      /\ receiveErrors \subseteq Errors
  OBVIOUS
<1>5. stopped \in BOOLEAN /\ cancelled \in BOOLEAN
  OBVIOUS
<1>6. RdTypeOK
  BY <1>2, <1>3, <1>4, <1>5 DEF RdTypeOK
<1>7. RdHands
  BY DEF RdHands
<1> QED BY <1>1, <1>6, <1>7 DEF RdTypeInv

(* A reader that does not forward may go anywhere.                         *)
LEMMA RdGotoTypes ==
  ASSUME RdTypeInv, NEW r \in Readers, NEW l \in ReaderPcs, RdGoto(r, l),
         rdPc[r] # "forward", UNCHANGED rdHand
  PROVE  rdPc' \in [Readers -> ReaderPcs] /\ RdHands'
BY DEF RdTypeInv, RdTypeOK, RdHands, RdGoto

(* Every step of the readers, apart from the calls of SQS, keeps this.     *)
LEMMA RdStepTypes == RdTypeInv /\ ReadersStep => RdTypeInv'
<1> SUFFICES ASSUME RdTypeInv, ReadersStep PROVE RdTypeInv'
  OBVIOUS
<1> USE DEF RdTypeInv, RdTypeOK
<1>a. ASSUME UNCHANGED chVars PROVE ChTypeOK'
  BY <1>a DEF ChTypeOK, chVars
<1>b. ASSUME UNCHANGED sqsVars PROVE SqsTypeOK'
  BY <1>b DEF SqsTypeOK, sqsVars
<1>c. {"none", "receive", "waiting", "reread", "forward", "scale", "limit", "spawn"}
        \subseteq ReaderPcs
  BY DEF ReaderPcs
<1>d. ASSUME NEW r \in Readers, rdPc[r] # "forward",
             RdGoto(r, "none") \/ RdGoto(r, "receive") \/ RdGoto(r, "waiting")
               \/ RdGoto(r, "limit") \/ RdGoto(r, "spawn"),
             readers' \in Int,
             UNCHANGED <<stopped, cancelled, rdHand, rdLen, rdErr, receiveErrors, chVars, sqsVars>>
      PROVE  RdTypeInv'
  <2>1. rdPc' \in [Readers -> ReaderPcs] /\ RdHands'
    BY <1>c, <1>d, RdGotoTypes
  <2> QED BY <1>d, <2>1, <1>a, <1>b
<1>1. ASSUME NEW r \in Readers, CheckStopped(r) PROVE RdTypeInv'
  BY <1>1, <1>d DEF CheckStopped, ExitReader
<1>2. ASSUME NEW r \in Readers, Reread(r) PROVE RdTypeInv'
  <2>1. rdErr' \in [Readers -> Errors]
    BY <1>2 DEF Reread, Errors
  <2>2. receiveErrors' \subseteq Errors /\ readers' \in Int
    BY <1>2 DEF Reread, ExitReader
  <2>3. rdPc' \in [Readers -> ReaderPcs] /\ RdHands'
    <3>1. /\ rdPc[r] # "forward" /\ UNCHANGED rdHand
          /\ RdGoto(r, "none") \/ RdGoto(r, "receive")
      BY <1>2 DEF Reread, ExitReader
    <3> QED BY <3>1, <1>c, RdGotoTypes
  <2> QED BY <1>2, <2>1, <2>2, <2>3, <1>a, <1>b DEF Reread
<1>3. ASSUME NEW r \in Readers, ForwardReceived(r) PROVE RdTypeInv'
  <2> PICK d \in rdHand[r] : /\ SendPublish(d)
                             /\ rdHand' = [rdHand EXCEPT ![r] = @ \ {d}]
                             /\ RdGoto(r, IF rdHand[r] = {d} THEN "scale" ELSE "forward")
    BY <1>3 DEF ForwardReceived
  <2>1. d \in Delivery /\ deleteCh' = deleteCh
    BY <1>3 DEF ForwardReceived
  <2>2. ChTypeOK'
    BY <2>1, SendType, QueueAssumption DEF ChTypeOK, SendPublish
  <2>3. rdHand' \in [Readers -> SUBSET Delivery]
    OBVIOUS
  <2>4. rdPc' \in [Readers -> ReaderPcs]
    BY <1>c DEF RdGoto
  <2>5. RdHands'
    BY DEF RdGoto, RdHands
  <2> QED BY <1>3, <2>2, <2>3, <2>4, <2>5, <1>b DEF ForwardReceived
<1>4. ASSUME NEW r \in Readers, ScaleUpReader(r) PROVE RdTypeInv'
  BY <1>4, <1>d DEF ScaleUpReader
<1>5. ASSUME NEW r \in Readers, CheckLimitReaders(r) PROVE RdTypeInv'
  BY <1>5, <1>d DEF CheckLimitReaders
<1>6. ASSUME NEW r \in Readers, ScaleDownReader(r) PROVE RdTypeInv'
  BY <1>6, <1>d DEF ScaleDownReader, ExitReader
<1>7. ASSUME NEW r \in Readers, NEW q \in Readers, SpawnReader(r, q) PROVE RdTypeInv'
  <2>1. rdPc' \in [Readers -> ReaderPcs] /\ readers' \in Int
    BY <1>7, <1>c DEF SpawnReader
  <2>2. RdHands'
    BY <1>7 DEF SpawnReader, RdHands
  <2> QED BY <1>7, <2>1, <2>2, <1>a, <1>b DEF SpawnReader
<1>8. CASE StartRootReader
  BY <1>8, <1>d, ReaderAssumption DEF StartRootReader
<1> QED BY <1>1, <1>2, <1>3, <1>4, <1>5, <1>6, <1>7, <1>8 DEF ReadersStep, ReaderStep

(* So does a response of SQS, and so does a failed call.                   *)
LEMMA ReceiveTypes ==
  ASSUME RdTypeInv, NEW r \in Readers, NEW S \in Receivable(MaxNumberOfMessages), Receive(r, S)
  PROVE  RdTypeInv'
<1> USE DEF RdTypeInv, RdTypeOK
<1> DEFINE D == {[id |-> m, rcpt |-> receives'[m]] : m \in Kept(S)}
<1>1. SqsReceive(S)
  BY DEF Receive
<1>2. SqsTypeOK' /\ D \subseteq Delivery /\ Cardinality(Kept(S)) \in 0..MaxNumberOfMessages
  BY <1>1, ResponseType
<1>3. /\ rdHand' = [rdHand EXCEPT ![r] = D]
      /\ rdLen' = [rdLen EXCEPT ![r] = Cardinality(Kept(S))]
      /\ (D = {} /\ RdGoto(r, "scale")) \/ RdGoto(r, "forward")
      /\ UNCHANGED <<readers, stopped, cancelled, rdErr, receiveErrors, chVars>>
  BY DEF Receive
<1> HIDE DEF D
<1>4. /\ rdHand' \in [Readers -> SUBSET Delivery]
      /\ rdLen' \in [Readers -> 0..MaxNumberOfMessages]
  BY <1>2, <1>3
<1>5. rdPc' \in [Readers -> ReaderPcs]
  BY <1>3 DEF RdGoto, ReaderPcs
<1>6. RdHands'
  BY <1>3 DEF RdGoto, RdHands
<1>7. ChTypeOK'
  BY <1>3 DEF ChTypeOK, chVars
<1> QED BY <1>2, <1>3, <1>4, <1>5, <1>6, <1>7

LEMMA ReceiveErrorTypes ==
  ASSUME RdTypeInv, NEW r \in Readers, NEW why \in {"api", "cancelled"},
         NEW lost \in Receivable(MaxNumberOfMessages), ReceiveError(r, why, lost)
  PROVE  RdTypeInv'
<1> USE DEF RdTypeInv, RdTypeOK
<1>1. SqsTypeOK'
  BY ResponseType DEF ReceiveError
<1>2. rdErr' \in [Readers -> Errors]
  BY DEF ReceiveError, Errors
<1>3. rdPc' \in [Readers -> ReaderPcs] /\ RdHands'
  <2>1. "reread" \in ReaderPcs
    BY DEF ReaderPcs
  <2> QED BY <2>1, RdGotoTypes DEF ReceiveError
<1>4. ChTypeOK'
  BY DEF ReceiveError, ChTypeOK, chVars
<1> QED BY <1>1, <1>2, <1>3, <1>4 DEF ReceiveError

LEMMA StopTypes == RdTypeInv /\ (StopFlag \/ Cancel) => RdTypeInv'
BY DEF RdTypeInv, RdTypeOK, RdHands, ChTypeOK, SqsTypeOK, StopFlag, Cancel, chVars, sqsVars

(* How often a delivery is in the hands of a reader.  A step moves it from *)
(* there to publishCh, and in no other way.                                *)
RdInHand(r, d) == IF d \in rdHand[r] THEN 1 ELSE 0

RdMoves(r, d) ==
  /\ \A q \in Readers \ {r} : RdInHand(q, d)' = RdInHand(q, d)
  /\ Occurrences(publishCh', d) + RdInHand(r, d)' = Occurrences(publishCh, d) + RdInHand(r, d)
  /\ UNCHANGED deleteCh

LEMMA RdStepMoves ==
  ASSUME RdTypeInv, ReadersStep, NEW d
  PROVE  \E r \in Readers : RdMoves(r, d)
<1>a. /\ publishCh \in Seq(Delivery) /\ rdHand \in [Readers -> SUBSET Delivery]
      /\ RootReader \in Readers
  BY ReaderAssumption DEF RdTypeInv, RdTypeOK, ChTypeOK
<1>b. Occurrences(publishCh, d) \in Nat
  BY <1>a, OccurrencesType
<1>1. ASSUME UNCHANGED <<chVars, rdHand>> PROVE RdMoves(RootReader, d)
  BY <1>1 DEF RdMoves, RdInHand, chVars
<1>2. ASSUME NEW r \in Readers, ForwardReceived(r) PROVE RdMoves(r, d)
  <2> PICK e \in rdHand[r] : SendPublish(e) /\ rdHand' = [rdHand EXCEPT ![r] = @ \ {e}]
    BY <1>2 DEF ForwardReceived
  <2>1. e \in Delivery /\ publishCh' = Append(publishCh, e) /\ deleteCh' = deleteCh
    BY <1>2, <1>a DEF ForwardReceived, SendPublish
  <2>2. /\ Occurrences(publishCh', d) = Occurrences(publishCh, d) + Occurrences(<<e>>, d)
        /\ Occurrences(<<e>>, d) = IF e = d THEN 1 ELSE 0
    BY <2>1, <1>a, OccurrencesAppend, OccurrencesOne
  <2>3. RdInHand(r, d) = RdInHand(r, d)' + IF e = d THEN 1 ELSE 0
    BY <1>a DEF RdInHand
  <2>4. \A q \in Readers \ {r} : RdInHand(q, d)' = RdInHand(q, d)
    BY <1>a DEF RdInHand
  <2>5. RdInHand(r, d)' \in Nat
    BY DEF RdInHand
  <2> QED BY <2>1, <2>2, <2>3, <2>4, <2>5, <1>b DEF RdMoves
<1>3. ASSUME NEW r \in Readers, ReaderStep(r) PROVE \E q \in Readers : RdMoves(q, d)
  <2>1. CASE CheckStopped(r) \/ Reread(r) \/ ScaleUpReader(r) \/ CheckLimitReaders(r)
             \/ ScaleDownReader(r)
    BY <2>1, <1>1, <1>a DEF CheckStopped, Reread, ScaleUpReader, CheckLimitReaders,
                            ScaleDownReader
  <2>2. CASE \E q \in Readers : SpawnReader(r, q)
    BY <2>2, <1>1, <1>a DEF SpawnReader
  <2> QED BY <1>2, <1>3, <2>1, <2>2 DEF ReaderStep
<1>4. CASE StartRootReader
  BY <1>4, <1>1, <1>a DEF StartRootReader
<1> QED BY <1>3, <1>4 DEF ReadersStep
=============================================================================
