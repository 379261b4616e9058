-------------------------- MODULE WaitQueueTheorems --------------------------
(***************************************************************************)
(* What Push, Erase and serving the head do to the contents, the           *)
(* distinctness and the order of a queue.  Every primitive's proof uses    *)
(* these facts instead of positions.                                       *)
(***************************************************************************)
EXTENDS WaitQueue, SequenceTheorems, FiniteSetTheorems, TLAPS

(* Positions after an insertion.                                            *)
LEMMA InsertAtPositions ==
  ASSUME NEW S, NEW q \in Seq(S), NEW e \in S, NEW p \in 1..(Len(q) + 1)
  PROVE  /\ InsertAt(q, p, e) \in Seq(S)
         /\ Len(InsertAt(q, p, e)) = Len(q) + 1
         /\ \A j \in 1..(Len(q) + 1) :
              InsertAt(q, p, e)[j] = IF j < p THEN q[j]
                                     ELSE IF j = p THEN e ELSE q[j - 1]
<1> DEFINE a == SubSeq(q, 1, p - 1)
           b == SubSeq(q, p, Len(q))
           c == a \o <<e>>
<1>0. Len(q) \in Nat /\ \A k \in 1..Len(q) : q[k] \in S
  OBVIOUS
<1>1. a \in Seq(S) /\ Len(a) = p - 1 /\ \A j \in 1..(p - 1) : a[j] = q[j]
  <2>1. \A k \in 1..(p - 1) : q[k] \in S
    BY <1>0
  <2> QED
    BY <2>1, <1>0, SubSeqProperties, SMT
<1>2. b \in Seq(S) /\ Len(b) = Len(q) + 1 - p
      /\ \A j \in 1..(Len(q) + 1 - p) : b[j] = q[p + j - 1]
  <2>1. \A k \in p..Len(q) : q[k] \in S
    BY <1>0
  <2> QED
    BY <2>1, <1>0, SubSeqProperties, SMT
<1> HIDE DEF a, b
<1>3. c \in Seq(S) /\ Len(c) = p
      /\ \A j \in 1..p : c[j] = IF j < p THEN q[j] ELSE e
  <2>1. <<e>> \in Seq(S) /\ Len(<<e>>) = 1 /\ <<e>>[1] = e
    OBVIOUS
  <2> QED
    BY <2>1, <1>0, <1>1, ConcatProperties, SMTT(20)
<1> HIDE DEF c
<1>4. c \o b \in Seq(S) /\ Len(c \o b) = Len(c) + Len(b)
      /\ \A j \in 1..(Len(c) + Len(b)) :
           (c \o b)[j] = IF j <= Len(c) THEN c[j] ELSE b[j - Len(c)]
  BY <1>2, <1>3, ConcatProperties
<1>5. InsertAt(q, p, e) = c \o b
  BY DEF InsertAt, a, b, c
<1>6. ASSUME NEW j \in 1..(Len(q) + 1)
      PROVE  (c \o b)[j] = IF j < p THEN q[j]
                           ELSE IF j = p THEN e ELSE q[j - 1]
  <2>1. CASE j <= p
    BY <2>1, <1>0, <1>2, <1>3, <1>4
  <2>2. CASE j > p
    <3>1. j - p \in 1..(Len(q) + 1 - p) /\ p + (j - p) - 1 = j - 1
      BY <2>2, <1>0
    <3>2. b[j - p] = q[j - 1]
      BY <3>1, <1>2
    <3> QED
      BY <3>2, <2>2, <1>0, <1>2, <1>3, <1>4
  <2>3. j <= p \/ j > p
    BY <1>0
  <2> QED
    BY <2>1, <2>2, <2>3
<1> QED
  BY <1>0, <1>2, <1>3, <1>4, <1>5, <1>6

(* Positions after a removal.                                               *)
LEMMA RemoveAtPositions ==
  ASSUME NEW S, NEW q \in Seq(S), NEW i \in 1..Len(q)
  PROVE  /\ RemoveAt(q, i) \in Seq(S)
         /\ Len(RemoveAt(q, i)) = Len(q) - 1
         /\ \A j \in 1..(Len(q) - 1) :
              RemoveAt(q, i)[j] = IF j < i THEN q[j] ELSE q[j + 1]
<1> DEFINE a == SubSeq(q, 1, i - 1)
           b == SubSeq(q, i + 1, Len(q))
<1>0. Len(q) \in Nat /\ \A k \in 1..Len(q) : q[k] \in S
  OBVIOUS
<1>1. a \in Seq(S) /\ Len(a) = i - 1 /\ \A j \in 1..(i - 1) : a[j] = q[j]
  <2>1. \A k \in 1..(i - 1) : q[k] \in S
    BY <1>0
  <2> QED
    BY <2>1, <1>0, SubSeqProperties, SMT
<1>2. b \in Seq(S) /\ Len(b) = Len(q) - i
      /\ \A j \in 1..(Len(q) - i) : b[j] = q[i + j]
  <2>1. \A k \in (i + 1)..Len(q) : q[k] \in S
    BY <1>0
  <2> QED
    BY <2>1, <1>0, SubSeqProperties, SMT
<1> HIDE DEF a, b
<1>3. a \o b \in Seq(S) /\ Len(a \o b) = Len(a) + Len(b)
      /\ \A j \in 1..(Len(a) + Len(b)) :
           (a \o b)[j] = IF j <= Len(a) THEN a[j] ELSE b[j - Len(a)]
  BY <1>1, <1>2, ConcatProperties
<1>4. RemoveAt(q, i) = a \o b
  BY DEF RemoveAt, a, b
<1>5. ASSUME NEW j \in 1..(Len(q) - 1)
      PROVE  (a \o b)[j] = IF j < i THEN q[j] ELSE q[j + 1]
  <2>1. CASE j < i
    BY <2>1, <1>0, <1>1, <1>2, <1>3
  <2>2. CASE j >= i
    <3>1. j - (i - 1) \in 1..(Len(q) - i) /\ i + (j - (i - 1)) = j + 1
      BY <2>2, <1>0
    <3>2. b[j - (i - 1)] = q[j + 1]
      BY <3>1, <1>2
    <3> QED
      BY <3>2, <2>2, <1>0, <1>1, <1>2, <1>3
  <2>3. j < i \/ j >= i
    BY <1>0
  <2> QED
    BY <2>1, <2>2, <2>3
<1> QED
  BY <1>0, <1>1, <1>2, <1>3, <1>4, <1>5

-----------------------------------------------------------------------------
(* The position Push inserts at, and what it moves.                         *)
Ahead(q, e) == {i \in DOMAIN q : Rank(q[i].thread) <= Rank(e.thread)}

PushedAt(r, q, e, p) ==
  /\ Len(r) = Len(q) + 1
  /\ \A j \in 1..(Len(q) + 1) :
       r[j] = IF j < p THEN q[j] ELSE IF j = p THEN e ELSE q[j - 1]

LEMMA PushPosition ==
  ASSUME NEW S, NEW q \in Seq(S), NEW e \in S
  PROVE  /\ Cardinality(Ahead(q, e)) + 1 \in 1..(Len(q) + 1)
         /\ Push(q, e) \in Seq(S)
         /\ PushedAt(Push(q, e), q, e, Cardinality(Ahead(q, e)) + 1)
<1> DEFINE p == Cardinality(Ahead(q, e)) + 1
<1>0. Len(q) \in Nat /\ DOMAIN q = 1..Len(q)
  OBVIOUS
<1>1. IsFiniteSet(1..Len(q)) /\ Cardinality(1..Len(q)) = Len(q)
  BY <1>0, FS_Interval
<1>2. Ahead(q, e) \in SUBSET (1..Len(q))
  BY <1>0 DEF Ahead
<1>3. IsFiniteSet(Ahead(q, e)) /\ Cardinality(Ahead(q, e)) <= Len(q)
  BY <1>1, <1>2, FS_Subset
<1>4. Cardinality(Ahead(q, e)) \in Nat
  BY <1>3, FS_CardinalityType
<1>5. p \in 1..(Len(q) + 1)
  BY <1>0, <1>3, <1>4
<1>6. Push(q, e) = InsertAt(q, p, e)
  BY DEF Push, Ahead
<1> HIDE DEF p
<1>7. InsertAt(q, p, e) \in Seq(S) /\ PushedAt(InsertAt(q, p, e), q, e, p)
  BY <1>5, InsertAtPositions DEF PushedAt
<1> QED
  BY <1>5, <1>6, <1>7 DEF p

(* Pushing adds exactly the new entry.                                      *)
LEMMA PushContents ==
  ASSUME NEW S, NEW q \in Seq(S), NEW e \in S
  PROVE  /\ Push(q, e) \in Seq(S)
         /\ Push(q, e) # <<>>
         /\ ToSet(Push(q, e)) = ToSet(q) \cup {e}
<1> DEFINE p == Cardinality(Ahead(q, e)) + 1
           r == Push(q, e)
<1>0. Len(q) \in Nat /\ DOMAIN q = 1..Len(q)
  OBVIOUS
<1>1. p \in 1..(Len(q) + 1) /\ r \in Seq(S) /\ PushedAt(r, q, e, p)
  BY PushPosition
<1> HIDE DEF p, r
<1>2. /\ Len(r) = Len(q) + 1
      /\ \A j \in 1..(Len(q) + 1) :
           r[j] = IF j < p THEN q[j] ELSE IF j = p THEN e ELSE q[j - 1]
  BY <1>1 DEF PushedAt
<1>3. ToSet(r) \subseteq ToSet(q) \cup {e}
  <2>1. DOMAIN r = 1..(Len(q) + 1)
    BY <1>0, <1>1, <1>2
  <2>2. ASSUME NEW j \in 1..(Len(q) + 1) PROVE r[j] \in ToSet(q) \cup {e}
    <3>1. CASE j < p
      <4>1. j \in DOMAIN q /\ r[j] = q[j]
        BY <3>1, <1>0, <1>1, <1>2
      <4> QED
        BY <4>1 DEF ToSet
    <3>2. CASE j = p
      BY <3>2, <1>2
    <3>3. CASE j > p
      <4>1. j - 1 \in DOMAIN q /\ r[j] = q[j - 1]
        BY <3>3, <1>0, <1>1, <1>2
      <4> QED
        BY <4>1 DEF ToSet
    <3> QED
      BY <3>1, <3>2, <3>3, <1>0, <1>1
  <2> QED
    BY <2>1, <2>2 DEF ToSet
<1>4. e \in ToSet(r)
  <2>1. p \in DOMAIN r /\ r[p] = e
    BY <1>0, <1>1, <1>2
  <2> QED
    BY <2>1 DEF ToSet
<1>5. ASSUME NEW j \in 1..Len(q) PROVE q[j] \in ToSet(r)
  <2>1. CASE j < p
    <3>1. j \in DOMAIN r /\ r[j] = q[j]
      BY <2>1, <1>0, <1>1, <1>2
    <3> QED
      BY <3>1 DEF ToSet
  <2>2. CASE j >= p
    <3>1. j + 1 \in DOMAIN r /\ r[j + 1] = q[j]
      BY <2>2, <1>0, <1>1, <1>2
    <3> QED
      BY <3>1 DEF ToSet
  <2> QED
    BY <2>1, <2>2, <1>0, <1>1
<1>6. r # <<>>
  BY <1>0, <1>1, <1>2
<1> QED
  BY <1>0, <1>1, <1>3, <1>4, <1>5, <1>6 DEF ToSet, r

(* Pushing a thread that is not in the queue leaves no thread twice.        *)
LEMMA PushDistinct ==
  ASSUME NEW S, NEW q \in Seq(S), NEW e \in S,
         Distinct(q), e.thread \notin Sleepers(q)
  PROVE  Distinct(Push(q, e))
<1> DEFINE p == Cardinality(Ahead(q, e)) + 1
           r == Push(q, e)
           back(j) == IF j < p THEN j ELSE j - 1
<1>0. Len(q) \in Nat /\ DOMAIN q = 1..Len(q)
  OBVIOUS
<1>1. p \in 1..(Len(q) + 1) /\ r \in Seq(S) /\ PushedAt(r, q, e, p)
  BY PushPosition
<1> HIDE DEF p, r
<1>2. /\ Len(r) = Len(q) + 1
      /\ \A j \in 1..(Len(q) + 1) :
           r[j] = IF j < p THEN q[j] ELSE IF j = p THEN e ELSE q[j - 1]
  BY <1>1 DEF PushedAt
<1>3. \A j \in 1..(Len(q) + 1) :
        j # p => back(j) \in 1..Len(q) /\ r[j] = q[back(j)]
  BY <1>0, <1>1, <1>2
<1>4. \A k \in 1..Len(q) : q[k].thread # e.thread
  BY <1>0 DEF Sleepers
<1>5. \A i, j \in 1..Len(q) : q[i].thread = q[j].thread => i = j
  BY <1>0 DEF Distinct
<1>6. ASSUME NEW i \in 1..(Len(q) + 1), NEW j \in 1..(Len(q) + 1),
             r[i].thread = r[j].thread
      PROVE  i = j
  <2>1. CASE i = p /\ j = p
    BY <2>1
  <2>2. CASE i # p /\ j = p
    <3>1. r[i] = q[back(i)] /\ q[back(i)].thread # e.thread
      BY <2>2, <1>3, <1>4
    <3>2. r[j] = e
      BY <2>2, <1>0, <1>2
    <3> QED
      BY <3>1, <3>2, <1>6
  <2>3. CASE i = p /\ j # p
    <3>1. r[j] = q[back(j)] /\ q[back(j)].thread # e.thread
      BY <2>3, <1>3, <1>4
    <3>2. r[i] = e
      BY <2>3, <1>0, <1>2
    <3> QED
      BY <3>1, <3>2, <1>6
  <2>4. CASE i # p /\ j # p
    <3>1. back(i) = back(j)
      BY <2>4, <1>3, <1>5, <1>6
    <3> QED
      BY <3>1, <2>4, <1>0, <1>1
  <2> QED
    BY <2>1, <2>2, <2>3, <2>4
<1>7. DOMAIN r = 1..(Len(q) + 1)
  BY <1>0, <1>1, <1>2
<1> QED
  BY <1>6, <1>7 DEF Distinct, r

(* Pushing into an ordered queue keeps it ordered: the entries that stay    *)
(* ahead of the new one are exactly a prefix.                               *)
LEMMA PushOrdered ==
  ASSUME NEW S, \A x \in S : x.thread \in Threads,
         NEW q \in Seq(S), NEW e \in S, Ordered(q)
  PROVE  Ordered(Push(q, e))
<1> DEFINE p == Cardinality(Ahead(q, e)) + 1
           r == Push(q, e)
<1>0. Len(q) \in Nat /\ DOMAIN q = 1..Len(q) /\ \A k \in 1..Len(q) : q[k] \in S
  OBVIOUS
<1>1. p \in 1..(Len(q) + 1) /\ r \in Seq(S) /\ PushedAt(r, q, e, p)
  BY PushPosition
<1>2. Rank(e.thread) \in Int /\ \A k \in 1..Len(q) : Rank(q[k].thread) \in Int
  BY <1>0, QueueAssumption DEF Rank
<1>3. \A i, j \in 1..Len(q) : i < j => Rank(q[i].thread) <= Rank(q[j].thread)
  BY <1>0 DEF Ordered
<1>4. /\ Ahead(q, e) \in SUBSET (1..Len(q)) /\ IsFiniteSet(Ahead(q, e))
      /\ Cardinality(Ahead(q, e)) \in Nat
  <2>1. Ahead(q, e) \in SUBSET (1..Len(q))
    BY <1>0 DEF Ahead
  <2>2. IsFiniteSet(1..Len(q))
    BY <1>0, FS_Interval
  <2>3. IsFiniteSet(Ahead(q, e))
    BY <2>1, <2>2, FS_Subset
  <2> QED
    BY <2>1, <2>3, FS_CardinalityType
<1>5. ASSUME NEW i \in 1..Len(q) PROVE i \in Ahead(q, e) <=> i < p
  <2>1. CASE i \in Ahead(q, e)
    <3>1. 1..i \in SUBSET Ahead(q, e)
      BY <2>1, <1>0, <1>2, <1>3 DEF Ahead
    <3>2. Cardinality(1..i) <= Cardinality(Ahead(q, e)) /\ Cardinality(1..i) = i
      BY <3>1, <1>0, <1>4, FS_Subset, FS_Interval
    <3>3. i < p
      BY <3>2, <1>4
    <3> QED
      BY <3>3, <2>1
  <2>2. CASE i \notin Ahead(q, e)
    <3>1. Ahead(q, e) \in SUBSET (1..(i - 1))
      BY <2>2, <1>0, <1>2, <1>3, <1>4 DEF Ahead
    <3>2. IsFiniteSet(1..(i - 1)) /\ Cardinality(1..(i - 1)) = i - 1
      <4>1. i - 1 \in Int /\ ~(1 > i - 1 /\ i # 1)
        BY <1>0
      <4>2. /\ IsFiniteSet(1..(i - 1))
            /\ Cardinality(1..(i - 1)) = IF 1 > i - 1 THEN 0 ELSE (i - 1) - 1 + 1
        BY <4>1, FS_Interval
      <4> QED
        BY <4>1, <4>2
    <3>3. Cardinality(Ahead(q, e)) <= i - 1
      BY <3>1, <3>2, FS_Subset
    <3>4. ~(i < p)
      BY <3>3, <1>4
    <3> QED
      BY <3>4, <2>2
  <2> QED
    BY <2>1, <2>2
<1>6. \A i \in 1..Len(q) :
        i \in Ahead(q, e) <=> Rank(q[i].thread) <= Rank(e.thread)
  BY <1>0 DEF Ahead
<1>7. \A i \in 1..Len(q) :
        /\ i < p => Rank(q[i].thread) <= Rank(e.thread)
        /\ i >= p => Rank(e.thread) <= Rank(q[i].thread)
  BY <1>0, <1>1, <1>2, <1>5, <1>6
<1> HIDE DEF p, r
<1>8. /\ Len(r) = Len(q) + 1 /\ DOMAIN r = 1..(Len(q) + 1)
      /\ \A j \in 1..(Len(q) + 1) :
           r[j] = IF j < p THEN q[j] ELSE IF j = p THEN e ELSE q[j - 1]
  BY <1>0, <1>1 DEF PushedAt
<1>9. ASSUME NEW i \in 1..(Len(q) + 1), NEW j \in 1..(Len(q) + 1), i < j
      PROVE  Rank(r[i].thread) <= Rank(r[j].thread)
  <2>1. CASE j < p
    BY <2>1, <1>0, <1>1, <1>3, <1>8, <1>9
  <2>2. CASE j = p
    BY <2>2, <1>0, <1>1, <1>7, <1>8, <1>9
  <2>3. CASE j > p /\ i = p
    <3>1. r[i] = e /\ r[j] = q[j - 1] /\ j - 1 \in 1..Len(q) /\ j - 1 >= p
      BY <2>3, <1>0, <1>1, <1>8
    <3> QED
      BY <3>1, <1>7
  <2>4. CASE j > p /\ i > p
    <3>1. /\ r[i] = q[i - 1] /\ r[j] = q[j - 1]
          /\ i - 1 \in 1..Len(q) /\ j - 1 \in 1..Len(q) /\ i - 1 < j - 1
      BY <2>4, <1>0, <1>1, <1>8, <1>9
    <3> QED
      BY <3>1, <1>3
  <2>5. CASE j > p /\ i < p
    <3>1. r[i] = q[i] /\ r[j] = q[j - 1] /\ i \in 1..Len(q) /\ j - 1 \in 1..Len(q)
      BY <2>5, <1>0, <1>1, <1>8
    <3>2. Rank(q[i].thread) <= Rank(e.thread) /\ Rank(e.thread) <= Rank(q[j - 1].thread)
      BY <3>1, <2>5, <1>0, <1>1, <1>7
    <3> QED
      BY <3>1, <3>2, <1>2
  <2>6. j < p \/ j = p \/ (j > p /\ (i = p \/ i > p \/ i < p))
    BY <1>0, <1>1
  <2> QED
    BY <2>1, <2>2, <2>3, <2>4, <2>5, <2>6
<1> QED
  BY <1>8, <1>9 DEF Ordered, r

-----------------------------------------------------------------------------
(* Erasing a sleeper takes exactly its entry out.                           *)
LEMMA EraseContents ==
  ASSUME NEW S, NEW q \in Seq(S), NEW t, t \in Sleepers(q), Distinct(q)
  PROVE  /\ Erase(q, t) \in Seq(S)
         /\ ToSet(Erase(q, t)) = {x \in ToSet(q) : x.thread # t}
         /\ Distinct(Erase(q, t))
         /\ Ordered(q) => Ordered(Erase(q, t))
<1> DEFINE k == CHOOSE i \in DOMAIN q : q[i].thread = t
           r == Erase(q, t)
           from(j) == IF j < k THEN j ELSE j + 1
<1>0. Len(q) \in Nat /\ DOMAIN q = 1..Len(q)
  OBVIOUS
<1>1. k \in 1..Len(q) /\ q[k].thread = t
  BY <1>0 DEF Sleepers
<1>2. r = RemoveAt(q, k)
  BY DEF Erase
<1> HIDE DEF k, r
<1>3. /\ RemoveAt(q, k) \in Seq(S) /\ Len(RemoveAt(q, k)) = Len(q) - 1
      /\ \A j \in 1..(Len(q) - 1) :
           RemoveAt(q, k)[j] = IF j < k THEN q[j] ELSE q[j + 1]
  BY <1>1, RemoveAtPositions
<1>4. /\ r \in Seq(S) /\ DOMAIN r = 1..(Len(q) - 1)
      /\ \A j \in 1..(Len(q) - 1) :
           from(j) \in 1..Len(q) /\ from(j) # k /\ r[j] = q[from(j)]
  BY <1>0, <1>1, <1>2, <1>3
<1>5. \A i, j \in 1..(Len(q) - 1) : i < j => from(i) < from(j)
  BY <1>0, <1>1
<1>6. \A i, j \in 1..(Len(q) - 1) : from(i) = from(j) => i = j
  BY <1>0, <1>1
<1>7. \A m \in 1..Len(q) : m # k => \E j \in 1..(Len(q) - 1) : from(j) = m
  <2> SUFFICES ASSUME NEW m \in 1..Len(q), m # k
               PROVE  \E j \in 1..(Len(q) - 1) : from(j) = m
    OBVIOUS
  <2>1. CASE m < k
    <3>1. m \in 1..(Len(q) - 1) /\ from(m) = m
      BY <2>1, <1>0, <1>1
    <3> QED
      BY <3>1
  <2>2. CASE m > k
    <3>1. m - 1 \in 1..(Len(q) - 1) /\ from(m - 1) = m
      BY <2>2, <1>0, <1>1
    <3> QED
      BY <3>1
  <2> QED
    BY <2>1, <2>2, <1>0, <1>1
<1> HIDE DEF from
<1>8. \A i, j \in 1..Len(q) : q[i].thread = q[j].thread => i = j
  BY <1>0 DEF Distinct
<1>9. ToSet(r) = {x \in ToSet(q) : x.thread # t}
  <2>1. ASSUME NEW x \in ToSet(r) PROVE x \in ToSet(q) /\ x.thread # t
    <3>1. PICK j \in 1..(Len(q) - 1) : x = r[j]
      BY <1>4 DEF ToSet
    <3> QED
      BY <3>1, <1>0, <1>1, <1>4, <1>8 DEF ToSet
  <2>2. ASSUME NEW x \in ToSet(q), x.thread # t PROVE x \in ToSet(r)
    <3>1. PICK m \in 1..Len(q) : x = q[m]
      BY <1>0 DEF ToSet
    <3>2. m # k
      BY <3>1, <2>2, <1>1
    <3>3. PICK j \in 1..(Len(q) - 1) : from(j) = m
      BY <3>2, <1>7
    <3> QED
      BY <3>1, <3>3, <1>4 DEF ToSet
  <2> QED
    BY <2>1, <2>2
<1>10. Distinct(r)
  BY <1>4, <1>6, <1>8 DEF Distinct
<1>11. Ordered(q) => Ordered(r)
  BY <1>0, <1>4, <1>5 DEF Ordered
<1> QED
  BY <1>4, <1>9, <1>10, <1>11 DEF r

(* Removing at a position is removing the thread that is there.             *)
LEMMA RemoveAtIsErase ==
  ASSUME NEW S, NEW q \in Seq(S), Distinct(q), NEW i \in DOMAIN q
  PROVE  /\ q[i].thread \in Sleepers(q)
         /\ RemoveAt(q, i) = Erase(q, q[i].thread)
<1> DEFINE k == CHOOSE j \in DOMAIN q : q[j].thread = q[i].thread
<1>1. k \in DOMAIN q /\ q[k].thread = q[i].thread
  OBVIOUS
<1>2. k = i
  BY <1>1 DEF Distinct
<1> QED
  BY <1>2 DEF Erase, Sleepers

(* Serving the head of a queue takes exactly its entry out.                 *)
LEMMA TailContents ==
  ASSUME NEW S, NEW q \in Seq(S), q # <<>>, Distinct(q)
  PROVE  /\ Head(q) \in S /\ Head(q) \in ToSet(q)
         /\ Head(q).thread \in Sleepers(q)
         /\ Tail(q) \in Seq(S)
         /\ ToSet(Tail(q)) = {x \in ToSet(q) : x.thread # Head(q).thread}
         /\ Distinct(Tail(q))
         /\ Ordered(q) => Ordered(Tail(q))
<1> DEFINE r == Tail(q)
<1>0. Len(q) \in Nat /\ DOMAIN q = 1..Len(q) /\ Len(q) >= 1
  OBVIOUS
<1>1. Head(q) = q[1] /\ 1 \in 1..Len(q)
  BY <1>0
<1>2. /\ r \in Seq(S) /\ DOMAIN r = 1..(Len(q) - 1)
      /\ \A j \in 1..(Len(q) - 1) : r[j] = q[j + 1] /\ j + 1 \in 1..Len(q)
  BY <1>0
<1> HIDE DEF r
<1>3. \A i, j \in 1..Len(q) : q[i].thread = q[j].thread => i = j
  BY <1>0 DEF Distinct
<1>4. ToSet(r) = {x \in ToSet(q) : x.thread # Head(q).thread}
  <2>1. ASSUME NEW x \in ToSet(r)
        PROVE  x \in ToSet(q) /\ x.thread # Head(q).thread
    <3>1. PICK j \in 1..(Len(q) - 1) : x = r[j]
      BY <1>2 DEF ToSet
    <3>2. x = q[j + 1] /\ j + 1 \in 1..Len(q) /\ j + 1 # 1
      BY <3>1, <1>0, <1>2
    <3> QED
      BY <3>2, <1>0, <1>1, <1>3 DEF ToSet
  <2>2. ASSUME NEW x \in ToSet(q), x.thread # Head(q).thread
        PROVE  x \in ToSet(r)
    <3>1. PICK m \in 1..Len(q) : x = q[m]
      BY <1>0 DEF ToSet
    <3>2. m # 1
      BY <3>1, <2>2, <1>1
    <3>3. m - 1 \in 1..(Len(q) - 1) /\ r[m - 1] = q[m]
      BY <3>2, <1>0, <1>2
    <3> QED
      BY <3>1, <3>3, <1>2 DEF ToSet
  <2> QED
    BY <2>1, <2>2
<1>5. Distinct(r)
  <2> SUFFICES ASSUME NEW i \in 1..(Len(q) - 1), NEW j \in 1..(Len(q) - 1),
                      r[i].thread = r[j].thread
               PROVE  i = j
    BY <1>2 DEF Distinct
  <2>1. i + 1 = j + 1
    BY <1>2, <1>3
  <2> QED
    BY <2>1, <1>0
<1>6. Ordered(q) => Ordered(r)
  <2> SUFFICES ASSUME Ordered(q),
                      NEW i \in 1..(Len(q) - 1), NEW j \in 1..(Len(q) - 1), i < j
               PROVE  Rank(r[i].thread) <= Rank(r[j].thread)
    BY <1>2 DEF Ordered
  <2>1. i + 1 < j + 1
    BY <1>0
  <2> QED
    BY <2>1, <1>0, <1>2 DEF Ordered
<1>7. Head(q) \in S /\ Head(q) \in ToSet(q) /\ Head(q).thread \in Sleepers(q)
  BY <1>0, <1>1 DEF ToSet, Sleepers
<1> QED
  BY <1>2, <1>4, <1>5, <1>6, <1>7 DEF r

(* The sleepers are the threads of the entries.                             *)
LEMMA SleepersOfEntries ==
  ASSUME NEW q
  PROVE  Sleepers(q) = {x.thread : x \in ToSet(q)}
BY DEF Sleepers, ToSet

(* Two entries of one thread are one entry.                                 *)
LEMMA EntryUnique ==
  ASSUME NEW q, Distinct(q), NEW x \in ToSet(q), NEW y \in ToSet(q),
         x.thread = y.thread
  PROVE  x = y
BY DEF Distinct, ToSet

(* Nobody in an ordered queue is more urgent than its head.                 *)
LEMMA HeadMostUrgent ==
  ASSUME NEW S, \A x \in S : x.thread \in Threads,
         NEW q \in Seq(S), q # <<>>, Ordered(q), NEW t \in Sleepers(q)
  PROVE  Rank(Head(q).thread) <= Rank(t)
<1>0. Len(q) \in Nat /\ DOMAIN q = 1..Len(q) /\ Len(q) >= 1 /\ Head(q) = q[1]
      /\ \A k \in 1..Len(q) : q[k] \in S
  OBVIOUS
<1>1. PICK i \in 1..Len(q) : q[i].thread = t
  BY <1>0 DEF Sleepers
<1>2. Rank(t) \in Int
  <2>1. t \in Threads
    BY <1>0, <1>1
  <2> QED
    BY <2>1, QueueAssumption DEF Rank
<1>3. CASE i = 1
  BY <1>0, <1>1, <1>2, <1>3
<1>4. CASE i > 1
  BY <1>0, <1>1, <1>4 DEF Ordered
<1> QED
  BY <1>0, <1>3, <1>4

(* Pushing leaves the head or puts the new entry there.                     *)
LEMMA PushHead ==
  ASSUME NEW S, NEW q \in Seq(S), NEW e \in S
  PROVE  Head(Push(q, e)) = e \/ (q # <<>> /\ Head(Push(q, e)) = Head(q))
<1> DEFINE p == Cardinality(Ahead(q, e)) + 1
           r == Push(q, e)
<1>0. Len(q) \in Nat
  OBVIOUS
<1>1. p \in 1..(Len(q) + 1) /\ r \in Seq(S) /\ PushedAt(r, q, e, p) /\ r # <<>>
  BY PushPosition, PushContents
<1> HIDE DEF p, r
<1>2. Head(r) = r[1] /\ r[1] = IF 1 < p THEN q[1] ELSE e
  BY <1>0, <1>1 DEF PushedAt
<1>3. CASE p = 1
  BY <1>2, <1>3 DEF r
<1>4. CASE p > 1
  <2>1. q # <<>> /\ Head(q) = q[1]
    BY <1>0, <1>1, <1>4
  <2> QED
    BY <1>2, <1>4, <2>1 DEF r
<1> QED
  BY <1>1, <1>3, <1>4

(* Erasing somebody else leaves the head.                                   *)
LEMMA EraseHead ==
  ASSUME NEW S, NEW q \in Seq(S), NEW t, t \in Sleepers(q), Distinct(q),
         Head(q).thread # t
  PROVE  Erase(q, t) # <<>> /\ Head(Erase(q, t)) = Head(q)
<1> DEFINE k == CHOOSE i \in DOMAIN q : q[i].thread = t
<1>0. Len(q) \in Nat /\ DOMAIN q = 1..Len(q)
  OBVIOUS
<1>1. k \in 1..Len(q) /\ q[k].thread = t /\ Erase(q, t) = RemoveAt(q, k)
  BY <1>0 DEF Sleepers, Erase
<1> HIDE DEF k
<1>2. k > 1
  BY <1>0, <1>1
<1>3. /\ RemoveAt(q, k) \in Seq(S) /\ Len(RemoveAt(q, k)) = Len(q) - 1
      /\ \A j \in 1..(Len(q) - 1) :
           RemoveAt(q, k)[j] = IF j < k THEN q[j] ELSE q[j + 1]
  BY <1>1, RemoveAtPositions
<1>4. 1 \in 1..(Len(q) - 1) /\ RemoveAt(q, k)[1] = q[1]
  BY <1>0, <1>1, <1>2, <1>3
<1> QED
  BY <1>0, <1>1, <1>3, <1>4
=============================================================================
