-------------------------- MODULE DialogTurnQueueProofs --------------------------
(***************************************************************************)
(* Lemmas about the queue operators of DialogTurnQueue, for every queue,   *)
(* priority assignment and limit.                                          *)
(***************************************************************************)
EXTENDS DialogTurnQueue, SequenceTheorems, WellFoundedInduction, TLAPS

(* A non-empty set of positions has a first one, which Min returns. *)
LEMMA MinPosition ==
  ASSUME NEW n \in Nat, NEW I \in SUBSET (1..n), I # {}
  PROVE  Min(I) \in I /\ \A i \in I : Min(I) <= i
<1>1. PICK m \in I : \A i \in I : ~(<<i, m>> \in OpToRel(<, Nat))
  <2>1. I \subseteq Nat
    OBVIOUS
  <2> QED
    BY <2>1, NatLessThanWellFounded, WFMin, Zenon
<1>2. \A x, y \in Nat : x < y => <<x, y>> \in OpToRel(<, Nat)
  BY Zenon DEF OpToRel
<1>3. \A i \in I : ~(i < m)
  <2>1. I \subseteq Nat
    OBVIOUS
  <2> QED
    BY <1>1, <1>2, <2>1, Zenon
<1>4. \A i \in I : m <= i
  BY <1>3
<1> QED
  BY <1>4 DEF Min

(* FirstLower finds the first item of lower priority. *)
LEMMA FirstLowerFinds ==
  ASSUME NEW q \in Seq(Turn), NEW t \in Turn
  PROVE  LET i == FirstLower(q, t) IN
         /\ i \in 0..Len(q)
         /\ i > 0 => Priority[q[i]] < Priority[t]
         /\ \A j \in 1..Len(q) : (i = 0 \/ j < i) => Priority[q[j]] >= Priority[t]
<1> DEFINE I == {j \in 1..Len(q) : Priority[q[j]] < Priority[t]}
<1>1. FirstLower(q, t) = IF I # {} THEN Min(I) ELSE 0
  BY DEF FirstLower, SelectInSeq
<1>2. \A j \in 1..Len(q) : Priority[q[j]] \in Nat /\ Priority[t] \in Nat
  BY QueueAssumption
<1>3. CASE I = {}
  BY <1>1, <1>2, <1>3
<1>4. CASE I # {}
  <2>1. Min(I) \in I /\ \A j \in I : Min(I) <= j
    <3>1. I \in SUBSET (1..Len(q)) /\ Len(q) \in Nat
      OBVIOUS
    <3> QED
      BY <1>4, <3>1, MinPosition, Zenon
  <2>2. FirstLower(q, t) = Min(I)
    BY <1>1, <1>4
  <2> HIDE DEF I
  <2>3. Min(I) \in 1..Len(q) /\ Priority[q[Min(I)]] < Priority[t]
    BY <2>1 DEF I
  <2>4. ASSUME NEW j \in 1..Len(q), j < Min(I) PROVE Priority[q[j]] >= Priority[t]
    <3>1. j \notin I
      BY <2>1, <2>3, <2>4
    <3> QED
      BY <1>2, <3>1 DEF I
  <2> QED
    BY <2>2, <2>3, <2>4
<1> QED
  BY <1>3, <1>4

(* What "r is q with t inserted at position p" means. *)
InsertedAt(r, q, t, p) ==
  /\ r \in Seq(Turn) /\ Len(r) = Len(q) + 1
  /\ p \in 1..Len(r) /\ r[p] = t
  /\ \A j \in 1..Len(q) : r[IF j < p THEN j ELSE j + 1] = q[j]
  /\ \A j \in 1..Len(r) : j # p => r[j] = q[IF j < p THEN j ELSE j - 1]

(* Enqueue inserts after every item of at least its priority that stands before
   the first item of lower priority. *)
LEMMA EnqueueInserts ==
  ASSUME NEW q \in Seq(Turn), NEW t \in Turn
  PROVE  \E p \in 1..(Len(q) + 1) :
           /\ InsertedAt(Enqueue(q, t), q, t, p)
           /\ \A j \in 1..Len(q) : j < p => Priority[q[j]] >= Priority[t]
           /\ p <= Len(q) => Priority[q[p]] < Priority[t]
<1> DEFINE i == FirstLower(q, t)
<1>1. /\ i \in 0..Len(q)
      /\ i > 0 => Priority[q[i]] < Priority[t]
      /\ \A j \in 1..Len(q) : (i = 0 \/ j < i) => Priority[q[j]] >= Priority[t]
  BY FirstLowerFinds
<1>2. Enqueue(q, t) = IF i > 0 THEN InsertAt(q, i, t) ELSE Append(q, t)
  BY DEF Enqueue
<1> HIDE DEF i
<1>3. CASE i = 0
  <2>1. Enqueue(q, t) = Append(q, t)
    BY <1>2, <1>3
  <2>2. InsertedAt(Enqueue(q, t), q, t, Len(q) + 1)
    BY <2>1 DEF InsertedAt
  <2> QED
    BY <1>1, <1>3, <2>2
<1>4. CASE i > 0
  <2> DEFINE a == SubSeq(q, 1, i - 1)
             b == SubSeq(q, i, Len(q))
  <2>1. i \in 1..Len(q)
    BY <1>1, <1>4
  <2>2. a \in Seq(Turn) /\ Len(a) = i - 1 /\ \A j \in 1..(i - 1) : a[j] = q[j]
    BY <2>1
  <2>3. /\ b \in Seq(Turn) /\ Len(b) = Len(q) - i + 1
        /\ \A j \in 1..(Len(q) - i + 1) : b[j] = q[i + j - 1]
    BY <2>1
  <2>4. Enqueue(q, t) = a \o <<t>> \o b
    BY <1>2, <1>4 DEF InsertAt
  <2> HIDE DEF a, b
  <2> DEFINE r == a \o <<t>> \o b
  <2>5. /\ r \in Seq(Turn) /\ Len(r) = Len(q) + 1
        /\ \A j \in 1..Len(r) : r[j] = IF j < i THEN a[j]
                                      ELSE IF j = i THEN t ELSE b[j - i]
    <3> DEFINE c == a \o <<t>>
    <3>1. c \in Seq(Turn) /\ Len(c) = i /\ \A j \in 1..i : c[j] = IF j < i THEN a[j] ELSE t
      BY <2>1, <2>2
    <3> HIDE DEF c
    <3>2. /\ c \o b \in Seq(Turn) /\ Len(c \o b) = Len(c) + Len(b)
          /\ \A j \in 1..(Len(c) + Len(b)) :
                (c \o b)[j] = IF j <= Len(c) THEN c[j] ELSE b[j - Len(c)]
      BY <2>3, <3>1, ConcatProperties, Zenon
    <3>3. r = c \o b
      BY DEF c
    <3> HIDE DEF r
    <3>4. /\ r \in Seq(Turn) /\ Len(r) = Len(q) + 1
          /\ \A j \in 1..(Len(q) + 1) : r[j] = IF j <= i THEN c[j] ELSE b[j - i]
      BY <2>1, <2>3, <3>1, <3>2, <3>3
    <3> QED
      BY <2>1, <3>1, <3>4
  <2> HIDE DEF r
  <2>6. InsertedAt(r, q, t, i)
    <3>1. ASSUME NEW j \in 1..Len(q) PROVE r[IF j < i THEN j ELSE j + 1] = q[j]
      <4>1. CASE j < i
        BY <2>1, <2>2, <2>5, <4>1
      <4>2. CASE j >= i
        <5>1. b[j + 1 - i] = q[j]
          BY <2>1, <2>3, <4>2
        <5>2. r[j + 1] = b[j + 1 - i]
          BY <2>1, <2>5, <4>2
        <5> QED
          BY <2>1, <4>2, <5>1, <5>2
      <4> QED
        BY <2>1, <4>1, <4>2
    <3>2. ASSUME NEW j \in 1..Len(r), j # i
          PROVE  r[j] = q[IF j < i THEN j ELSE j - 1]
      <4>1. CASE j < i
        BY <2>1, <2>2, <2>5, <4>1
      <4>2. CASE j > i
        <5>1. b[j - i] = q[j - 1]
          BY <2>1, <2>3, <2>5, <4>2
        <5>2. r[j] = b[j - i]
          BY <2>1, <2>5, <4>2
        <5> QED
          BY <2>1, <4>2, <5>1, <5>2
      <4> QED
        BY <2>1, <3>2, <4>1, <4>2
    <3>3. i \in 1..Len(r) /\ r[i] = t
      BY <2>1, <2>5
    <3> QED
      BY <2>5, <3>1, <3>2, <3>3 DEF InsertedAt
  <2> QED
    BY <1>1, <1>4, <2>1, <2>4, <2>6 DEF r
<1> QED
  BY <1>1, <1>3, <1>4

(* Enqueue keeps the dispatch order. *)
LEMMA EnqueueByPriority ==
  ASSUME NEW q \in Seq(Turn), NEW t \in Turn, ByPriority(q)
  PROVE  ByPriority(Enqueue(q, t))
<1> DEFINE r == Enqueue(q, t)
<1>1. PICK p \in 1..(Len(q) + 1) :
        /\ InsertedAt(r, q, t, p)
        /\ \A j \in 1..Len(q) : j < p => Priority[q[j]] >= Priority[t]
        /\ p <= Len(q) => Priority[q[p]] < Priority[t]
  BY EnqueueInserts
<1> HIDE DEF r
<1>2. /\ Len(r) = Len(q) + 1 /\ r[p] = t
      /\ \A j \in 1..Len(r) : j # p => r[j] = q[IF j < p THEN j ELSE j - 1]
  BY <1>1 DEF InsertedAt
<1>3. \A j \in 1..Len(q) : Priority[q[j]] \in Nat
  BY QueueAssumption
<1>4. Priority[t] \in Nat
  BY QueueAssumption
<1>5. \A j \in 1..Len(q) : j >= p => Priority[q[j]] <= Priority[t]
  <2> SUFFICES ASSUME NEW j \in 1..Len(q), j >= p PROVE Priority[q[j]] <= Priority[t]
    OBVIOUS
  <2>1. p \in 1..Len(q) /\ Priority[q[p]] < Priority[t]
    BY <1>1
  <2>2. CASE j = p
    BY <2>1, <2>2, <1>3, <1>4
  <2>3. CASE j > p
    <3>1. Priority[q[p]] >= Priority[q[j]]
      BY <2>1, <2>3 DEF ByPriority
    <3> QED
      BY <2>1, <3>1, <1>3, <1>4
  <2> QED
    BY <2>2, <2>3
<1>6. ASSUME NEW j \in 1..Len(r), NEW k \in 1..Len(r), j < k
      PROVE  Priority[r[j]] >= Priority[r[k]]
  <2>1. CASE j = p
    <3>1. r[k] = q[k - 1] /\ k - 1 \in 1..Len(q) /\ k - 1 >= p
      BY <1>2, <1>6, <2>1
    <3> QED
      BY <1>2, <1>5, <2>1, <3>1, <1>3, <1>4
  <2>2. CASE k = p
    <3>1. r[j] = q[j] /\ j \in 1..Len(q) /\ j < p
      BY <1>2, <1>6, <2>2
    <3> QED
      BY <1>1, <1>2, <2>2, <3>1
  <2>3. CASE j # p /\ k # p
    <3> DEFINE u == IF j < p THEN j ELSE j - 1
               v == IF k < p THEN k ELSE k - 1
    <3>1. r[j] = q[u] /\ r[k] = q[v] /\ u \in 1..Len(q) /\ v \in 1..Len(q) /\ u < v
      BY <1>2, <1>6, <2>3
    <3> QED
      BY <3>1 DEF ByPriority
  <2> QED
    BY <2>1, <2>2, <2>3
<1> QED
  BY <1>6 DEF ByPriority, r

(* What "r is q without the item at position p" means. *)
RemovedAt(r, q, p) ==
  /\ r \in Seq(Turn) /\ Len(r) = Len(q) - 1 /\ p \in 1..Len(q)
  /\ \A j \in 1..Len(r) : /\ (IF j < p THEN j ELSE j + 1) \in 1..Len(q)
                          /\ r[j] = q[IF j < p THEN j ELSE j + 1]

(* A turn that is in the queue is removed at one of its positions. *)
LEMMA RemoveTurnRemoves ==
  ASSUME NEW q \in Seq(Turn), NEW t \in Turn, \E j \in 1..Len(q) : q[j] = t
  PROVE  \E p \in 1..Len(q) : q[p] = t /\ RemovedAt(RemoveTurn(q, t), q, p)
<1> DEFINE r == RemoveTurn(q, t)
           I == {j \in 1..Len(q) : q[j] = t}
           p == Min(I)
           a == SubSeq(q, 1, p - 1)
           b == SubSeq(q, p + 1, Len(q))
<1>1. p \in 1..Len(q) /\ q[p] = t
  <2>1. I \in SUBSET (1..Len(q)) /\ Len(q) \in Nat /\ I # {}
    OBVIOUS
  <2>2. p \in I
    BY <2>1, MinPosition, Zenon
  <2> HIDE DEF p
  <2> QED
    BY <2>1, <2>2
<1>2. r = a \o b
  <2>1. \E j \in 1..Len(q) : q[j] = t
    OBVIOUS
  <2> QED
    BY <2>1, Zenon DEF RemoveTurn, RemoveFirst, RemoveAt, SelectInSeq
<1> HIDE DEF p
<1>3. a \in Seq(Turn) /\ Len(a) = p - 1 /\ \A j \in 1..(p - 1) : a[j] = q[j]
  BY <1>1
<1>4. /\ b \in Seq(Turn) /\ Len(b) = Len(q) - p
      /\ \A j \in 1..(Len(q) - p) : b[j] = q[p + j]
  BY <1>1
<1> HIDE DEF a, b, r
<1>5. /\ r \in Seq(Turn) /\ Len(r) = Len(q) - 1
      /\ \A j \in 1..(Len(q) - 1) : r[j] = IF j <= p - 1 THEN a[j] ELSE b[j - (p - 1)]
  <2>1. /\ r \in Seq(Turn) /\ Len(r) = Len(a) + Len(b)
        /\ \A j \in 1..(Len(a) + Len(b)) :
              r[j] = IF j <= Len(a) THEN a[j] ELSE b[j - Len(a)]
    BY <1>2, <1>3, <1>4, ConcatProperties, Zenon
  <2> QED
    BY <1>1, <1>3, <1>4, <2>1
<1>6. ASSUME NEW j \in 1..Len(r)
      PROVE  /\ (IF j < p THEN j ELSE j + 1) \in 1..Len(q)
             /\ r[j] = q[IF j < p THEN j ELSE j + 1]
  <2>1. CASE j < p
    BY <1>1, <1>3, <1>5, <2>1
  <2>2. CASE j >= p
    <3>1. r[j] = b[j - (p - 1)] /\ j - (p - 1) \in 1..(Len(q) - p)
      BY <1>1, <1>5, <2>2
    <3>2. b[j - (p - 1)] = q[p + (j - (p - 1))] /\ p + (j - (p - 1)) = j + 1
      BY <1>1, <1>4, <3>1
    <3> QED
      BY <1>1, <1>5, <2>2, <3>1, <3>2
  <2> QED
    BY <1>1, <2>1, <2>2
<1>7. RemovedAt(r, q, p)
  BY <1>1, <1>5, <1>6 DEF RemovedAt
<1> QED
  BY <1>1, <1>7, Zenon DEF r

(* Removing a turn leaves the rest in place: every item of the result comes
   from an item of the queue, and positions keep their order. *)
LEMMA RemoveTurnKeeps ==
  ASSUME NEW q \in Seq(Turn), NEW t \in Turn
  PROVE  /\ RemoveTurn(q, t) \in Seq(Turn)
         /\ Len(RemoveTurn(q, t)) <= Len(q)
         /\ \E p \in Nat : \A j \in 1..Len(RemoveTurn(q, t)) :
              /\ (IF j < p THEN j ELSE j + 1) \in 1..Len(q)
              /\ RemoveTurn(q, t)[j] = q[IF j < p THEN j ELSE j + 1]
<1> DEFINE r == RemoveTurn(q, t)
           I == {j \in 1..Len(q) : q[j] = t}
<1>1. CASE I = {}
  <2>1. r = q
    <3>1. ~\E j \in 1..Len(q) : q[j] = t
      BY <1>1
    <3> QED
      BY <3>1, Zenon DEF RemoveTurn, RemoveFirst
  <2> HIDE DEF r
  <2>2. \A j \in 1..Len(r) : /\ (IF j < Len(q) + 1 THEN j ELSE j + 1) \in 1..Len(q)
                            /\ r[j] = q[IF j < Len(q) + 1 THEN j ELSE j + 1]
    BY <2>1
  <2>3. Len(q) + 1 \in Nat
    OBVIOUS
  <2>4. r \in Seq(Turn) /\ Len(r) <= Len(q)
    BY <2>1
  <2>5. \E p \in Nat : \A j \in 1..Len(r) : /\ (IF j < p THEN j ELSE j + 1) \in 1..Len(q)
                                          /\ r[j] = q[IF j < p THEN j ELSE j + 1]
    BY <2>2, <2>3, Zenon
  <2> QED
    BY <2>4, <2>5, Zenon DEF r
<1>2. CASE I # {}
  <2>1. PICK p \in 1..Len(q) : RemovedAt(r, q, p)
    BY <1>2, RemoveTurnRemoves
  <2> HIDE DEF r
  <2>2. r \in Seq(Turn) /\ Len(r) <= Len(q) /\ p \in Nat
    BY <2>1 DEF RemovedAt
  <2>3. \A j \in 1..Len(r) : /\ (IF j < p THEN j ELSE j + 1) \in 1..Len(q)
                            /\ r[j] = q[IF j < p THEN j ELSE j + 1]
    BY <2>1 DEF RemovedAt
  <2> QED
    BY <2>2, <2>3, Zenon DEF r
<1> QED
  BY <1>1, <1>2

(* Removing a turn keeps the dispatch order. *)
LEMMA RemoveTurnByPriority ==
  ASSUME NEW q \in Seq(Turn), NEW t \in Turn, ByPriority(q)
  PROVE  ByPriority(RemoveTurn(q, t))
<1> DEFINE r == RemoveTurn(q, t)
<1>1. PICK p \in Nat : \A j \in 1..Len(r) :
                         /\ (IF j < p THEN j ELSE j + 1) \in 1..Len(q)
                         /\ r[j] = q[IF j < p THEN j ELSE j + 1]
  BY RemoveTurnKeeps
<1>2. r \in Seq(Turn)
  BY RemoveTurnKeeps
<1> HIDE DEF r
<1>3. ASSUME NEW i \in 1..Len(r), NEW j \in 1..Len(r), i < j
      PROVE  Priority[r[i]] >= Priority[r[j]]
  <2> DEFINE k == IF i < p THEN i ELSE i + 1
             l == IF j < p THEN j ELSE j + 1
  <2>1. k \in 1..Len(q) /\ l \in 1..Len(q) /\ k < l /\ r[i] = q[k] /\ r[j] = q[l]
    BY <1>1, <1>3
  <2> QED
    BY <2>1 DEF ByPriority
<1> QED
  BY <1>3 DEF ByPriority, r

(* Taking the head and putting it back restores the queue. *)
LEMMA RequeueDequeued ==
  ASSUME NEW q \in Seq(Turn), q # <<>>
  PROVE  /\ Head(q) \in Turn /\ Dequeue(q) \in Seq(Turn)
         /\ Len(Dequeue(q)) = Len(q) - 1
         /\ RequeueFront(Dequeue(q), Head(q)) = q
<1>1. Head(q) \in Turn /\ Dequeue(q) \in Seq(Turn) /\ Len(Dequeue(q)) = Len(q) - 1
  BY DEF Dequeue
<1>2. RequeueFront(Dequeue(q), Head(q)) = q
  <2> DEFINE r == <<Head(q)>> \o Tail(q)
  <2>1. r \in Seq(Turn) /\ Len(r) = Len(q)
    OBVIOUS
  <2>2. \A i \in 1..Len(q) : r[i] = q[i]
    OBVIOUS
  <2>3. r = q
    BY <2>1, <2>2, SeqEqual
  <2> QED
    BY <2>3 DEF RequeueFront, Dequeue
<1> QED
  BY <1>1, <1>2

(* No turn is twice in the queue. *)
Distinct(q) == \A i, j \in 1..Len(q) : q[i] = q[j] => i = j

(* Enqueueing adds one turn. *)
LEMMA EnqueueAdds ==
  ASSUME NEW q \in Seq(Turn), NEW t \in Turn
  PROVE  /\ ToSet(Enqueue(q, t)) = ToSet(q) \cup {t}
         /\ Distinct(q) /\ t \notin ToSet(q) => Distinct(Enqueue(q, t))
<1> DEFINE r == Enqueue(q, t)
<1>1. PICK p \in 1..(Len(q) + 1) : InsertedAt(r, q, t, p)
  BY EnqueueInserts
<1> HIDE DEF r
<1>2. /\ r \in Seq(Turn) /\ Len(r) = Len(q) + 1 /\ p \in 1..Len(r) /\ r[p] = t
      /\ \A j \in 1..Len(q) : /\ (IF j < p THEN j ELSE j + 1) \in 1..Len(r)
                              /\ r[IF j < p THEN j ELSE j + 1] = q[j]
      /\ \A j \in 1..Len(r) : j # p =>
            /\ (IF j < p THEN j ELSE j - 1) \in 1..Len(q)
            /\ r[j] = q[IF j < p THEN j ELSE j - 1]
  BY <1>1 DEF InsertedAt
<1>3. DOMAIN r = 1..Len(r) /\ DOMAIN q = 1..Len(q)
  BY <1>2
<1>4. ToSet(r) = ToSet(q) \cup {t}
  <2>1. ASSUME NEW j \in 1..Len(q) PROVE q[j] \in {r[i] : i \in 1..Len(r)}
    BY <1>2
  <2>2. ASSUME NEW j \in 1..Len(r) PROVE r[j] \in {q[i] : i \in 1..Len(q)} \cup {t}
    BY <1>2
  <2>3. t \in {r[i] : i \in 1..Len(r)}
    BY <1>2
  <2> QED
    BY <1>3, <2>1, <2>2, <2>3 DEF ToSet
<1>5. ASSUME Distinct(q), t \notin ToSet(q), NEW i \in 1..Len(r), NEW j \in 1..Len(r), r[i] = r[j]
      PROVE  i = j
  <2>1. \A k \in 1..Len(q) : q[k] # t
    BY <1>3, <1>5 DEF ToSet
  <2>2. CASE i = p \/ j = p
    BY <1>2, <1>5, <2>1, <2>2
  <2>3. CASE i # p /\ j # p
    <3> DEFINE k == IF i < p THEN i ELSE i - 1
               l == IF j < p THEN j ELSE j - 1
    <3>1. k \in 1..Len(q) /\ l \in 1..Len(q) /\ q[k] = q[l]
      BY <1>2, <1>5, <2>3
    <3>2. k = l
      BY <1>5, <3>1 DEF Distinct
    <3> QED
      BY <2>3, <3>2
  <2> QED
    BY <2>2, <2>3
<1>6. Distinct(q) /\ t \notin ToSet(q) => Distinct(r)
  BY <1>5 DEF Distinct
<1> QED
  BY <1>4, <1>6 DEF r

(* Removing a turn takes it out for good, and no other. *)
LEMMA RemoveTurnTakes ==
  ASSUME NEW q \in Seq(Turn), NEW t \in ToSet(q), Distinct(q)
  PROVE  /\ ToSet(RemoveTurn(q, t)) = ToSet(q) \ {t}
         /\ Distinct(RemoveTurn(q, t))
<1> DEFINE r == RemoveTurn(q, t)
<1>1. t \in Turn /\ \E j \in 1..Len(q) : q[j] = t
  BY DEF ToSet
<1>2. PICK p \in 1..Len(q) : q[p] = t /\ RemovedAt(r, q, p)
  BY <1>1, RemoveTurnRemoves
<1> HIDE DEF r
<1>3. /\ r \in Seq(Turn) /\ Len(r) = Len(q) - 1
      /\ \A j \in 1..Len(r) : /\ (IF j < p THEN j ELSE j + 1) \in 1..Len(q)
                              /\ r[j] = q[IF j < p THEN j ELSE j + 1]
  BY <1>2 DEF RemovedAt
<1>4. DOMAIN r = 1..Len(r) /\ DOMAIN q = 1..Len(q)
  BY <1>3
<1>5. ASSUME NEW j \in 1..Len(r) PROVE r[j] \in {q[i] : i \in 1..Len(q)} /\ r[j] # t
  <2> DEFINE k == IF j < p THEN j ELSE j + 1
  <2>1. k \in 1..Len(q) /\ r[j] = q[k] /\ k # p
    BY <1>3
  <2> QED
    BY <1>2, <2>1 DEF Distinct
<1>6. ASSUME NEW i \in 1..Len(q), q[i] # t PROVE q[i] \in {r[j] : j \in 1..Len(r)}
  <2> DEFINE k == IF i < p THEN i ELSE i - 1
  <2>1. i # p
    BY <1>2, <1>6
  <2>2. k \in 1..Len(r) /\ (IF k < p THEN k ELSE k + 1) = i
    BY <1>3, <2>1
  <2>3. r[k] = q[i]
    BY <1>3, <2>2
  <2> QED
    BY <2>2, <2>3
<1>7. ToSet(r) = ToSet(q) \ {t}
  BY <1>4, <1>5, <1>6 DEF ToSet
<1>8. Distinct(r)
  <2> SUFFICES ASSUME NEW i \in 1..Len(r), NEW j \in 1..Len(r), r[i] = r[j]
               PROVE  i = j
    BY DEF Distinct
  <2> DEFINE k == IF i < p THEN i ELSE i + 1
             l == IF j < p THEN j ELSE j + 1
  <2>1. k \in 1..Len(q) /\ l \in 1..Len(q) /\ q[k] = q[l]
    BY <1>3
  <2>2. k = l
    BY <2>1 DEF Distinct
  <2> QED
    BY <2>2
<1> QED
  BY <1>7, <1>8 DEF r

(* A turn in front of a queue. *)
LEMMA FrontAdds ==
  ASSUME NEW q \in Seq(Turn), NEW t \in Turn
  PROVE  /\ ToSet(<<t>> \o q) = ToSet(q) \cup {t}
         /\ Distinct(<<t>> \o q) <=> (Distinct(q) /\ t \notin ToSet(q))
<1> DEFINE r == <<t>> \o q
<1>1. /\ r \in Seq(Turn) /\ Len(r) = Len(q) + 1 /\ r[1] = t
      /\ \A i \in 1..Len(q) : r[i + 1] = q[i]
  OBVIOUS
<1> HIDE DEF r
<1>2. \A i \in 1..Len(r) : i # 1 => i - 1 \in 1..Len(q) /\ r[i] = q[i - 1]
  <2> SUFFICES ASSUME NEW i \in 1..Len(r), i # 1
               PROVE  i - 1 \in 1..Len(q) /\ r[i] = q[i - 1]
    OBVIOUS
  <2>1. i - 1 \in 1..Len(q) /\ (i - 1) + 1 = i
    BY <1>1
  <2> QED
    BY <1>1, <2>1
<1>3. DOMAIN r = 1..Len(r) /\ DOMAIN q = 1..Len(q) /\ 1 \in 1..Len(r)
  BY <1>1
<1>4. \A i \in 1..Len(q) : i + 1 \in 1..Len(r)
  BY <1>1
<1>5. ToSet(r) = ToSet(q) \cup {t}
  BY <1>1, <1>2, <1>3, <1>4 DEF ToSet
<1>6. ASSUME Distinct(r) PROVE Distinct(q) /\ t \notin ToSet(q)
  <2>1. Distinct(q)
    <3> SUFFICES ASSUME NEW i \in 1..Len(q), NEW j \in 1..Len(q), q[i] = q[j]
                 PROVE  i = j
      BY DEF Distinct
    <3>1. r[i + 1] = r[j + 1]
      BY <1>1
    <3>2. i + 1 = j + 1
      BY <1>4, <1>6, <3>1 DEF Distinct
    <3> QED
      BY <3>2
  <2>2. ASSUME NEW i \in 1..Len(q), q[i] = t PROVE FALSE
    <3>1. r[i + 1] = r[1] /\ i + 1 # 1
      BY <1>1, <2>2
    <3> QED
      BY <1>3, <1>4, <1>6, <3>1 DEF Distinct
  <2> QED
    BY <1>3, <2>1, <2>2 DEF ToSet
<1>7. ASSUME Distinct(q), t \notin ToSet(q) PROVE Distinct(r)
  <2> SUFFICES ASSUME NEW i \in 1..Len(r), NEW j \in 1..Len(r), r[i] = r[j]
               PROVE  i = j
    BY DEF Distinct
  <2>1. \A k \in 1..Len(q) : q[k] # t
    BY <1>3, <1>7 DEF ToSet
  <2>2. CASE i = 1 \/ j = 1
    BY <1>1, <1>2, <2>1, <2>2
  <2>3. CASE i # 1 /\ j # 1
    <3>1. i - 1 \in 1..Len(q) /\ j - 1 \in 1..Len(q) /\ q[i - 1] = q[j - 1]
      BY <1>2, <2>3
    <3>2. i - 1 = j - 1
      BY <1>7, <3>1 DEF Distinct
    <3> QED
      BY <3>2
  <2> QED
    BY <2>2, <2>3
<1> QED
  BY <1>5, <1>6, <1>7 DEF r

--------------------------------------------------------------------------------
(* From queue q to queue r nobody gets ahead of a turn that waits in q, except a
   newcomer of higher priority. *)
FifoStep(q, r) ==
  \A t \in ToSet(q) : \A u \in Turn :
    Before(r, u, t) => Before(q, u, t) \/ (u \notin ToSet(q) /\ Priority[u] > Priority[t])

(* If the items of r come from q and keep their order, nobody gets ahead. *)
LEMMA FifoEmbedded ==
  ASSUME NEW q \in Seq(Turn), NEW r \in Seq(Turn), NEW f \in [1..Len(r) -> 1..Len(q)],
         \A i \in 1..Len(r) : r[i] = q[f[i]],
         \A i, j \in 1..Len(r) : i < j => f[i] < f[j]
  PROVE  FifoStep(q, r)
<1> SUFFICES ASSUME NEW t \in ToSet(q), NEW u \in Turn, Before(r, u, t)
             PROVE  Before(q, u, t)
  BY DEF FifoStep
<1>1. PICK i \in 1..Len(r), j \in 1..Len(r) : i < j /\ r[i] = u /\ r[j] = t
  BY DEF Before
<1>2. f[i] \in 1..Len(q) /\ f[j] \in 1..Len(q) /\ f[i] < f[j] /\ q[f[i]] = u /\ q[f[j]] = t
  BY <1>1
<1> QED
  BY <1>2 DEF Before

(* A queue that stays or is cleared. *)
LEMMA FifoSame == \A q : FifoStep(q, q) /\ FifoStep(q, <<>>)
BY DEF FifoStep, Before

(* The turn in front leaves. *)
LEMMA FifoTail ==
  ASSUME NEW q \in Seq(Turn), NEW h \in Turn
  PROVE  FifoStep(<<h>> \o q, q)
<1> DEFINE p == <<h>> \o q
           f == [i \in 1..Len(q) |-> i + 1]
<1>1. p \in Seq(Turn) /\ Len(p) = Len(q) + 1 /\ \A i \in 1..Len(q) : q[i] = p[i + 1]
  OBVIOUS
<1> HIDE DEF p
<1>2. f \in [1..Len(q) -> 1..Len(p)] /\ \A i \in 1..Len(q) : f[i] = i + 1
  BY <1>1
<1> HIDE DEF f
<1>3. \A i \in 1..Len(q) : q[i] = p[f[i]]
  BY <1>1, <1>2
<1>4. \A i, j \in 1..Len(q) : i < j => f[i] < f[j]
  BY <1>2
<1>5. FifoStep(p, q)
  BY <1>1, <1>2, <1>3, <1>4, FifoEmbedded
<1> QED
  BY <1>5 DEF p

(* A turn is removed. *)
LEMMA FifoRemove ==
  ASSUME NEW q \in Seq(Turn), NEW t \in Turn
  PROVE  FifoStep(q, RemoveTurn(q, t))
<1> DEFINE r == RemoveTurn(q, t)
<1>1. r \in Seq(Turn)
  BY RemoveTurnKeeps
<1>2. PICK p \in Nat : \A j \in 1..Len(r) : /\ (IF j < p THEN j ELSE j + 1) \in 1..Len(q)
                                           /\ r[j] = q[IF j < p THEN j ELSE j + 1]
  BY RemoveTurnKeeps
<1> HIDE DEF r
<1> DEFINE f == [j \in 1..Len(r) |-> IF j < p THEN j ELSE j + 1]
<1>3. f \in [1..Len(r) -> 1..Len(q)] /\ \A j \in 1..Len(r) : f[j] = IF j < p THEN j ELSE j + 1
  BY <1>2
<1> HIDE DEF f
<1>4. \A j \in 1..Len(r) : r[j] = q[f[j]]
  BY <1>2, <1>3
<1>5. \A i, j \in 1..Len(r) : i < j => f[i] < f[j]
  BY <1>1, <1>2, <1>3
<1>6. FifoStep(q, r)
  BY <1>1, <1>3, <1>4, <1>5, FifoEmbedded
<1> QED
  BY <1>6 DEF r

(* A newcomer is enqueued: he gets ahead of lower priorities only. *)
LEMMA FifoEnqueue ==
  ASSUME NEW q \in Seq(Turn), NEW t \in Turn, t \notin ToSet(q), ByPriority(q)
  PROVE  FifoStep(q, Enqueue(q, t))
<1> DEFINE r == Enqueue(q, t)
<1>1. PICK p \in 1..(Len(q) + 1) :
        /\ InsertedAt(r, q, t, p)
        /\ \A j \in 1..Len(q) : j < p => Priority[q[j]] >= Priority[t]
        /\ p <= Len(q) => Priority[q[p]] < Priority[t]
  BY EnqueueInserts
<1> HIDE DEF r
<1>2. /\ Len(r) = Len(q) + 1 /\ r[p] = t
      /\ \A j \in 1..Len(r) : j # p => r[j] = q[IF j < p THEN j ELSE j - 1]
  BY <1>1 DEF InsertedAt
<1> SUFFICES ASSUME NEW x \in ToSet(q), NEW u \in Turn, Before(r, u, x)
             PROVE  Before(q, u, x) \/ (u \notin ToSet(q) /\ Priority[u] > Priority[x])
  BY DEF FifoStep, r
<1>3. PICK i \in 1..Len(r), j \in 1..Len(r) : i < j /\ r[i] = u /\ r[j] = x
  BY DEF Before
<1>4. j # p
  BY <1>2, <1>3
<1> DEFINE l == IF j < p THEN j ELSE j - 1
<1>5. l \in 1..Len(q) /\ q[l] = x
  BY <1>2, <1>3, <1>4
<1>6. CASE i = p
  <2>1. u = t /\ l >= p /\ p \in 1..Len(q)
    BY <1>2, <1>3, <1>4, <1>5, <1>6
  <2>2. Priority[q[p]] < Priority[t]
    BY <1>1, <2>1
  <2>3. Priority[q[p]] >= Priority[q[l]]
    <3>1. CASE l = p
      BY <2>1, <3>1, QueueAssumption
    <3>2. CASE l > p
      BY <1>5, <2>1, <3>2 DEF ByPriority
    <3> QED
      BY <1>5, <2>1, <3>1, <3>2
  <2>4. Priority[q[p]] \in Nat /\ Priority[q[l]] \in Nat /\ Priority[t] \in Nat
    BY <1>5, <2>1, QueueAssumption
  <2> QED
    BY <1>5, <2>1, <2>2, <2>3, <2>4
<1>7. CASE i # p
  <2> DEFINE k == IF i < p THEN i ELSE i - 1
  <2>1. k \in 1..Len(q) /\ q[k] = u /\ k < l
    BY <1>2, <1>3, <1>4, <1>7
  <2> QED
    BY <1>5, <2>1 DEF Before
<1> QED
  BY <1>6, <1>7

(* enqueue puts a turn behind those of its priority and before lower ones. *)
LEMMA EnqueuePlace ==
  ASSUME NEW q \in Seq(Turn), NEW t \in Turn, ByPriority(q)
  PROVE  \E i \in 1..(Len(q) + 1) :
           /\ Enqueue(q, t) = InsertAt(q, i, t)
           /\ \A j \in 1..Len(q) : j < i <=> Priority[q[j]] >= Priority[t]
<1> DEFINE i == FirstLower(q, t)
<1>1. /\ i \in 0..Len(q)
      /\ i > 0 => Priority[q[i]] < Priority[t]
      /\ \A j \in 1..Len(q) : (i = 0 \/ j < i) => Priority[q[j]] >= Priority[t]
  BY FirstLowerFinds
<1>2. Enqueue(q, t) = IF i > 0 THEN InsertAt(q, i, t) ELSE Append(q, t)
  BY DEF Enqueue
<1> HIDE DEF i
<1>3. \A j \in 1..Len(q) : q[j] \in Turn /\ Priority[q[j]] \in Nat
  BY QueueAssumption
<1>4. CASE i = 0
  <2> DEFINE n == Len(q) + 1
  <2>1. SubSeq(q, 1, n - 1) = q /\ SubSeq(q, n, Len(q)) = <<>>
    OBVIOUS
  <2>2. InsertAt(q, n, t) = q \o <<t>> \o <<>>
    BY <2>1 DEF InsertAt
  <2>3. InsertAt(q, n, t) = Append(q, t)
    BY <2>2
  <2>4. n \in 1..(Len(q) + 1) /\ \A j \in 1..Len(q) : j < n
    OBVIOUS
  <2> QED
    BY <1>1, <1>2, <1>4, <2>3, <2>4
<1>5. CASE i > 0
  <2>1. i \in 1..Len(q)
    BY <1>1, <1>5
  <2>2. ASSUME NEW j \in 1..Len(q), j >= i PROVE Priority[q[j]] < Priority[t]
    <3>1. Priority[q[i]] >= Priority[q[j]]
      BY <2>1, <2>2, <1>3 DEF ByPriority
    <3> QED
      BY <1>1, <1>3, <1>5, <2>1, <3>1, QueueAssumption
  <2>3. ASSUME NEW j \in 1..Len(q) PROVE j < i <=> Priority[q[j]] >= Priority[t]
    BY <1>1, <1>3, <2>1, <2>2, QueueAssumption
  <2> QED
    BY <1>2, <1>5, <2>1, <2>3
<1> QED
  BY <1>1, <1>4, <1>5
================================================================================
