------------------------ MODULE PriorityQueueProofs -------------------------
(***************************************************************************)
(* What enqueueing and dequeueing do to a queue, for queues of any length, *)
(* and to the links that spell it.                                         *)
(***************************************************************************)
EXTENDS LinkedQueue, SequenceTheorems, TLAPS

\* A sequence with an element inserted: the ones behind it move up by one.
LEMMA InsertAtProperties ==
  ASSUME NEW S, NEW s \in Seq(S), NEW i \in 1 .. Len(s) + 1, NEW e \in S
  PROVE  /\ InsertAt(s, i, e) \in Seq(S)
         /\ Len(InsertAt(s, i, e)) = Len(s) + 1
         /\ \A j \in 1 .. Len(s) + 1 :
              InsertAt(s, i, e)[j] =
                IF j < i THEN s[j] ELSE IF j = i THEN e ELSE s[j - 1]
<1> DEFINE front == SubSeq(s, 1, i - 1)
           back  == SubSeq(s, i, Len(s))
<1>1. /\ front \in Seq(S) /\ Len(front) = i - 1
      /\ \A j \in 1 .. i - 1 : front[j] = s[j]
  BY SubSeqProperties
<1>2. /\ back \in Seq(S) /\ Len(back) = Len(s) - i + 1
      /\ \A j \in 1 .. Len(s) - i + 1 : back[j] = s[i + j - 1]
  BY SubSeqProperties
<1>3. /\ front \o <<e>> \in Seq(S) /\ Len(front \o <<e>>) = i
      /\ \A j \in 1 .. i : (front \o <<e>>)[j] = IF j < i THEN s[j] ELSE e
  <2> HIDE DEF front
  <2>1. <<e>> \in Seq(S) /\ Len(<<e>>) = 1 /\ <<e>>[1] = e
    OBVIOUS
  <2> QED
    BY <1>1, <2>1, ConcatProperties
<1>4. InsertAt(s, i, e) = (front \o <<e>>) \o back
  BY DEF InsertAt
<1> HIDE DEF front, back
<1>5. /\ (front \o <<e>>) \o back \in Seq(S)
      /\ Len((front \o <<e>>) \o back) = Len(s) + 1
      /\ \A j \in 1 .. Len(s) + 1 :
           ((front \o <<e>>) \o back)[j] =
             IF j <= i THEN (front \o <<e>>)[j] ELSE back[j - i]
  <2> DEFINE u == front \o <<e>>
  <2>1. u \in Seq(S) /\ Len(u) = i
    BY <1>3
  <2> HIDE DEF u
  <2>2. /\ u \o back \in Seq(S) /\ Len(u \o back) = Len(u) + Len(back)
        /\ \A j \in 1 .. Len(u) + Len(back) :
             (u \o back)[j] = IF j <= Len(u) THEN u[j] ELSE back[j - Len(u)]
    BY <1>2, <2>1, ConcatProperties
  <2>3. Len(u) + Len(back) = Len(s) + 1
    BY <1>2, <2>1, LenProperties
  <2> QED
    BY <2>1, <2>2, <2>3 DEF u
<1> QED
  BY <1>2, <1>3, <1>4, <1>5

\* r is s with e inserted at index i.
IsWith(r, s, i, e) ==
  /\ Len(r) = Len(s) + 1
  /\ \A j \in 1 .. Len(s) + 1 :
       r[j] = IF j < i THEN s[j] ELSE IF j = i THEN e ELSE s[j - 1]

LEMMA InsertAtIsWith ==
  ASSUME NEW S, NEW s \in Seq(S), NEW i \in 1 .. Len(s) + 1, NEW e \in S
  PROVE  InsertAt(s, i, e) \in Seq(S) /\ IsWith(InsertAt(s, i, e), s, i, e)
BY InsertAtProperties DEF IsWith

\* A sequence with an element removed: the ones behind it move down by one.
LEMMA RemoveAtProperties ==
  ASSUME NEW S, NEW s \in Seq(S), NEW i \in 1 .. Len(s)
  PROVE  /\ RemoveAt(s, i) \in Seq(S)
         /\ Len(RemoveAt(s, i)) = Len(s) - 1
         /\ \A j \in 1 .. Len(s) - 1 :
              RemoveAt(s, i)[j] = IF j < i THEN s[j] ELSE s[j + 1]
<1> DEFINE front == SubSeq(s, 1, i - 1)
           back  == SubSeq(s, i + 1, Len(s))
<1>1. /\ front \in Seq(S) /\ Len(front) = i - 1
      /\ \A j \in 1 .. i - 1 : front[j] = s[j]
  BY SubSeqProperties
<1>2. /\ back \in Seq(S) /\ Len(back) = Len(s) - i
      /\ \A j \in 1 .. Len(s) - i : back[j] = s[i + j]
  BY SubSeqProperties
<1>3. RemoveAt(s, i) = front \o back
  BY DEF RemoveAt
<1> HIDE DEF front, back
<1>4. /\ front \o back \in Seq(S)
      /\ Len(front \o back) = Len(front) + Len(back)
      /\ \A j \in 1 .. Len(front) + Len(back) :
           (front \o back)[j] =
             IF j <= Len(front) THEN front[j] ELSE back[j - Len(front)]
  BY <1>1, <1>2, ConcatProperties
<1>5. Len(front) + Len(back) = Len(s) - 1 /\ Len(s) \in Nat
  BY <1>1, <1>2, LenProperties
<1> QED
  BY <1>1, <1>2, <1>3, <1>4, <1>5

-----------------------------------------------------------------------------

\* The index of a queued entry.
LEMMA IndexOfProperties ==
  ASSUME NEW S, NEW q \in Seq(S), NEW e, Queued(q, e)
  PROVE  IndexOf(q, e) \in 1 .. Len(q) /\ q[IndexOf(q, e)] = e
BY DEF Queued, IndexOf

\* Inserting an entry that is not queued adds it and keeps entries distinct.
LEMMA InsertKeepsDistinct ==
  ASSUME NEW S, NEW q \in Seq(S), NEW i \in 1 .. Len(q) + 1, NEW e \in S
  PROVE  Injective(q) /\ ~Queued(q, e) =>
           /\ Injective(InsertAt(q, i, e))
           /\ \A d : Queued(InsertAt(q, i, e), d) <=> d = e \/ Queued(q, d)
<1> DEFINE r == InsertAt(q, i, e)
<1>1. /\ r \in Seq(S) /\ Len(r) = Len(q) + 1
      /\ \A j \in 1 .. Len(q) + 1 :
           r[j] = IF j < i THEN q[j] ELSE IF j = i THEN e ELSE q[j - 1]
  BY InsertAtProperties
<1>2. Len(q) \in Nat
  BY LenProperties
<1> HIDE DEF r
<1> SUFFICES ASSUME Injective(q), ~Queued(q, e)
             PROVE  Injective(r) /\ \A d : Queued(r, d) <=> d = e \/ Queued(q, d)
  BY DEF r
<1>3. Injective(r)
  <2> SUFFICES ASSUME NEW j \in 1 .. Len(r), NEW k \in 1 .. Len(r), r[j] = r[k]
               PROVE  j = k
    BY DEF Injective
  <2> DEFINE origin(n) == IF n < i THEN n ELSE n - 1
  <2>1. ASSUME NEW n \in 1 .. Len(r), n # i
        PROVE  origin(n) \in 1 .. Len(q) /\ r[n] = q[origin(n)]
    BY <1>1, <1>2, <2>1
  <2>2. r[i] = e
    BY <1>1, <1>2
  <2>3. ASSUME NEW n \in 1 .. Len(r), n # i PROVE r[n] # e
    BY <2>1, <2>3 DEF Queued
  <2>4. CASE j # i /\ k # i
    <3>1. origin(j) = origin(k)
      BY <2>1, <2>4 DEF Injective
    <3> QED
      BY <2>4, <3>1, <1>1, <1>2
  <2> QED
    BY <2>2, <2>3, <2>4
<1>4. ASSUME NEW d, Queued(r, d) PROVE d = e \/ Queued(q, d)
  <2>1. PICK j \in 1 .. Len(q) + 1 : r[j] = d
    BY <1>1, <1>4 DEF Queued
  <2>2. CASE j < i
    BY <1>1, <1>2, <2>1, <2>2 DEF Queued
  <2>3. CASE j = i
    <3>1. r[i] = e
      BY <1>1, <1>2
    <3> QED
      BY <2>1, <2>3, <3>1
  <2>4. CASE j > i
    <3>1. j - 1 \in 1 .. Len(q) /\ q[j - 1] = d
      BY <1>1, <1>2, <2>1, <2>4
    <3> QED
      BY <3>1 DEF Queued
  <2> QED
    BY <1>2, <2>2, <2>3, <2>4
<1>5. Queued(r, e)
  BY <1>1, <1>2 DEF Queued
<1>6. ASSUME NEW d, Queued(q, d) PROVE Queued(r, d)
  <2>1. PICK j \in 1 .. Len(q) : q[j] = d
    BY <1>6 DEF Queued
  <2>2. CASE j < i
    BY <1>1, <1>2, <2>1, <2>2 DEF Queued
  <2>3. CASE j >= i
    <3>1. j + 1 \in 1 .. Len(r) /\ r[j + 1] = d
      BY <1>1, <1>2, <2>1, <2>3
    <3> QED
      BY <3>1 DEF Queued
  <2> QED
    BY <1>2, <2>2, <2>3
<1> QED
  BY <1>3, <1>4, <1>5, <1>6 DEF r

\* Dequeueing removes the entry alone and keeps the others distinct.
LEMMA DequeueKeepsDistinct ==
  ASSUME NEW S, NEW q \in Seq(S), NEW e, Injective(q), Queued(q, e)
  PROVE  /\ Dequeue(q, e) \in Seq(S)
         /\ Len(Dequeue(q, e)) = Len(q) - 1
         /\ \A j \in 1 .. Len(q) - 1 :
              Dequeue(q, e)[j] = IF j < IndexOf(q, e) THEN q[j] ELSE q[j + 1]
         /\ Injective(Dequeue(q, e))
         /\ \A d : Queued(Dequeue(q, e), d) <=> d # e /\ Queued(q, d)
<1> DEFINE r == Dequeue(q, e)
           i == IndexOf(q, e)
<1>1. i \in 1 .. Len(q) /\ q[i] = e
  BY IndexOfProperties
<1>2. /\ r \in Seq(S) /\ Len(r) = Len(q) - 1
      /\ \A j \in 1 .. Len(q) - 1 : r[j] = IF j < i THEN q[j] ELSE q[j + 1]
  BY <1>1, RemoveAtProperties DEF Dequeue
<1>3. Len(q) \in Nat
  BY LenProperties
<1> HIDE DEF r, i
<1>4. Injective(r)
  <2> SUFFICES ASSUME NEW j \in 1 .. Len(r), NEW k \in 1 .. Len(r), r[j] = r[k]
               PROVE  j = k
    BY DEF Injective
  <2> DEFINE origin(n) == IF n < i THEN n ELSE n + 1
  <2>1. ASSUME NEW n \in 1 .. Len(r)
        PROVE  origin(n) \in 1 .. Len(q) /\ r[n] = q[origin(n)]
    <3>1. n \in 1 .. Len(q) - 1 /\ n \in Int /\ i \in Int
      BY <1>1, <1>2, <1>3
    <3>2. CASE n < i
      <4>1. origin(n) = n
        BY <3>2
      <4>2. r[n] = q[n]
        BY <1>2, <3>1, <3>2
      <4> QED
        BY <1>3, <3>1, <4>1, <4>2
    <3>3. CASE ~(n < i)
      <4>1. origin(n) = n + 1
        BY <3>3
      <4>2. r[n] = q[n + 1]
        BY <1>2, <3>1, <3>3
      <4>3. n + 1 \in 1 .. Len(q)
        BY <1>3, <3>1
      <4> QED
        BY <4>1, <4>2, <4>3
    <3> QED
      BY <3>2, <3>3
  <2>2. origin(j) = origin(k)
    BY <2>1 DEF Injective
  <2> QED
    BY <1>1, <1>2, <1>3, <2>2
<1>5. ASSUME NEW d, Queued(r, d) PROVE d # e /\ Queued(q, d)
  <2>1. PICK j \in 1 .. Len(q) - 1 : r[j] = d
    BY <1>2, <1>5 DEF Queued
  <2>2. PICK k \in 1 .. Len(q) : q[k] = d /\ k # i
    <3>1. CASE j < i
      BY <1>2, <1>3, <2>1, <3>1
    <3>2. CASE j >= i
      <4>1. j + 1 \in 1 .. Len(q) /\ q[j + 1] = d /\ j + 1 # i
        BY <1>1, <1>2, <1>3, <2>1, <3>2
      <4> QED
        BY <4>1
    <3> QED
      BY <1>1, <1>3, <3>1, <3>2
  <2> QED
    BY <1>1, <2>2 DEF Injective, Queued
<1>6. ASSUME NEW d, d # e, Queued(q, d) PROVE Queued(r, d)
  <2>1. PICK j \in 1 .. Len(q) : q[j] = d
    BY <1>6 DEF Queued
  <2>2. CASE j < i
    BY <1>1, <1>2, <1>3, <2>1, <2>2 DEF Queued
  <2>3. CASE j > i
    <3>1. j - 1 \in 1 .. Len(r) /\ r[j - 1] = d
      BY <1>1, <1>2, <1>3, <2>1, <2>3
    <3> QED
      BY <3>1 DEF Queued
  <2> QED
    BY <1>1, <1>3, <1>6, <2>1, <2>2, <2>3
<1> QED
  BY <1>2, <1>4, <1>5, <1>6 DEF r, i

-----------------------------------------------------------------------------
\* The order of a queue, as a relation between its entries.

\* A queue orders its entries totally.
LEMMA BeforeIsOrder ==
  ASSUME NEW S, NEW q \in Seq(S), Injective(q)
  PROVE  /\ \A a, b : Before(q, a, b) => Queued(q, a) /\ Queued(q, b) /\ a # b
         /\ \A a, b : Before(q, a, b) => ~Before(q, b, a)
         /\ \A a, b, c : Before(q, a, b) /\ Before(q, b, c) => Before(q, a, c)
         /\ \A a, b : Queued(q, a) /\ Queued(q, b) /\ a # b
                        => Before(q, a, b) \/ Before(q, b, a)
<1>1. Len(q) \in Nat
  BY LenProperties
<1>2. ASSUME NEW a, NEW b, Before(q, a, b)
      PROVE  Queued(q, a) /\ Queued(q, b) /\ a # b
  BY <1>1, <1>2 DEF Before, Queued, Injective
<1>3. ASSUME NEW a, NEW b, Before(q, a, b), Before(q, b, a) PROVE FALSE
  BY <1>1, <1>3 DEF Before, Injective
<1>4. ASSUME NEW a, NEW b, NEW c, Before(q, a, b), Before(q, b, c)
      PROVE  Before(q, a, c)
  <2>1. PICK i \in 1 .. Len(q), j \in 1 .. Len(q) : i < j /\ q[i] = a /\ q[j] = b
    BY <1>4 DEF Before
  <2>2. PICK k \in 1 .. Len(q), m \in 1 .. Len(q) : k < m /\ q[k] = b /\ q[m] = c
    BY <1>4 DEF Before
  <2>3. j = k
    BY <2>1, <2>2 DEF Injective
  <2> QED
    BY <1>1, <2>1, <2>2, <2>3 DEF Before
<1>5. ASSUME NEW a, NEW b, Queued(q, a), Queued(q, b), a # b
      PROVE  Before(q, a, b) \/ Before(q, b, a)
  <2>1. PICK i \in 1 .. Len(q) : q[i] = a
    BY <1>5 DEF Queued
  <2>2. PICK j \in 1 .. Len(q) : q[j] = b
    BY <1>5 DEF Queued
  <2>3. i < j \/ j < i
    BY <1>1, <1>5, <2>1, <2>2
  <2> QED
    BY <2>1, <2>2, <2>3 DEF Before
<1> QED
  BY <1>2, <1>3, <1>4, <1>5

\* Inserting an entry leaves the others in their order, and puts it behind
\* those before its index.
LEMMA InsertOrder ==
  ASSUME NEW S, NEW q \in Seq(S), NEW i \in 1 .. Len(q) + 1, NEW e \in S,
         Injective(q), ~Queued(q, e)
  PROVE  /\ \A a, b : a # e /\ b # e =>
              (Before(InsertAt(q, i, e), a, b) <=> Before(q, a, b))
         /\ \A a : Before(InsertAt(q, i, e), a, e) =>
              \E j \in 1 .. i - 1 : j <= Len(q) /\ q[j] = a
         /\ \A b : Before(InsertAt(q, i, e), e, b) =>
              \E j \in i .. Len(q) : q[j] = b
<1> DEFINE r == InsertAt(q, i, e)
<1> HIDE DEF r
<1>1. /\ r \in Seq(S) /\ Len(r) = Len(q) + 1
      /\ \A j \in 1 .. Len(q) + 1 :
           r[j] = IF j < i THEN q[j] ELSE IF j = i THEN e ELSE q[j - 1]
  <2>1. /\ InsertAt(q, i, e) \in Seq(S) /\ Len(InsertAt(q, i, e)) = Len(q) + 1
        /\ \A j \in 1 .. Len(q) + 1 :
             InsertAt(q, i, e)[j] =
               IF j < i THEN q[j] ELSE IF j = i THEN e ELSE q[j - 1]
    BY InsertAtProperties
  <2> QED
    BY <2>1 DEF r
<1>2. Len(q) \in Nat
  BY LenProperties
<1> DEFINE origin(n) == IF n < i THEN n ELSE n - 1
           place(n)  == IF n < i THEN n ELSE n + 1
<1>3. ASSUME NEW j \in 1 .. Len(r), j # i
      PROVE  origin(j) \in 1 .. Len(q) /\ r[j] = q[origin(j)] /\ r[j] # e
  <2>1. origin(j) \in 1 .. Len(q) /\ r[j] = q[origin(j)]
    BY <1>1, <1>2, <1>3
  <2> QED
    BY <2>1 DEF Queued
<1>4. ASSUME NEW j \in 1 .. Len(q)
      PROVE  place(j) \in 1 .. Len(r) /\ r[place(j)] = q[j] /\ q[j] # e
  <2>1. place(j) \in 1 .. Len(r) /\ r[place(j)] = q[j]
    BY <1>1, <1>2
  <2> QED
    BY <2>1 DEF Queued
<1>5. r[i] = e /\ i \in 1 .. Len(r)
  BY <1>1, <1>2
<1>6. ASSUME NEW a, NEW b, a # e, b # e, Before(r, a, b) PROVE Before(q, a, b)
  <2>1. PICK j \in 1 .. Len(r), k \in 1 .. Len(r) : j < k /\ r[j] = a /\ r[k] = b
    BY <1>6 DEF Before
  <2>2. j # i /\ k # i
    BY <1>5, <1>6, <2>1
  <2>3. origin(j) < origin(k)
    BY <1>2, <2>1, <2>2
  <2>4. /\ origin(j) \in 1 .. Len(q) /\ q[origin(j)] = a
        /\ origin(k) \in 1 .. Len(q) /\ q[origin(k)] = b
    BY <1>3, <2>1, <2>2
  <2> HIDE DEF origin
  <2> QED
    BY <2>3, <2>4 DEF Before
<1>7. ASSUME NEW a, NEW b, Before(q, a, b) PROVE Before(r, a, b)
  <2>1. PICK j \in 1 .. Len(q), k \in 1 .. Len(q) : j < k /\ q[j] = a /\ q[k] = b
    BY <1>7 DEF Before
  <2>2. place(j) < place(k)
    BY <1>2, <2>1
  <2>3. /\ place(j) \in 1 .. Len(r) /\ r[place(j)] = a
        /\ place(k) \in 1 .. Len(r) /\ r[place(k)] = b
    BY <1>4, <2>1
  <2> HIDE DEF place
  <2> QED
    BY <2>2, <2>3 DEF Before
<1>8. ASSUME NEW a, Before(r, a, e)
      PROVE  \E j \in 1 .. i - 1 : j <= Len(q) /\ q[j] = a
  <2>1. PICK j \in 1 .. Len(r), k \in 1 .. Len(r) : j < k /\ r[j] = a /\ r[k] = e
    BY <1>8 DEF Before
  <2>2. k = i
    BY <1>3, <2>1
  <2>3. j \in 1 .. i - 1 /\ j <= Len(q) /\ q[j] = a
    BY <1>1, <1>2, <2>1, <2>2
  <2> QED
    BY <2>3
<1>9. ASSUME NEW b, Before(r, e, b) PROVE \E j \in i .. Len(q) : q[j] = b
  <2>1. PICK j \in 1 .. Len(r), k \in 1 .. Len(r) : j < k /\ r[j] = e /\ r[k] = b
    BY <1>9 DEF Before
  <2>2. j = i
    BY <1>3, <2>1
  <2>3. k - 1 \in i .. Len(q) /\ q[k - 1] = b
    BY <1>1, <1>2, <2>1, <2>2
  <2> QED
    BY <2>3
<1> QED
  BY <1>6, <1>7, <1>8, <1>9 DEF r

\* What a lock relies on when it enqueues: the newcomer is behind no entry that
\* it is Greater than and before none that it is Less than.
LEMMA EnqueueOrder ==
  ASSUME NEW S, NEW q \in Seq(S), Injective(q), NEW e \in S, ~Queued(q, e),
         NEW verdict, NEW i \in EnqueuePositions(q, verdict),
         NEW r, r = InsertAt(q, i, e)
  PROVE  /\ r \in Seq(S) /\ Injective(r)
         /\ \A d : Queued(r, d) <=> d = e \/ Queued(q, d)
         /\ \A a, b : a # e /\ b # e => (Before(r, a, b) <=> Before(q, a, b))
         /\ \A a : Before(r, a, e) => a # e /\ verdict[a] # "Greater"
         /\ \A b : Before(r, e, b) => b # e /\ verdict[b] # "Less"
<1>1. /\ i \in 1 .. Len(q) + 1
      /\ \A j \in 1 .. i - 1 : verdict[q[j]] # "Greater"
      /\ \A j \in i .. Len(q) : verdict[q[j]] # "Less"
  BY DEF EnqueuePositions
<1>2. /\ Injective(r)
      /\ \A d : Queued(r, d) <=> d = e \/ Queued(q, d)
  BY <1>1, InsertKeepsDistinct
<1>3. r \in Seq(S)
  BY <1>1, InsertAtProperties
<1>4. \A a, b : Before(r, a, b) => a # b
  BY <1>2, <1>3, BeforeIsOrder
<1> QED
  BY <1>1, <1>2, <1>3, <1>4, InsertOrder

\* Dequeueing an entry leaves the others in their order.
LEMMA DequeueOrder ==
  ASSUME NEW S, NEW q \in Seq(S), Injective(q), NEW e, Queued(q, e)
  PROVE  \A a, b : Before(Dequeue(q, e), a, b)
                     <=> a # e /\ b # e /\ Before(q, a, b)
<1> DEFINE r == Dequeue(q, e)
           m == IndexOf(q, e)
           origin(n) == IF n < m THEN n ELSE n + 1
           place(n)  == IF n < m THEN n ELSE n - 1
<1>1. /\ r \in Seq(S) /\ Len(r) = Len(q) - 1
      /\ \A j \in 1 .. Len(q) - 1 : r[j] = IF j < m THEN q[j] ELSE q[j + 1]
      /\ Injective(r)
      /\ \A d : Queued(r, d) <=> d # e /\ Queued(q, d)
  BY DequeueKeepsDistinct
<1>2. m \in 1 .. Len(q) /\ q[m] = e /\ Len(q) \in Nat
  BY IndexOfProperties, LenProperties
<1> HIDE DEF r, m
<1>3. ASSUME NEW a, NEW b, Before(r, a, b)
      PROVE  a # e /\ b # e /\ Before(q, a, b)
  <2>1. PICK j \in 1 .. Len(r), k \in 1 .. Len(r) : j < k /\ r[j] = a /\ r[k] = b
    BY <1>3 DEF Before
  <2>2. /\ origin(j) \in 1 .. Len(q) /\ q[origin(j)] = a
        /\ origin(k) \in 1 .. Len(q) /\ q[origin(k)] = b
        /\ origin(j) < origin(k)
    BY <1>1, <1>2, <2>1
  <2>3. Queued(r, a) /\ Queued(r, b)
    BY <2>1 DEF Queued
  <2> HIDE DEF origin
  <2> QED
    BY <1>1, <2>2, <2>3 DEF Before
<1>4. ASSUME NEW a, NEW b, a # e, b # e, Before(q, a, b) PROVE Before(r, a, b)
  <2>1. PICK j \in 1 .. Len(q), k \in 1 .. Len(q) : j < k /\ q[j] = a /\ q[k] = b
    BY <1>4 DEF Before
  <2>2. j # m /\ k # m
    BY <1>2, <1>4, <2>1
  <2>3. /\ place(j) \in 1 .. Len(r) /\ r[place(j)] = a
        /\ place(k) \in 1 .. Len(r) /\ r[place(k)] = b
        /\ place(j) < place(k)
    BY <1>1, <1>2, <2>1, <2>2
  <2> HIDE DEF place
  <2> QED
    BY <2>3 DEF Before
<1> QED
  BY <1>3, <1>4 DEF r

\* An entry that is dequeued and inserted where it was makes the same queue.
LEMMA InsertWhereItWas ==
  ASSUME NEW S, NEW q \in Seq(S), Injective(q), NEW e \in S, Queued(q, e)
  PROVE  q = InsertAt(Dequeue(q, e), IndexOf(q, e), e)
<1> DEFINE d == Dequeue(q, e)
           m == IndexOf(q, e)
           r == InsertAt(d, m, e)
<1>1. /\ d \in Seq(S) /\ Len(d) = Len(q) - 1
      /\ \A j \in 1 .. Len(q) - 1 : d[j] = IF j < m THEN q[j] ELSE q[j + 1]
  BY DequeueKeepsDistinct
<1>2. m \in 1 .. Len(q) /\ q[m] = e /\ Len(q) \in Nat
  BY IndexOfProperties, LenProperties
<1> HIDE DEF d, m
<1>3. /\ r \in Seq(S) /\ Len(r) = Len(d) + 1
      /\ \A j \in 1 .. Len(d) + 1 :
           r[j] = IF j < m THEN d[j] ELSE IF j = m THEN e ELSE d[j - 1]
  <2>1. m \in 1 .. Len(d) + 1
    BY <1>1, <1>2
  <2> QED
    BY <1>1, <2>1, InsertAtProperties
<1> HIDE DEF r
<1>4. Len(r) = Len(q)
  BY <1>1, <1>2, <1>3
<1>5. ASSUME NEW j \in 1 .. Len(q) PROVE r[j] = q[j]
  <2>1. CASE j < m
    <3>1. j \in 1 .. Len(q) - 1 /\ j \in 1 .. Len(d) + 1
      BY <1>1, <1>2, <2>1
    <3>2. r[j] = d[j]
      BY <1>3, <2>1, <3>1
    <3>3. d[j] = q[j]
      BY <1>1, <2>1, <3>1
    <3> QED
      BY <3>2, <3>3
  <2>2. CASE j = m
    <3>1. r[m] = e
      BY <1>1, <1>2, <1>3
    <3> QED
      BY <1>2, <2>2, <3>1
  <2>3. CASE j > m
    <3>1. r[j] = d[j - 1] /\ d[j - 1] = q[(j - 1) + 1]
      BY <1>1, <1>2, <1>3, <2>3
    <3> QED
      BY <3>1
  <2> QED
    BY <1>2, <2>1, <2>2, <2>3
<1>6. q = r
  BY <1>3, <1>4, <1>5, SeqEqual
<1> QED
  BY <1>6 DEF r, d, m

\* Who is before an entry, by the entry's index.
LEMMA BeforeIndex ==
  ASSUME NEW S, NEW q \in Seq(S), Injective(q), NEW j \in 1 .. Len(q)
  PROVE  /\ \A d : Before(q, d, q[j]) <=> \E i \in 1 .. j - 1 : q[i] = d
         /\ j < Len(q) => \A d : Before(q, d, q[j + 1])
                                   <=> d = q[j] \/ Before(q, d, q[j])
         /\ j = Len(q) => \A d : Queued(q, d) <=> d = q[j] \/ Before(q, d, q[j])
<1>1. Len(q) \in Nat
  BY LenProperties
<1>2. ASSUME NEW k \in 1 .. Len(q)
      PROVE  \A d : Before(q, d, q[k]) <=> \E i \in 1 .. k - 1 : q[i] = d
  <2>1. ASSUME NEW d, Before(q, d, q[k]) PROVE \E i \in 1 .. k - 1 : q[i] = d
    <3>1. PICK i \in 1 .. Len(q), m \in 1 .. Len(q) :
            i < m /\ q[i] = d /\ q[m] = q[k]
      BY <2>1 DEF Before
    <3>2. m = k
      BY <3>1 DEF Injective
    <3> QED
      BY <1>1, <3>1, <3>2
  <2>2. ASSUME NEW d, NEW i \in 1 .. k - 1, q[i] = d PROVE Before(q, d, q[k])
    BY <1>1, <2>2 DEF Before
  <2> QED
    BY <2>1, <2>2
<1>3. ASSUME j < Len(q)
      PROVE  \A d : Before(q, d, q[j + 1]) <=> d = q[j] \/ Before(q, d, q[j])
  <2>1. \A d : (\E i \in 1 .. (j + 1) - 1 : q[i] = d)
                 <=> d = q[j] \/ \E i \in 1 .. j - 1 : q[i] = d
    BY <1>1
  <2>2. j + 1 \in 1 .. Len(q)
    BY <1>1, <1>3
  <2> QED
    BY <1>2, <2>1, <2>2
<1>4. ASSUME j = Len(q)
      PROVE  \A d : Queued(q, d) <=> d = q[j] \/ Before(q, d, q[j])
  <2>1. \A d : (\E i \in 1 .. Len(q) : q[i] = d)
                 <=> d = q[j] \/ \E i \in 1 .. j - 1 : q[i] = d
    BY <1>1, <1>4
  <2> QED
    BY <1>2, <2>1 DEF Queued
<1> QED
  BY <1>2, <1>3, <1>4

-----------------------------------------------------------------------------
\* The comparisons.

\* compare is a total preorder; priorities that tie differ in nothing.
LEMMA CompareIsPreorder ==
  /\ \A a, b \in Priorities :
       /\ {Compare(a, b), CompareNew(a, b)} \subseteq {"Less", "Equal", "Greater"}
       /\ Compare(a, b) = "Greater" <=> Compare(b, a) = "Less"
       /\ Compare(a, b) = "Equal" <=> Compare(b, a) = "Equal"
       /\ Compare(a, b) # "Equal" => CompareNew(a, b) = Compare(a, b)
  /\ \A a, b, c \in Priorities :
       /\ Compare(a, b) # "Less" /\ Compare(b, c) # "Less" => Compare(a, c) # "Less"
       /\ Compare(a, b) # "Greater" /\ Compare(b, c) # "Greater"
            => Compare(a, c) # "Greater"
       /\ Compare(a, b) = "Greater" /\ Compare(b, c) # "Less"
            => Compare(a, c) = "Greater"
<1>1. \A a, b \in Priorities :
        /\ {Compare(a, b), CompareNew(a, b)} \subseteq {"Less", "Equal", "Greater"}
        /\ Compare(a, b) = "Greater" <=> Compare(b, a) = "Less"
        /\ Compare(a, b) # "Equal" => CompareNew(a, b) = Compare(a, b)
  BY PriorityContract DEF Contract
<1>2. \A a, b, c \in Priorities :
        Compare(a, b) # "Less" /\ Compare(b, c) # "Less" => Compare(a, c) # "Less"
  BY PriorityContract DEF Contract
<1>3. \A a, b \in Priorities : Compare(a, b) = "Equal" <=> Compare(b, a) = "Equal"
  BY <1>1
<1>4. ASSUME NEW a \in Priorities, NEW b \in Priorities, NEW c \in Priorities,
             Compare(a, b) # "Greater", Compare(b, c) # "Greater"
      PROVE  Compare(a, c) # "Greater"
  <2>1. Compare(b, a) # "Less" /\ Compare(c, b) # "Less"
    BY <1>1, <1>4
  <2> QED
    BY <1>1, <1>2, <2>1
<1>5. ASSUME NEW a \in Priorities, NEW b \in Priorities, NEW c \in Priorities,
             Compare(a, b) = "Greater", Compare(b, c) # "Less"
      PROVE  Compare(a, c) = "Greater"
  <2>1. SUFFICES ASSUME Compare(a, c) # "Greater" PROVE FALSE
    OBVIOUS
  <2>2. Compare(c, a) # "Less" /\ Compare(b, a) = "Less"
    BY <1>1, <1>5, <2>1
  <2> QED
    BY <1>2, <1>5, <2>2
<1> QED
  BY <1>1, <1>2, <1>3, <1>4, <1>5

\* CompareNew is symmetric where it ties, if it treats what ties alike.
LEMMA TiesAreMutual ==
  ASSUME TiesAlike, NEW a \in Priorities, NEW b \in Priorities,
         CompareNew(a, b) = "Equal"
  PROVE  Compare(a, b) = "Equal" /\ CompareNew(b, a) = "Equal"
<1>1. Compare(a, b) = "Equal"
  BY CompareIsPreorder
<1>2. CompareNew(a, b) = CompareNew(b, b) /\ CompareNew(b, a) = CompareNew(b, b)
  BY <1>1 DEF TiesAlike
<1> QED
  BY <1>1, <1>2

\* What a newcomer finds of two entries, the first of which is not outranked by
\* the second: once it is Greater than one it is Greater than those behind, and
\* those it is Equal to are followed by what they are Equal to themselves.
LEMMA NewcomersAgree ==
  ASSUME TiesAlike, NEW p \in Priorities, NEW a \in Priorities, NEW b \in Priorities,
         Compare(b, a) # "Greater"
  PROVE  /\ CompareNew(p, a) = "Greater" => CompareNew(p, b) = "Greater"
         /\ CompareNew(p, a) = "Equal" =>
              \/ CompareNew(p, b) = "Greater"
              \/ CompareNew(p, b) = "Equal" /\ CompareNew(a, b) = "Equal"
<1>1. Compare(a, b) # "Less"
  BY CompareIsPreorder
<1>2. SUFFICES ASSUME CompareNew(p, a) # "Less"
               PROVE  \/ CompareNew(p, b) = "Greater"
                      \/ /\ CompareNew(p, b) = CompareNew(p, a)
                         /\ CompareNew(p, b) = CompareNew(a, b)
  BY CompareIsPreorder
<1>3. Compare(p, a) # "Less" /\ Compare(p, b) # "Less"
  BY <1>1, <1>2, CompareIsPreorder
<1>4. CASE Compare(p, b) = "Greater"
  BY <1>4, CompareIsPreorder
<1>5. CASE Compare(p, b) # "Greater"
  <2>1. Compare(p, a) = "Equal" /\ Compare(b, p) # "Less"
    BY <1>1, <1>3, <1>5, CompareIsPreorder
  <2>2. Compare(a, b) = "Equal"
    BY <1>1, <1>3, <1>5, <2>1, CompareIsPreorder
  <2> QED
    BY <2>1, <2>2 DEF TiesAlike
<1> QED
  BY <1>4, <1>5

-----------------------------------------------------------------------------
\* Links.

\* The index of an element of a queue is the one it is at.
LEMMA IndexIsUnique ==
  ASSUME NEW S, NEW q \in Seq(S), Injective(q), NEW i \in 1 .. Len(q)
  PROVE  Queued(q, q[i]) /\ IndexOf(q, q[i]) = i
<1>1. Queued(q, q[i])
  BY DEF Queued
<1>2. IndexOf(q, q[i]) \in 1 .. Len(q) /\ q[IndexOf(q, q[i])] = q[i]
  BY <1>1, IndexOfProperties
<1> QED
  BY <1>1, <1>2 DEF Injective

\* The node at index k of the queue q is taken out: the link that led to it leads
\* to what followed it.
LinkedOut(q, k, head, next, head2, next2) ==
  /\ head2 = IF k = 1 THEN next[q[k]] ELSE head
  /\ \A i \in 1 .. Len(q) :
       i # k => next2[q[i]] = IF i = k - 1 THEN next[q[k]] ELSE next[q[i]]

LinkedOutBack(q, k, prev, prev2) ==
  \A i \in 1 .. Len(q) :
    i # k => prev2[q[i]] = IF i = k + 1 THEN prev[q[k]] ELSE prev[q[i]]

\* The node n is put in at index k: the link that led to what follows it leads
\* to it.
LinkedIn(q, k, n, head, next, head2, next2) ==
  /\ head2 = IF k = 1 THEN n ELSE head
  /\ next2[n] = IF k = 1 THEN head ELSE next[q[k - 1]]
  /\ \A i \in 1 .. Len(q) : next2[q[i]] = IF i = k - 1 THEN n ELSE next[q[i]]

LinkedInBack(q, k, n, prev, nil, prev2) ==
  /\ prev2[n] = IF k = 1 THEN nil ELSE q[k - 1]
  /\ \A i \in 1 .. Len(q) : prev2[q[i]] = IF i = k THEN n ELSE prev[q[i]]

\* The links spell the queue without the node that is taken out.
LEMMA SpellsWithout ==
  ASSUME NEW S, NEW q \in Seq(S), Injective(q), NEW k \in 1 .. Len(q),
         NEW head, NEW next, NEW nil, Spells(q, head, next, nil),
         NEW head2, NEW next2, LinkedOut(q, k, head, next, head2, next2)
  PROVE  Spells(RemoveAt(q, k), head2, next2, nil)
<1> USE DEF LinkedOut
<1> DEFINE r == RemoveAt(q, k)
<1>1. /\ r \in Seq(S) /\ Len(r) = Len(q) - 1
      /\ \A j \in 1 .. Len(q) - 1 : r[j] = IF j < k THEN q[j] ELSE q[j + 1]
  BY RemoveAtProperties
<1>2. Len(q) \in Nat
  OBVIOUS
<1>3. /\ head = q[1]
      /\ \A i \in 1 .. Len(q) :
           next[q[i]] = IF i = Len(q) THEN nil ELSE q[i + 1]
  BY <1>2 DEF Spells
<1>4. \A i \in 1 .. Len(r) : next2[r[i]] = IF i = Len(r) THEN nil ELSE r[i + 1]
  <2> SUFFICES ASSUME NEW i \in 1 .. Len(r)
               PROVE  next2[r[i]] = IF i = Len(r) THEN nil ELSE r[i + 1]
    OBVIOUS
  <2>1. CASE i < k - 1
    BY <1>1, <1>2, <1>3, <2>1
  <2>2. CASE i = k - 1
    BY <1>1, <1>2, <1>3, <2>2
  <2>3. CASE i > k - 1
    BY <1>1, <1>2, <1>3, <2>3
  <2> QED
    BY <1>1, <1>2, <2>1, <2>2, <2>3
<1>5. head2 = IF r = << >> THEN nil ELSE Head(r)
  <2>1. r = << >> <=> Len(q) = 1
    BY <1>1, <1>2
  <2>2. r # << >> => Head(r) = r[1]
    BY <1>1
  <2>3. CASE k = 1
    BY <1>1, <1>2, <1>3, <2>1, <2>2, <2>3
  <2>4. CASE k # 1
    BY <1>1, <1>2, <1>3, <2>1, <2>2, <2>4
  <2> QED
    BY <2>3, <2>4
<1> QED
  BY <1>4, <1>5 DEF Spells

\* The same backwards.
LEMMA SpellsBackWithout ==
  ASSUME NEW S, NEW q \in Seq(S), Injective(q), NEW k \in 1 .. Len(q),
         NEW prev, NEW nil, SpellsBack(q, prev, nil),
         NEW prev2, LinkedOutBack(q, k, prev, prev2)
  PROVE  SpellsBack(RemoveAt(q, k), prev2, nil)
<1> USE DEF LinkedOutBack
<1> DEFINE r == RemoveAt(q, k)
<1>1. /\ r \in Seq(S) /\ Len(r) = Len(q) - 1
      /\ \A j \in 1 .. Len(q) - 1 : r[j] = IF j < k THEN q[j] ELSE q[j + 1]
  BY RemoveAtProperties
<1>2. Len(q) \in Nat
  OBVIOUS
<1>3. \A i \in 1 .. Len(q) : prev[q[i]] = IF i = 1 THEN nil ELSE q[i - 1]
  BY DEF SpellsBack
<1>4. ASSUME NEW i \in 1 .. Len(r)
      PROVE  prev2[r[i]] = IF i = 1 THEN nil ELSE r[i - 1]
  <2>1. CASE i < k
    <3>1. i \in 1 .. Len(q) /\ r[i] = q[i] /\ i # k /\ i # k + 1
      BY <1>1, <1>2, <2>1
    <3>2. i # 1 => r[i - 1] = q[i - 1]
      BY <1>1, <1>2, <2>1
    <3> QED
      BY <1>3, <3>1, <3>2
  <2>2. CASE i = k
    BY <1>1, <1>2, <1>3, <2>2
  <2>3. CASE i > k
    BY <1>1, <1>2, <1>3, <2>3
  <2> QED
    BY <1>1, <1>2, <2>1, <2>2, <2>3
<1> QED
  BY <1>4 DEF SpellsBack

\* The links spell the queue with the node that is put in.
LEMMA SpellsWith ==
  ASSUME NEW S, NEW q \in Seq(S), NEW k \in 1 .. Len(q) + 1, NEW n \in S,
         NEW head, NEW next, NEW nil, Spells(q, head, next, nil),
         NEW head2, NEW next2, LinkedIn(q, k, n, head, next, head2, next2)
  PROVE  Spells(InsertAt(q, k, n), head2, next2, nil)
<1> USE DEF LinkedIn
<1> DEFINE r == InsertAt(q, k, n)
<1>1. /\ r \in Seq(S) /\ Len(r) = Len(q) + 1
      /\ \A j \in 1 .. Len(q) + 1 :
           r[j] = IF j < k THEN q[j] ELSE IF j = k THEN n ELSE q[j - 1]
  BY InsertAtProperties
<1>2. Len(q) \in Nat
  OBVIOUS
<1>3. /\ head = IF Len(q) = 0 THEN nil ELSE q[1]
      /\ \A i \in 1 .. Len(q) :
           next[q[i]] = IF i = Len(q) THEN nil ELSE q[i + 1]
  BY <1>2 DEF Spells
<1>4. ASSUME NEW i \in 1 .. Len(r)
      PROVE  next2[r[i]] = IF i = Len(r) THEN nil ELSE r[i + 1]
  <2>1. CASE i < k - 1
    <3>1. i \in 1 .. Len(q) /\ i < Len(q) /\ r[i] = q[i] /\ i # k - 1
      BY <1>1, <1>2, <2>1
    <3>2. r[i + 1] = q[i + 1] /\ i # Len(r)
      BY <1>1, <1>2, <2>1
    <3> QED
      BY <1>3, <3>1, <3>2
  <2>2. CASE i = k - 1
    BY <1>1, <1>2, <1>3, <2>2
  <2>3. CASE i = k
    <3>1. r[i] = n /\ (i = Len(r) <=> k = Len(q) + 1)
      BY <1>1, <1>2, <2>3
    <3>2. i # Len(r) => r[i + 1] = q[k]
      BY <1>1, <1>2, <2>3
    <3>3. k # 1 => k - 1 \in 1 .. Len(q) /\ (k - 1 = Len(q) <=> i = Len(r))
      BY <1>1, <1>2, <2>3
    <3>4. k = 1 => (Len(q) = 0 <=> i = Len(r))
      BY <1>1, <1>2, <2>3
    <3>5. CASE k = 1
      BY <1>3, <3>1, <3>2, <3>4, <3>5
    <3>6. CASE k # 1
      <4>1. next[q[k - 1]] = IF i = Len(r) THEN nil ELSE q[k]
        BY <1>2, <1>3, <3>3, <3>6
      <4> QED
        BY <3>1, <3>2, <3>6, <4>1
    <3> QED
      BY <3>5, <3>6
  <2>4. CASE i > k
    <3>1. PICK j \in 1 .. Len(q) : j = i - 1
      BY <1>1, <1>2, <2>4
    <3>2. /\ r[i] = q[j] /\ j # k - 1
          /\ j = Len(q) <=> i = Len(r)
          /\ i # Len(r) => r[i + 1] = q[j + 1]
      BY <1>1, <1>2, <2>4, <3>1
    <3>3. next2[q[j]] = next[q[j]]
      BY <3>1, <3>2
    <3> QED
      BY <1>3, <3>1, <3>2, <3>3
  <2> QED
    BY <1>1, <1>2, <2>1, <2>2, <2>3, <2>4
<1>5. head2 = r[1] /\ r # << >>
  BY <1>1, <1>2, <1>3
<1> QED
  BY <1>1, <1>4, <1>5 DEF Spells

\* The same backwards.
LEMMA SpellsBackWith ==
  ASSUME NEW S, NEW q \in Seq(S), NEW k \in 1 .. Len(q) + 1, NEW n \in S,
         NEW prev, NEW nil, SpellsBack(q, prev, nil),
         NEW prev2, LinkedInBack(q, k, n, prev, nil, prev2)
  PROVE  SpellsBack(InsertAt(q, k, n), prev2, nil)
<1> USE DEF LinkedInBack
<1> DEFINE r == InsertAt(q, k, n)
<1>1. /\ r \in Seq(S) /\ Len(r) = Len(q) + 1
      /\ \A j \in 1 .. Len(q) + 1 :
           r[j] = IF j < k THEN q[j] ELSE IF j = k THEN n ELSE q[j - 1]
  BY InsertAtProperties
<1>2. Len(q) \in Nat
  OBVIOUS
<1>3. \A i \in 1 .. Len(q) : prev[q[i]] = IF i = 1 THEN nil ELSE q[i - 1]
  BY DEF SpellsBack
<1>4. ASSUME NEW i \in 1 .. Len(r)
      PROVE  prev2[r[i]] = IF i = 1 THEN nil ELSE r[i - 1]
  <2>1. CASE i < k
    BY <1>1, <1>2, <1>3, <2>1
  <2>2. CASE i = k
    BY <1>1, <1>2, <1>3, <2>2
  <2>3. CASE i = k + 1
    BY <1>1, <1>2, <1>3, <2>3
  <2>4. CASE i > k + 1
    <3>1. i - 1 \in 1 .. Len(q) /\ r[i] = q[i - 1] /\ i - 1 # k /\ i # 1 /\ i - 1 # 1
      BY <1>1, <1>2, <2>4
    <3>2. r[i - 1] = q[(i - 1) - 1]
      BY <1>1, <1>2, <2>4
    <3> QED
      BY <1>3, <3>1, <3>2
  <2> QED
    BY <1>1, <1>2, <2>1, <2>2, <2>3, <2>4
<1> QED
  BY <1>4 DEF SpellsBack

-----------------------------------------------------------------------------
\* Places.

\* Where the verdicts on a queue agree, those on the neighbours of a place say
\* whether `enqueue' may choose it.
LEMMA AgreedPlace ==
  ASSUME NEW S, NEW q \in Seq(S), NEW v, InAgreement(q, v), NEW k \in 1 .. Len(q) + 1,
         k > 1 => v[q[k - 1]] # "Greater",
         k <= Len(q) => v[q[k]] # "Less",
         k > 1 => v[q[k - 1]] \in {"Less", "Equal"},
         k <= Len(q) => v[q[k]] \in {"Equal", "Greater"}
  PROVE  k \in EnqueuePositions(q, v)
<1>1. Len(q) \in Nat
  OBVIOUS
<1>2. ASSUME NEW j \in 1 .. k - 1 PROVE v[q[j]] # "Greater"
  <2>1. k - 1 \in 1 .. Len(q) /\ j \in 1 .. Len(q) /\ j <= k - 1 /\ k > 1
    BY <1>1
  <2> QED
    BY <1>1, <2>1 DEF InAgreement
<1>3. ASSUME NEW j \in k .. Len(q) PROVE v[q[j]] # "Less"
  <2>1. k \in 1 .. Len(q) /\ j \in 1 .. Len(q) /\ k <= j
    BY <1>1
  <2> QED
    BY <1>1, <2>1 DEF InAgreement
<1> QED
  BY <1>2, <1>3 DEF EnqueuePositions

\* In a queue in priority order, the neighbours of a place say who is before and
\* who is behind it.
LEMMA PlaceInOrder ==
  ASSUME NEW S, NEW q \in Seq(S), NEW data, NEW p, Descending(q, data, p),
         \A j \in 1 .. Len(q) : data[q[j]] \in Priorities,
         NEW d \in Priorities, NEW k \in 1 .. Len(q) + 1,
         k > 1 => q[k - 1] = p \/ Compare(d, data[q[k - 1]]) # "Greater",
         k <= Len(q) => q[k] # p /\ Compare(d, data[q[k]]) # "Less"
  PROVE  /\ \A j \in 1 .. k - 1 : q[j] = p \/ Compare(d, data[q[j]]) # "Greater"
         /\ \A j \in k .. Len(q) : q[j] # p /\ Compare(d, data[q[j]]) # "Less"
<1>1. Len(q) \in Nat
  OBVIOUS
<1>2. ASSUME NEW j \in 1 .. k - 1, q[j] # p PROVE Compare(d, data[q[j]]) # "Greater"
  <2>1. k - 1 \in 1 .. Len(q) /\ j \in 1 .. Len(q) /\ j <= k - 1 /\ k > 1
    BY <1>1
  <2>2. CASE j = k - 1
    BY <1>2, <2>1, <2>2
  <2>3. CASE j < k - 1
    <3>1. q[k - 1] # p /\ Compare(data[q[k - 1]], data[q[j]]) # "Greater"
      BY <1>2, <2>1, <2>3 DEF Descending
    <3>2. Compare(d, data[q[k - 1]]) # "Greater"
      BY <2>1, <3>1
    <3> QED
      BY <2>1, <3>1, <3>2, CompareIsPreorder
  <2> QED
    BY <2>1, <2>2, <2>3
<1>3. ASSUME NEW j \in k .. Len(q)
      PROVE  q[j] # p /\ Compare(d, data[q[j]]) # "Less"
  <2>1. k \in 1 .. Len(q) /\ j \in 1 .. Len(q) /\ k <= j
    BY <1>1
  <2>2. CASE j = k
    BY <2>1, <2>2
  <2>3. CASE j > k
    <3>1. q[j] # p /\ Compare(data[q[j]], data[q[k]]) # "Greater"
      BY <2>1, <2>3 DEF Descending
    <3>2. Compare(data[q[k]], data[q[j]]) # "Less"
      BY <2>1, <3>1, CompareIsPreorder
    <3>3. Compare(d, data[q[k]]) # "Less"
      BY <2>1
    <3> QED
      BY <2>1, <3>1, <3>2, <3>3, CompareIsPreorder
  <2> QED
    BY <2>1, <2>2, <2>3
<1> QED
  BY <1>2, <1>3

\* A queue in priority order stays so when an entry leaves.  If it is the pinned
\* one, the next is pinned.
LEMMA DescendingWithout ==
  ASSUME NEW S, NEW q \in Seq(S), Injective(q), NEW k \in 1 .. Len(q),
         NEW data, NEW data2, NEW p, NEW p2, Descending(q, data, p),
         \A i \in 1 .. Len(q) : i # k => data2[q[i]] = data[q[i]],
         q[k] # p => p2 = p,
         q[k] = p /\ Len(q) > 1 => k = 1 /\ p2 = q[2]
  PROVE  Descending(RemoveAt(q, k), data2, p2)
<1> DEFINE r == RemoveAt(q, k)
           at(j) == IF j < k THEN j ELSE j + 1
<1>1. /\ r \in Seq(S) /\ Len(r) = Len(q) - 1
      /\ \A j \in 1 .. Len(q) - 1 : r[j] = IF j < k THEN q[j] ELSE q[j + 1]
  BY RemoveAtProperties
<1>2. Len(q) \in Nat
  OBVIOUS
<1>3. \A j \in 1 .. Len(r) :
        at(j) \in 1 .. Len(q) /\ at(j) # k /\ r[j] = q[at(j)] /\ data2[r[j]] = data[q[at(j)]]
  BY <1>1, <1>2
<1>4. \A i, j \in 1 .. Len(r) : i < j => at(i) < at(j)
  BY <1>1, <1>2
<1>5. SUFFICES ASSUME NEW i \in 1 .. Len(r), NEW j \in 1 .. Len(r), i < j
               PROVE  /\ r[j] # p2
                      /\ r[i] # p2 => Compare(data2[r[j]], data2[r[i]]) # "Greater"
  BY DEF Descending
<1>6. /\ at(i) \in 1 .. Len(q) /\ r[i] = q[at(i)] /\ data2[r[i]] = data[q[at(i)]]
      /\ at(j) \in 1 .. Len(q) /\ r[j] = q[at(j)] /\ data2[r[j]] = data[q[at(j)]]
      /\ at(i) < at(j)
  BY <1>3, <1>4, <1>5
<1>7. /\ q[at(j)] # p
      /\ q[at(i)] # p => Compare(data[q[at(j)]], data[q[at(i)]]) # "Greater"
  BY <1>6 DEF Descending
<1>8. CASE q[k] # p
  BY <1>6, <1>7, <1>8
<1>9. CASE q[k] = p
  <2>1. k = 1 /\ p2 = q[2] /\ at(i) = i + 1 /\ at(j) = j + 1 /\ Len(q) > 2
    BY <1>1, <1>2, <1>5, <1>9
  <2>2. q[at(j)] # q[2]
    BY <1>5, <1>6, <2>1 DEF Injective
  <2>3. q[at(i)] # p
    BY <1>6, <1>9, <2>1 DEF Injective
  <2> QED
    BY <1>6, <1>7, <2>1, <2>2, <2>3
<1> QED
  BY <1>8, <1>9

\* It stays so when an entry comes where it is in order with its neighbours.
LEMMA DescendingWith ==
  ASSUME NEW S, NEW q \in Seq(S), NEW data, NEW data2, NEW p, Descending(q, data, p),
         \A j \in 1 .. Len(q) : data[q[j]] \in Priorities,
         NEW n \in S, data2[n] \in Priorities, Len(q) # 0 => n # p,
         \A j \in 1 .. Len(q) : data2[q[j]] = data[q[j]],
         NEW k \in 1 .. Len(q) + 1,
         k > 1 => q[k - 1] = p \/ Compare(data2[n], data[q[k - 1]]) # "Greater",
         k <= Len(q) => q[k] # p /\ Compare(data2[n], data[q[k]]) # "Less"
  PROVE  Descending(InsertAt(q, k, n), data2, p)
<1> DEFINE r == InsertAt(q, k, n)
<1>1. /\ r \in Seq(S) /\ Len(r) = Len(q) + 1
      /\ \A j \in 1 .. Len(q) + 1 :
           r[j] = IF j < k THEN q[j] ELSE IF j = k THEN n ELSE q[j - 1]
  <2>1. InsertAt(q, k, n) \in Seq(S) /\ IsWith(InsertAt(q, k, n), q, k, n)
    BY ONLY InsertAtIsWith, q \in Seq(S), n \in S, k \in 1 .. Len(q) + 1
  <2> QED
    BY <2>1 DEF IsWith
<1>2. Len(q) \in Nat
  OBVIOUS
<1>3. /\ \A j \in 1 .. k - 1 : q[j] = p \/ Compare(data2[n], data[q[j]]) # "Greater"
      /\ \A j \in k .. Len(q) : q[j] # p /\ Compare(data2[n], data[q[j]]) # "Less"
  BY PlaceInOrder
<1>4. SUFFICES ASSUME NEW i \in 1 .. Len(r), NEW j \in 1 .. Len(r), i < j
               PROVE  /\ r[j] # p
                      /\ r[i] # p => Compare(data2[r[j]], data2[r[i]]) # "Greater"
  BY DEF Descending
<1>5. CASE j = k
  <2>1. r[j] = n /\ r[i] = q[i] /\ i \in 1 .. k - 1 /\ i \in 1 .. Len(q) /\ Len(q) # 0
    BY <1>1, <1>2, <1>4, <1>5
  <2> QED
    BY <1>3, <2>1
<1>6. CASE i = k
  <2>1. r[i] = n /\ r[j] = q[j - 1] /\ j - 1 \in k .. Len(q) /\ j - 1 \in 1 .. Len(q)
    BY <1>1, <1>2, <1>4, <1>6
  <2>2. data[q[j - 1]] \in Priorities /\ data2[q[j - 1]] = data[q[j - 1]]
    BY <2>1
  <2>3. q[j - 1] # p /\ Compare(data2[n], data[q[j - 1]]) # "Less"
    BY <1>3, <2>1
  <2> QED
    BY <2>1, <2>2, <2>3, CompareIsPreorder
<1>7. CASE i # k /\ j # k
  <2> DEFINE at(x) == IF x < k THEN x ELSE x - 1
  <2>1. /\ at(i) \in 1 .. Len(q) /\ r[i] = q[at(i)]
        /\ at(j) \in 1 .. Len(q) /\ r[j] = q[at(j)]
        /\ at(i) < at(j)
    <3>1. i \in 1 .. Len(q) + 1 /\ j \in 1 .. Len(q) + 1 /\ k \in Nat
      BY <1>1, <1>2
    <3>2. at(i) \in 1 .. Len(q) /\ at(j) \in 1 .. Len(q) /\ at(i) < at(j)
      BY <1>2, <1>4, <1>7, <3>1
    <3>3. r[i] = q[at(i)] /\ r[j] = q[at(j)]
      BY <1>1, <1>7, <3>1
    <3> QED
      BY <3>2, <3>3
  <2>2. data2[r[i]] = data[q[at(i)]] /\ data2[r[j]] = data[q[at(j)]]
    BY <2>1
  <2> QED
    BY <2>1, <2>2 DEF Descending
<1> QED
  BY <1>5, <1>6, <1>7

\* What the operators of LinkedQueue make of a queue.
LEMMA BesidesProperties ==
  ASSUME NEW S, NEW q \in Seq(S), Injective(q), NEW n
  PROVE  /\ Besides(q, n) \in Seq(S) /\ Injective(Besides(q, n))
         /\ \A d : Queued(Besides(q, n), d) <=> d # n /\ Queued(q, d)
         /\ ~Queued(q, n) => Besides(q, n) = q
         /\ Queued(q, n) => /\ IndexOf(q, n) \in 1 .. Len(q) /\ q[IndexOf(q, n)] = n
                            /\ Besides(q, n) = RemoveAt(q, IndexOf(q, n))
<1>1. CASE Queued(q, n)
  BY <1>1, DequeueKeepsDistinct, IndexOfProperties DEF Besides, Dequeue
<1>2. CASE ~Queued(q, n)
  BY <1>2 DEF Besides
<1> QED
  BY <1>1, <1>2

LEMMA AheadIsInsert ==
  ASSUME NEW S, NEW q \in Seq(S), NEW n \in S
  PROVE  <<n>> \o q = InsertAt(q, 1, n)
<1>1. SubSeq(q, 1, 0) = << >> /\ SubSeq(q, 1, Len(q)) = q
  BY SubSeqEmpty, SubSeqFull
<1>2. << >> \o <<n>> = <<n>>
  BY ConcatEmptySeq
<1> QED
  BY <1>1, <1>2 DEF InsertAt

\* What a function makes of the entries of a queue.
Along(q, f) == [i \in 1 .. Len(q) |-> f[q[i]]]

Maps(f, S, T) == f \in [S -> T]

LEMMA AlongProperties ==
  ASSUME NEW S, NEW T, NEW q \in Seq(S), NEW f, Maps(f, S, T)
  PROVE  /\ Along(q, f) \in Seq(T) /\ Len(Along(q, f)) = Len(q)
         /\ \A i \in 1 .. Len(q) : Along(q, f)[i] = f[q[i]]
BY DEF Along, Maps

LEMMA AlongWith ==
  ASSUME NEW S, NEW T, NEW q \in Seq(S), NEW f, Maps(f, S, T),
         NEW k \in 1 .. Len(q) + 1, NEW n \in S
  PROVE  Along(InsertAt(q, k, n), f) = InsertAt(Along(q, f), k, f[n])
<1> DEFINE r == InsertAt(q, k, n)
           a == Along(q, f)
           b == InsertAt(a, k, f[n])
<1>1. /\ r \in Seq(S) /\ Len(r) = Len(q) + 1
      /\ \A j \in 1 .. Len(q) + 1 :
           r[j] = IF j < k THEN q[j] ELSE IF j = k THEN n ELSE q[j - 1]
  BY InsertAtProperties
<1>2. /\ a \in Seq(T) /\ Len(a) = Len(q) /\ f[n] \in T
      /\ \A i \in 1 .. Len(q) : a[i] = f[q[i]]
  BY AlongProperties DEF Maps
<1>3. /\ b \in Seq(T) /\ Len(b) = Len(a) + 1
      /\ \A j \in 1 .. Len(a) + 1 :
           b[j] = IF j < k THEN a[j] ELSE IF j = k THEN f[n] ELSE a[j - 1]
  <2> HIDE DEF a
  <2>1. PICK e \in T : e = f[n]
    BY <1>2
  <2>2. k \in 1 .. Len(a) + 1
    BY <1>2
  <2>3. a \in Seq(T) /\ e \in T
    BY <1>2
  <2>4. InsertAt(a, k, e) \in Seq(T) /\ IsWith(InsertAt(a, k, e), a, k, e)
    BY ONLY <2>2, <2>3, InsertAtIsWith
  <2> QED
    BY <2>1, <2>4 DEF IsWith
<1>4. /\ Along(r, f) \in Seq(T) /\ Len(Along(r, f)) = Len(r)
      /\ \A i \in 1 .. Len(r) : Along(r, f)[i] = f[r[i]]
  BY <1>1, AlongProperties
<1> HIDE DEF r, a, b
<1>5. ASSUME NEW j \in 1 .. Len(r) PROVE Along(r, f)[j] = b[j]
  <2>1. CASE j < k
    BY <1>1, <1>2, <1>3, <1>4, <2>1
  <2>2. CASE j = k
    BY <1>1, <1>2, <1>3, <1>4, <2>2
  <2>3. CASE j > k
    <3>1. j - 1 \in 1 .. Len(q) /\ r[j] = q[j - 1] /\ b[j] = a[j - 1]
      BY <1>1, <1>2, <1>3, <2>3
    <3> QED
      BY <1>2, <1>4, <3>1
  <2> QED
    BY <1>1, <2>1, <2>2, <2>3
<1>6. Along(r, f) = b
  BY <1>1, <1>2, <1>3, <1>4, <1>5, SeqEqual
<1> QED
  BY <1>6 DEF r, a, b

LEMMA AlongWithout ==
  ASSUME NEW S, NEW T, NEW q \in Seq(S), NEW f, Maps(f, S, T), NEW k \in 1 .. Len(q)
  PROVE  Along(RemoveAt(q, k), f) = RemoveAt(Along(q, f), k)
<1> DEFINE r == RemoveAt(q, k)
           a == Along(q, f)
           b == RemoveAt(a, k)
<1>1. /\ r \in Seq(S) /\ Len(r) = Len(q) - 1
      /\ \A j \in 1 .. Len(q) - 1 : r[j] = IF j < k THEN q[j] ELSE q[j + 1]
  BY RemoveAtProperties
<1>2. /\ a \in Seq(T) /\ Len(a) = Len(q)
      /\ \A i \in 1 .. Len(q) : a[i] = f[q[i]]
  BY AlongProperties
<1>3. /\ b \in Seq(T) /\ Len(b) = Len(a) - 1
      /\ \A j \in 1 .. Len(a) - 1 : b[j] = IF j < k THEN a[j] ELSE a[j + 1]
  <2> HIDE DEF a
  <2>1. k \in 1 .. Len(a)
    BY <1>2
  <2> QED
    BY <1>2, <2>1, RemoveAtProperties
<1>4. /\ Along(r, f) \in Seq(T) /\ Len(Along(r, f)) = Len(r)
      /\ \A i \in 1 .. Len(r) : Along(r, f)[i] = f[r[i]]
  BY <1>1, AlongProperties
<1> HIDE DEF r, a, b
<1>5. ASSUME NEW j \in 1 .. Len(r) PROVE Along(r, f)[j] = b[j]
  <2>1. CASE j < k
    <3>1. j \in 1 .. Len(q) /\ r[j] = q[j] /\ b[j] = a[j]
      BY <1>1, <1>2, <1>3, <2>1
    <3> QED
      BY <1>2, <1>4, <3>1
  <2>2. CASE j >= k
    <3>1. j + 1 \in 1 .. Len(q) /\ r[j] = q[j + 1] /\ b[j] = a[j + 1]
      BY <1>1, <1>2, <1>3, <2>2
    <3> QED
      BY <1>2, <1>4, <3>1
  <2> QED
    BY <1>1, <2>1, <2>2
<1>6. Along(r, f) = b
  BY <1>1, <1>2, <1>3, <1>4, <1>5, SeqEqual
<1> QED
  BY <1>6 DEF r, a, b

\* The neighbours of the place k in the queue q let a newcomer with the data d in,
\* the second for its own part or since the first is the newcomer's equal.
NeighboursAllow(q, k, d, data, p) ==
  /\ k > 1 => VerdictOn(d, q[k - 1] = p, data[q[k - 1]]) # "Greater"
  /\ k <= Len(q) => \/ VerdictOn(d, q[k] = p, data[q[k]]) # "Less"
                    \/ k > 1 /\ VerdictOn(d, q[k - 1] = p, data[q[k - 1]]) = "Equal"

\* A place that the neighbours allow is in order with them.
LEMMA AllowedIsInOrder ==
  ASSUME NEW S, NEW q \in Seq(S), NEW data, NEW p, Descending(q, data, p),
         \A j \in 1 .. Len(q) : data[q[j]] \in Priorities,
         NEW d \in Priorities, NEW k \in 1 .. Len(q) + 1,
         NeighboursAllow(q, k, d, data, p)
  PROVE  /\ k > 1 => q[k - 1] = p \/ Compare(d, data[q[k - 1]]) # "Greater"
         /\ k <= Len(q) => q[k] # p /\ Compare(d, data[q[k]]) # "Less"
<1>1. Len(q) \in Nat
  OBVIOUS
<1>2. \A j \in 1 .. Len(q) :
        /\ VerdictOn(d, q[j] = p, data[q[j]]) # "Greater"
             => q[j] = p \/ Compare(d, data[q[j]]) # "Greater"
        /\ VerdictOn(d, q[j] = p, data[q[j]]) # "Less"
             => q[j] # p /\ Compare(d, data[q[j]]) # "Less"
        /\ VerdictOn(d, q[j] = p, data[q[j]]) = "Equal"
             => q[j] # p /\ Compare(d, data[q[j]]) = "Equal"
  BY CompareIsPreorder DEF VerdictOn
<1>3. /\ k > 1 => k - 1 \in 1 .. Len(q)
      /\ k <= Len(q) => k \in 1 .. Len(q)
      /\ k > 1 => k - 1 < k
  BY <1>1
<1>4. CASE k <= Len(q) /\ k > 1 /\ VerdictOn(d, q[k - 1] = p, data[q[k - 1]]) = "Equal"
  <2>1. q[k - 1] # p /\ Compare(d, data[q[k - 1]]) = "Equal"
    BY <1>2, <1>3, <1>4
  <2>2. q[k] # p /\ Compare(data[q[k]], data[q[k - 1]]) # "Greater"
    BY <1>3, <1>4, <2>1 DEF Descending
  <2>3. Compare(data[q[k - 1]], data[q[k]]) # "Less" /\ Compare(d, data[q[k - 1]]) # "Less"
    BY <1>3, <1>4, <2>1, <2>2, CompareIsPreorder
  <2>4. Compare(d, data[q[k]]) # "Less"
    BY <1>3, <1>4, <2>3, CompareIsPreorder
  <2> QED
    BY <2>1, <2>2, <2>4
<1>5. k > 1 => q[k - 1] = p \/ Compare(d, data[q[k - 1]]) # "Greater"
  BY <1>2, <1>3 DEF NeighboursAllow
<1> QED
  BY <1>2, <1>3, <1>4, <1>5 DEF NeighboursAllow

\* es are the entries of the queue q, and v are the newcomer's verdicts on them.
EntriesOf(es, q, d, data, p, v) ==
  /\ Len(es) = Len(q)
  /\ \A j \in 1 .. Len(q) :
       /\ data[q[j]] \in Priorities
       /\ es[j].data = data[q[j]]
       /\ es[j].pinned <=> q[j] = p
       /\ v[es[j]] = VerdictOn(d, q[j] = p, data[q[j]])

\* The places AbstractQueue has for an entry with the data d, in the sequence es
\* of the entries of the queue q: where the neighbours allow it.
LEMMA PlaceOfEntry ==
  ASSUME NEW S, NEW q \in Seq(S), NEW data, NEW p, Descending(q, data, p),
         NEW d \in Priorities, NEW k \in 1 .. Len(q) + 1,
         NeighboursAllow(q, k, d, data, p),
         NEW T, NEW es \in Seq(T), NEW v, EntriesOf(es, q, d, data, p, v)
  PROVE  /\ k \in 1 .. Len(es) + 1
         /\ \A j \in 1 .. k - 1 : es[j].pinned \/ Compare(d, es[j].data) # "Greater"
         /\ \A j \in k .. Len(es) : ~es[j].pinned /\ Compare(d, es[j].data) # "Less"
         /\ InAgreement(es, v) => k \in EnqueuePositions(es, v)
<1> USE DEF EntriesOf
<1>1. Len(q) \in Nat
  OBVIOUS
<1>2. \A j \in 1 .. Len(q) :
        VerdictOn(d, q[j] = p, data[q[j]]) \in {"Less", "Equal", "Greater"}
  BY CompareIsPreorder DEF VerdictOn
<1>0. \A j \in 1 .. Len(q) : data[q[j]] \in Priorities
  OBVIOUS
<1>3. /\ k > 1 => k - 1 \in 1 .. Len(q)
      /\ k <= Len(q) => k \in 1 .. Len(q)
  BY <1>1
<1>4. /\ k > 1 => q[k - 1] = p \/ Compare(d, data[q[k - 1]]) # "Greater"
      /\ k <= Len(q) => q[k] # p /\ Compare(d, data[q[k]]) # "Less"
  BY ONLY <1>0, AllowedIsInOrder, q \in Seq(S), Descending(q, data, p),
          d \in Priorities, k \in 1 .. Len(q) + 1, NeighboursAllow(q, k, d, data, p)
<1>5. /\ \A j \in 1 .. k - 1 : q[j] = p \/ Compare(d, data[q[j]]) # "Greater"
      /\ \A j \in k .. Len(q) : q[j] # p /\ Compare(d, data[q[j]]) # "Less"
  BY ONLY <1>0, <1>4, PlaceInOrder, q \in Seq(S), Descending(q, data, p),
          d \in Priorities, k \in 1 .. Len(q) + 1
<1>6. /\ \A j \in 1 .. k - 1 : j \in 1 .. Len(q)
      /\ \A j \in k .. Len(q) : j \in 1 .. Len(q)
  BY <1>1
<1>7. ASSUME InAgreement(es, v) PROVE k \in EnqueuePositions(es, v)
  <2>1. /\ k > 1 => v[es[k - 1]] # "Greater" /\ v[es[k - 1]] \in {"Less", "Equal"}
        /\ k <= Len(es) => \/ v[es[k]] # "Less"
                           \/ k > 1 /\ v[es[k - 1]] = "Equal"
    BY <1>2, <1>3 DEF NeighboursAllow
  <2>2. k <= Len(es) => v[es[k]] # "Less" /\ v[es[k]] \in {"Equal", "Greater"}
    <3>1. k <= Len(es) /\ k > 1 /\ v[es[k - 1]] = "Equal" => v[es[k]] # "Less"
      <4>1. k > 1 => k - 1 < k
        BY <1>1
      <4> QED
        BY <1>3, <1>7, <4>1 DEF InAgreement
    <3> QED
      BY <1>2, <1>3, <2>1, <3>1
  <2>3. es \in Seq(T) /\ k \in 1 .. Len(es) + 1
    OBVIOUS
  <2> QED
    BY ONLY <1>7, <2>1, <2>2, <2>3, AgreedPlace
<1> QED
  BY <1>5, <1>6, <1>7

\* The entry at index k of the queue q is in order with its neighbours, now that
\* data2 are the data, which were `data'.
InOrderAt(q, k, data, data2, p) ==
  /\ \A i \in 1 .. Len(q) : i # k => data2[q[i]] = data[q[i]]
  /\ \A i \in 1 .. Len(q) : data2[q[i]] \in Priorities
  /\ q[k] # p
  /\ k > 1 => q[k - 1] = p \/ Compare(data2[q[k]], data2[q[k - 1]]) # "Greater"
  /\ k < Len(q) => q[k + 1] # p /\ Compare(data2[q[k]], data2[q[k + 1]]) # "Less"

\* An entry that belongs where it is, whatever its data were: the queue is in
\* priority order if it is without that entry.
LEMMA DescendingAgain ==
  ASSUME NEW S, NEW q \in Seq(S), Injective(q), NEW k \in 1 .. Len(q),
         NEW data, NEW data2, NEW p, InOrderAt(q, k, data, data2, p),
         NEW r, r = RemoveAt(q, k), Descending(r, data, p),
         NEW d, d = data2[q[k]]
  PROVE  /\ Descending(q, data2, p) /\ r \in Seq(S) /\ k \in 1 .. Len(r) + 1
         /\ q = InsertAt(r, k, q[k])
         /\ \A j \in 1 .. k - 1 : r[j] = p \/ Compare(d, data[r[j]]) # "Greater"
         /\ \A j \in k .. Len(r) : r[j] # p /\ Compare(d, data[r[j]]) # "Less"
<1>1. /\ r \in Seq(S) /\ Len(r) = Len(q) - 1
      /\ \A j \in 1 .. Len(q) - 1 : r[j] = IF j < k THEN q[j] ELSE q[j + 1]
  BY RemoveAtProperties
<1>2. Len(q) \in Nat /\ q[k] \in S
  OBVIOUS
<1>3. /\ k \in 1 .. Len(r) + 1
      /\ \A j \in 1 .. Len(r) :
           /\ data[r[j]] \in Priorities /\ data2[r[j]] = data[r[j]] /\ r[j] # q[k]
  <2>1. \A j \in 1 .. Len(r) :
          \E i \in 1 .. Len(q) : i # k /\ r[j] = q[i]
    <3> SUFFICES ASSUME NEW j \in 1 .. Len(r)
                 PROVE  \E i \in 1 .. Len(q) : i # k /\ r[j] = q[i]
      OBVIOUS
    <3>1. CASE j < k
      BY <1>1, <1>2, <3>1
    <3>2. CASE j >= k
      BY <1>1, <1>2, <3>2
    <3> QED
      BY <1>1, <1>2, <3>1, <3>2
  <2>2. k \in 1 .. Len(r) + 1
    BY <1>1, <1>2
  <2>3. ASSUME NEW j \in 1 .. Len(r)
        PROVE  data[r[j]] \in Priorities /\ data2[r[j]] = data[r[j]] /\ r[j] # q[k]
    <3>1. PICK i \in 1 .. Len(q) : i # k /\ r[j] = q[i]
      BY <2>1
    <3>2. data2[q[i]] = data[q[i]] /\ data2[q[i]] \in Priorities
      BY <3>1 DEF InOrderAt
    <3>3. q[i] # q[k]
      BY <3>1 DEF Injective
    <3> QED
      BY <3>1, <3>2, <3>3
  <2> QED
    BY <2>2, <2>3
<1>4. k > 1 => r[k - 1] = p \/ Compare(d, data[r[k - 1]]) # "Greater"
  <2>1. k > 1 => k - 1 \in 1 .. Len(r) /\ r[k - 1] = q[k - 1]
    BY <1>1, <1>2
  <2> QED
    BY <1>3, <2>1 DEF InOrderAt
<1>5. k <= Len(r) => r[k] # p /\ Compare(d, data[r[k]]) # "Less"
  <2>1. k <= Len(r) => k \in 1 .. Len(r) /\ r[k] = q[k + 1] /\ k < Len(q)
    BY <1>1, <1>2
  <2> QED
    BY <1>3, <2>1 DEF InOrderAt
<1>6. q = InsertAt(r, k, q[k])
  <2>1. Queued(q, q[k]) /\ IndexOf(q, q[k]) = k
    BY IndexIsUnique
  <2> QED
    BY <1>2, <2>1, InsertWhereItWas DEF Dequeue
<1>7. Descending(r, data, p) /\ d \in Priorities /\ data2[q[k]] \in Priorities
  BY <1>2 DEF InOrderAt
<1>8. /\ \A j \in 1 .. Len(r) : data[r[j]] \in Priorities
      /\ \A j \in 1 .. Len(r) : data2[r[j]] = data[r[j]]
      /\ Len(r) # 0 => q[k] # p
      /\ k \in 1 .. Len(r) + 1
      /\ d = data2[q[k]]
  BY <1>3 DEF InOrderAt
<1>9. /\ k > 1 => r[k - 1] = p \/ Compare(data2[q[k]], data[r[k - 1]]) # "Greater"
      /\ k <= Len(r) => r[k] # p /\ Compare(data2[q[k]], data[r[k]]) # "Less"
  BY <1>4, <1>5
<1>10. Descending(InsertAt(r, k, q[k]), data2, p)
  BY ONLY <1>1, <1>2, <1>7, <1>8, <1>9, DescendingWith
<1>11. /\ \A j \in 1 .. k - 1 : r[j] = p \/ Compare(d, data[r[j]]) # "Greater"
       /\ \A j \in k .. Len(r) : r[j] # p /\ Compare(d, data[r[j]]) # "Less"
  BY ONLY <1>1, <1>4, <1>5, <1>7, <1>8, PlaceInOrder
<1> QED
  BY <1>1, <1>3, <1>6, <1>10, <1>11
=============================================================================
