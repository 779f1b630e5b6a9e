---------------------------- MODULE MutexProofs -----------------------------
(***************************************************************************)
(* Proofs about the Mutex, for any number of clients and any discipline    *)
(* that meets the contract of the trait Priority.                          *)
(***************************************************************************)
EXTENDS Mutex, PriorityQueueProofs, WaiterCellProofs

\* A guard is only ever made of a node that has the lock.
GuardHasLock == \A c \in Clients : HasGuard(c) => HasLock(waiter[c])

(***************************************************************************)
(* A task that waits is registered or has been woken, and is registered    *)
(* only as long as it waits for something that has not happened.           *)
(***************************************************************************)
WakeInv ==
  \A c \in Clients :
    /\ pc[c] \in {"parked", "listening"} => waiter[c].armed \/ waiter[c].scheduled
    /\ pc[c] = "parked" /\ waiter[c].armed => ~HasLock(waiter[c])
    /\ pc[c] = "listening" /\ waiter[c].armed => ~WantsEvict(waiter[c])

(***************************************************************************)
(* The inductive invariant.  MutualExclusion follows from the head alone   *)
(* having the lock; the head is pinned there because every newcomer's      *)
(* verdict on it is "Less".  OutrankedIsAsked survives a hand-over because *)
(* the waiters are in order: nobody outranks the new head.                 *)
(***************************************************************************)
IInv ==
  /\ TypeOK
  /\ HeadHasLock
  /\ GuardHasLock
  /\ WaitersInOrder
  /\ WakeInv
  /\ OutrankedIsAsked

-----------------------------------------------------------------------------
\* The steps that leave the queue alone.

\* What a poll or the drop of a future keeps: it changes one cell, and no flag.
LEMMA PollKeepsIInv ==
  ASSUME IInv, NEW c \in Clients, NEW w \in Cell,
         NEW p \in PCs \ {"idle"},
         pc[c] # "idle",
         w.flags = waiter[c].flags,
         p \in {"guard", "listening"} => HasLock(waiter[c]),
         p \in {"parked", "listening"} => w.armed,
         p = "parked" => ~HasLock(waiter[c]),
         p = "listening" => ~WantsEvict(waiter[c]),
         waiter' = [waiter EXCEPT ![c] = w],
         pc' = [pc EXCEPT ![c] = p],
         UNCHANGED <<queue, priority>>
  PROVE  IInv'
<1>1. /\ waiter \in [Clients -> Cell] /\ pc \in [Clients -> PCs]
      /\ queue \in Seq(Clients)
  BY DEF IInv, TypeOK
<1>2. \A d \in Clients : waiter'[d].flags = waiter[d].flags
  BY <1>1
<1>3. \A d \in Clients : /\ HasLock(waiter[d])' <=> HasLock(waiter[d])
                         /\ WantsEvict(waiter[d])' <=> WantsEvict(waiter[d])
  BY <1>2 DEF HasLock, WantsEvict
<1>4. \A i \in 1 .. Len(queue) : queue[i] \in Clients
  BY <1>1
<1>5. TypeOK'
  BY <1>1 DEF IInv, TypeOK, Queued, Injective
<1>6. HeadHasLock'
  BY <1>3, <1>4 DEF IInv, HeadHasLock
<1>7. GuardHasLock'
  BY <1>1, <1>3 DEF IInv, GuardHasLock, HasGuard
<1>8. WaitersInOrder'
  BY DEF IInv, WaitersInOrder
<1>9. WakeInv'
  BY <1>1, <1>3 DEF IInv, WakeInv
<1>10. OutrankedIsAsked'
  <2>1. ASSUME queue # << >> PROVE Head(queue) \in Clients
    BY <1>1, <2>1
  <2>2. \A i \in 2 .. Len(queue) : queue # << >>
    BY <1>1
  <2> QED
    BY <1>3, <2>1, <2>2 DEF IInv, OutrankedIsAsked
<1> QED
  BY <1>5, <1>6, <1>7, <1>8, <1>9, <1>10 DEF IInv

\* PollLock preserves the inductive invariant.
LEMMA PollLockKeepsIInv ==
  ASSUME IInv, NEW c \in Clients, PollLock(c)
  PROVE  IInv'
<1>1. waiter[c] \in Cell
  BY DEF IInv, TypeOK
<1>2. CASE HasLock(waiter[c])
  <2>1. waiter' = [waiter EXCEPT ![c] = ClearWaker(waiter[c])]
    BY <1>2 DEF PollLock
  <2>2. pc' = [pc EXCEPT ![c] = "guard"]
    BY <1>2 DEF PollLock
  <2> QED
    BY <1>1, <1>2, <2>1, <2>2, WaitProperties, PollKeepsIInv DEF PollLock, PCs
<1>3. CASE ~HasLock(waiter[c])
  <2>1. waiter' = [waiter EXCEPT ![c] = Park(waiter[c])]
    BY <1>3 DEF PollLock
  <2>2. pc' = [pc EXCEPT ![c] = "parked"]
    BY <1>3 DEF PollLock
  <2> QED
    BY <1>1, <1>3, <2>1, <2>2, WaitProperties, PollKeepsIInv DEF PollLock, PCs
<1> QED
  BY <1>2, <1>3

\* CancelLock preserves the inductive invariant.
LEMMA CancelLockKeepsIInv ==
  ASSUME IInv, NEW c \in Clients, CancelLock(c)
  PROVE  IInv'
<1>1. waiter[c] \in Cell
  BY DEF IInv, TypeOK
<1>2. /\ waiter' = [waiter EXCEPT ![c] = ClearWaker(waiter[c])]
      /\ pc' = [pc EXCEPT ![c] = "dropping"]
  BY DEF CancelLock
<1> QED
  BY <1>1, <1>2, WaitProperties, PollKeepsIInv DEF CancelLock, PCs

\* PollEvicted preserves the inductive invariant.
LEMMA PollEvictedKeepsIInv ==
  ASSUME IInv, NEW c \in Clients, PollEvicted(c)
  PROVE  IInv'
<1>1. waiter[c] \in Cell /\ HasLock(waiter[c]) /\ pc[c] # "idle"
  BY DEF IInv, TypeOK, GuardHasLock, PollEvicted, HasGuard
<1>2. CASE WantsEvict(waiter[c])
  <2>1. waiter' = [waiter EXCEPT ![c] = ClearWaker(waiter[c])]
    BY <1>2 DEF PollEvicted
  <2>2. pc' = [pc EXCEPT ![c] = "guard"]
    BY <1>2 DEF PollEvicted
  <2> QED
    BY <1>1, <1>2, <2>1, <2>2, WaitProperties, PollKeepsIInv
       DEF PollEvicted, PCs
<1>3. CASE ~WantsEvict(waiter[c])
  <2>1. waiter' = [waiter EXCEPT ![c] = Park(waiter[c])]
    BY <1>3 DEF PollEvicted
  <2>2. pc' = [pc EXCEPT ![c] = "listening"]
    BY <1>3 DEF PollEvicted
  <2> QED
    BY <1>1, <1>3, <2>1, <2>2, WaitProperties, PollKeepsIInv
       DEF PollEvicted, PCs
<1> QED
  BY <1>2, <1>3

\* CancelEvicted preserves the inductive invariant.
LEMMA CancelEvictedKeepsIInv ==
  ASSUME IInv, NEW c \in Clients, CancelEvicted(c)
  PROVE  IInv'
<1>1. waiter[c] \in Cell /\ HasLock(waiter[c])
  BY DEF IInv, TypeOK, GuardHasLock, CancelEvicted, HasGuard
<1>2. /\ waiter' = [waiter EXCEPT ![c] = ClearWaker(waiter[c])]
      /\ pc' = [pc EXCEPT ![c] = "guard"]
  BY DEF CancelEvicted
<1> QED
  BY <1>1, <1>2, WaitProperties, PollKeepsIInv DEF CancelEvicted, PCs

-----------------------------------------------------------------------------
\* The steps that change the queue.

\* A grant on the empty queue preserves the inductive invariant.
LEMMA GrantAtOnceKeepsIInv ==
  ASSUME IInv, NEW c \in Clients, NEW p \in Priorities, GrantAtOnce(c, p)
  PROVE  IInv'
<1>1. /\ queue = << >> /\ queue' = <<c>>
      /\ pc' = [pc EXCEPT ![c] = "guard"]
      /\ waiter' = [waiter EXCEPT ![c] = NewCell(TRUE)]
      /\ priority' = [priority EXCEPT ![c] = p]
  BY DEF GrantAtOnce
<1>2. \A d \in Clients : pc[d] = "idle"
  BY <1>1 DEF IInv, TypeOK, Queued
<1>3. Len(queue') = 1 /\ queue'[1] = c
  BY <1>1
<1>4. HasLock(waiter[c])' /\ ~waiter'[c].armed /\ waiter'[c] \in Cell
  BY <1>1, NewCellType DEF IInv, TypeOK
<1>5. TypeOK'
  <2>1. queue' \in Seq(Clients)
    BY <1>1
  <2>2. Injective(queue')
    BY <1>3 DEF Injective
  <2>3. \A d \in Clients : Queued(queue', d) <=> d = c
    BY <1>3 DEF Queued
  <2>4. \A d \in Clients : pc'[d] # "idle" <=> d = c
    BY <1>1, <1>2 DEF IInv, TypeOK
  <2> QED
    BY <1>1, <1>4, <2>1, <2>2, <2>3, <2>4, NewCellType DEF IInv, TypeOK, PCs
<1>6. HeadHasLock'
  BY <1>3, <1>4 DEF HeadHasLock
<1>7. GuardHasLock'
  BY <1>1, <1>2, <1>4 DEF IInv, TypeOK, GuardHasLock, HasGuard
<1>8. WaitersInOrder' /\ OutrankedIsAsked'
  BY <1>3 DEF WaitersInOrder, OutrankedIsAsked
<1>9. WakeInv'
  BY <1>1, <1>2 DEF IInv, TypeOK, WakeInv
<1> QED
  BY <1>5, <1>6, <1>7, <1>8, <1>9 DEF IInv

\* Queueing a request preserves the inductive invariant.
LEMMA WaitInQueueKeepsIInv ==
  ASSUME IInv, NEW c \in Clients, NEW p \in Priorities, WaitInQueue(c, p)
  PROVE  IInv'
<1> DEFINE n == Len(queue)
           h == Head(queue)
<1>1. /\ queue \in Seq(Clients) /\ n \in Nat \ {0} /\ Injective(queue)
      /\ h = queue[1] /\ h \in Clients
      /\ \A j \in 1 .. n : queue[j] \in Clients
      /\ priority \in [Clients -> Priorities]
      /\ waiter \in [Clients -> Cell] /\ pc \in [Clients -> PCs]
  BY DEF IInv, TypeOK, WaitInQueue
<1>2. ~Queued(queue, c) /\ pc[c] = "idle"
  BY DEF IInv, TypeOK, WaitInQueue
<1>3. \A j \in 1 .. n : queue[j] # c
  BY <1>2 DEF Queued
<1>4. PICK i \in EnqueuePositions(queue, Verdict(p)) :
        queue' = InsertAt(queue, i, c)
  BY DEF WaitInQueue
<1>5. /\ i \in 1 .. n + 1
      /\ \A j \in 1 .. i - 1 : Verdict(p)[queue[j]] # "Greater"
      /\ \A j \in i .. n : Verdict(p)[queue[j]] # "Less"
  BY <1>4 DEF EnqueuePositions
\* The node that has the lock keeps the head.
<1>6. i \in 2 .. n + 1
  <2>1. HasLock(waiter[h])
    BY <1>1 DEF IInv, HeadHasLock
  <2>2. Verdict(p)[queue[1]] = "Less"
    BY <1>1, <2>1 DEF Verdict
  <2> QED
    BY <1>1, <1>5, <2>2
<1>7. /\ queue' \in Seq(Clients) /\ Len(queue') = n + 1
      /\ \A j \in 1 .. n + 1 :
           queue'[j] = IF j < i THEN queue[j] ELSE IF j = i THEN c ELSE queue[j - 1]
  BY <1>1, <1>4, <1>5, InsertAtProperties
<1>8. /\ Injective(queue')
      /\ \A d : Queued(queue', d) <=> d = c \/ Queued(queue, d)
  BY <1>1, <1>2, <1>4, <1>5, InsertKeepsDistinct
<1>9. queue'[1] = h /\ Head(queue') = h
  BY <1>1, <1>6, <1>7
<1>10. /\ priority' = [priority EXCEPT ![c] = p]
       /\ pc' = [pc EXCEPT ![c] = "polling"]
       /\ waiter' = [EvictHead(p) EXCEPT ![c] = NewCell(FALSE)]
  BY DEF WaitInQueue
\* The cells: the head may have been asked to leave, the others are the same.
<1>11. /\ EvictHead(p) \in [Clients -> Cell]
       /\ \A d \in Clients : d # h => EvictHead(p)[d] = waiter[d]
       /\ EvictHead(p)[h] \in {waiter[h], AddFlag(waiter[h], "WANTS_EVICT")}
       /\ Evict /\ Compare(p, priority[h]) = "Greater"
            => EvictHead(p)[h] = AddFlag(waiter[h], "WANTS_EVICT")
  <2>1. AddFlag(waiter[h], "WANTS_EVICT") \in Cell
    BY <1>1, AddFlagProperties DEF Flags
  <2> HIDE DEF h
  <2>2. EvictHead(p) = IF Evict /\ Compare(p, priority[h]) = "Greater"
                         THEN [waiter EXCEPT ![h] = AddFlag(waiter[h], "WANTS_EVICT")]
                         ELSE waiter
    BY DEF EvictHead, h
  <2> QED
    BY <1>1, <2>1, <2>2
<1>12. c # h
  BY <1>1, <1>3
<1> HIDE DEF h, n
<1>13. /\ waiter' \in [Clients -> Cell]
       /\ waiter'[c] = NewCell(FALSE)
       /\ \A d \in Clients : d # c => waiter'[d] = EvictHead(p)[d]
  BY <1>1, <1>10, <1>11, NewCellType
<1>14. \A d \in Clients \ {c} :
         /\ HasLock(waiter'[d]) <=> HasLock(waiter[d])
         /\ WantsEvict(waiter[d]) => WantsEvict(waiter'[d])
         /\ waiter[d].armed \/ waiter[d].scheduled
              => waiter'[d].armed \/ waiter'[d].scheduled
         /\ waiter'[d].armed => waiter'[d] = waiter[d]
  <2> SUFFICES ASSUME NEW d \in Clients \ {c}
               PROVE  /\ HasLock(waiter'[d]) <=> HasLock(waiter[d])
                      /\ WantsEvict(waiter[d]) => WantsEvict(waiter'[d])
                      /\ waiter[d].armed \/ waiter[d].scheduled
                           => waiter'[d].armed \/ waiter'[d].scheduled
                      /\ waiter'[d].armed => waiter'[d] = waiter[d]
    OBVIOUS
  <2>1. waiter'[d] \in {waiter[d], AddFlag(waiter[d], "WANTS_EVICT")}
    BY <1>11, <1>13
  <2>2. waiter[d] \in Cell
    BY <1>1
  <2> QED
    BY <2>1, <2>2, AddFlagProperties DEF HasLock, WantsEvict, Flags
<1>15. TypeOK'
  BY <1>1, <1>2, <1>7, <1>8, <1>10, <1>13 DEF IInv, TypeOK, PCs
<1>16. HeadHasLock'
  <2> SUFFICES ASSUME NEW j \in 1 .. Len(queue')
               PROVE  HasLock(waiter'[queue'[j]]) <=> j = 1
    BY DEF HeadHasLock
  <2>1. CASE j = i
    <3>1. queue'[i] = c
      BY <1>1, <1>6, <1>7
    <3>2. ~HasLock(waiter'[queue'[j]])
      BY <1>13, <2>1, <3>1, NewCellType
    <3>3. j # 1
      BY <1>1, <1>6, <2>1
    <3> QED
      BY <3>2, <3>3
  <2>2. CASE j < i
    <3>1. j \in 1 .. n /\ queue'[j] = queue[j]
      BY <1>1, <1>6, <1>7, <2>2
    <3> QED
      BY <1>1, <1>3, <1>14, <3>1 DEF IInv, HeadHasLock, n
  <2>3. CASE j > i
    <3>1. j - 1 \in 2 .. n /\ queue'[j] = queue[j - 1]
      BY <1>1, <1>6, <1>7, <2>3
    <3> QED
      BY <1>1, <1>3, <1>14, <3>1 DEF IInv, HeadHasLock, n
  <2> QED
    BY <1>6, <1>7, <2>1, <2>2, <2>3
<1>17. GuardHasLock'
  BY <1>1, <1>2, <1>10, <1>14 DEF IInv, GuardHasLock, HasGuard
\* The newcomer is placed by verdicts that agree with Compare.
<1>18. ASSUME NEW j \in 2 .. n
       PROVE  /\ j < i => Compare(p, priority[queue[j]]) # "Greater"
              /\ j >= i => Compare(priority[queue[j]], p) # "Greater"
  <2>1. ~HasLock(waiter[queue[j]]) /\ queue[j] \in Clients
    BY <1>1 DEF IInv, HeadHasLock, n
  <2>2. Verdict(p)[queue[j]] = CompareNew(p, priority[queue[j]])
    BY <2>1 DEF Verdict
  <2>3. priority[queue[j]] \in Priorities
    BY <1>1, <2>1
  <2>4. /\ j < i => Verdict(p)[queue[j]] # "Greater"
        /\ j >= i => Verdict(p)[queue[j]] # "Less"
    BY <1>1, <1>5
  <2> HIDE DEF Verdict
  <2> QED
    BY <2>2, <2>3, <2>4, PriorityContract DEF Contract
<1>19. WaitersInOrder'
  <2> SUFFICES ASSUME NEW j \in 2 .. Len(queue'), NEW k \in 2 .. Len(queue'), j < k
               PROVE  Compare(priority'[queue'[k]], priority'[queue'[j]]) # "Greater"
    BY DEF WaitersInOrder
  <2>1. priority'[c] = p /\ \A d \in Clients \ {c} : priority'[d] = priority[d]
    BY <1>1, <1>10
  <2> DEFINE origin(m) == IF m < i THEN m ELSE m - 1
  <2>2. ASSUME NEW m \in 2 .. Len(queue'), m # i
        PROVE  /\ origin(m) \in 2 .. n
               /\ queue'[m] = queue[origin(m)]
               /\ priority'[queue'[m]] = priority[queue[origin(m)]]
    <3>1. origin(m) \in 2 .. n /\ queue'[m] = queue[origin(m)]
      BY <1>1, <1>6, <1>7, <2>2
    <3> QED
      BY <1>1, <1>3, <2>1, <3>1
  <2>3. queue'[i] = c
    BY <1>6, <1>7
  <2>4. CASE j # i /\ k # i
    <3>1. origin(j) < origin(k)
      BY <1>1, <1>6, <1>7, <2>4
    <3>2. /\ origin(j) \in 2 .. n /\ priority'[queue'[j]] = priority[queue[origin(j)]]
          /\ origin(k) \in 2 .. n /\ priority'[queue'[k]] = priority[queue[origin(k)]]
      BY <2>2, <2>4
    <3> HIDE DEF origin
    <3> QED
      BY <3>1, <3>2 DEF IInv, WaitersInOrder, n
  <2>5. CASE j = i
    <3>1. k # i /\ origin(k) >= i
      BY <1>1, <1>6, <1>7, <2>5
    <3> QED
      BY <1>18, <2>1, <2>2, <2>3, <2>5, <3>1
  <2>6. CASE k = i
    <3>1. j # i /\ origin(j) < i
      BY <1>1, <1>6, <1>7, <2>6
    <3> QED
      BY <1>18, <2>1, <2>2, <2>3, <2>6, <3>1
  <2> QED
    BY <2>4, <2>5, <2>6
<1>20. WakeInv'
  <2> SUFFICES ASSUME NEW d \in Clients
        PROVE  /\ pc'[d] \in {"parked", "listening"}
                    => waiter'[d].armed \/ waiter'[d].scheduled
               /\ pc'[d] = "parked" /\ waiter'[d].armed => ~HasLock(waiter'[d])
               /\ pc'[d] = "listening" /\ waiter'[d].armed
                    => ~WantsEvict(waiter'[d])
    BY DEF WakeInv
  <2>1. CASE d = c
    BY <1>1, <1>10, <2>1
  <2>2. CASE d # c
    <3>1. pc'[d] = pc[d]
      BY <1>1, <1>10, <2>2
    <3> QED
      BY <1>14, <2>2, <3>1 DEF IInv, WakeInv
  <2> QED
    BY <2>1, <2>2
<1>21. OutrankedIsAsked'
  <2> SUFFICES ASSUME NEW j \in 2 .. Len(queue'), Evict,
                      Compare(priority'[queue'[j]], priority'[Head(queue')]) = "Greater"
               PROVE  WantsEvict(waiter'[Head(queue')])
    BY DEF OutrankedIsAsked
  <2>1. priority'[h] = priority[h] /\ priority'[c] = p
    BY <1>1, <1>10, <1>12
  <2>2. CASE j = i
    <3>1. Compare(p, priority[h]) = "Greater"
      BY <1>6, <1>7, <1>9, <2>1, <2>2
    <3>2. waiter'[h] = AddFlag(waiter[h], "WANTS_EVICT")
      BY <1>1, <1>11, <1>12, <1>13, <3>1
    <3> QED
      BY <1>1, <1>9, <3>2, AddFlagProperties DEF WantsEvict, Flags
  <2>3. CASE j # i
    <3>1. PICK k \in 2 .. n : queue'[j] = queue[k]
      <4>1. CASE j < i
        BY <1>1, <1>6, <1>7, <4>1
      <4>2. CASE j > i
        <5>1. j - 1 \in 2 .. n /\ queue'[j] = queue[j - 1]
          BY <1>1, <1>6, <1>7, <4>2
        <5> QED
          BY <5>1
      <4> QED
        BY <1>6, <1>7, <2>3, <4>1, <4>2
    <3>2. priority'[queue'[j]] = priority[queue[k]]
      BY <1>1, <1>3, <1>10, <3>1
    <3>3. WantsEvict(waiter[h])
      BY <1>9, <2>1, <3>1, <3>2 DEF IInv, OutrankedIsAsked, n, h
    <3> QED
      BY <1>1, <1>9, <1>12, <1>14, <3>3
  <2> QED
    BY <2>2, <2>3
<1> QED
  BY <1>15, <1>16, <1>17, <1>19, <1>20, <1>21 DEF IInv

\* Dropping a guard preserves the inductive invariant.
LEMMA DropGuardKeepsIInv ==
  ASSUME IInv, NEW c \in Clients, DropGuard(c)
  PROVE  IInv'
<1> DEFINE n == Len(queue)
           m == IndexOf(queue, c)
           g == Head(queue')
           handed == HasLock(waiter[c]) /\ queue' # << >>
           origin(j) == IF j < m THEN j ELSE j + 1
<1>1. /\ queue \in Seq(Clients) /\ n \in Nat /\ Injective(queue)
      /\ \A j \in 1 .. n : queue[j] \in Clients
      /\ priority \in [Clients -> Priorities]
      /\ waiter \in [Clients -> Cell] /\ pc \in [Clients -> PCs]
  BY DEF IInv, TypeOK
<1>2. Queued(queue, c)
  BY DEF IInv, TypeOK, DropGuard
<1>3. m \in 1 .. n /\ queue[m] = c
  BY <1>1, <1>2, IndexOfProperties
<1>4. /\ queue' \in Seq(Clients) /\ Len(queue') = n - 1
      /\ \A j \in 1 .. n - 1 :
           queue'[j] = IF j < m THEN queue[j] ELSE queue[j + 1]
      /\ Injective(queue')
      /\ \A d : Queued(queue', d) <=> d # c /\ Queued(queue, d)
  BY <1>1, <1>2, DequeueKeepsDistinct DEF DropGuard
<1>5. /\ pc' = [pc EXCEPT ![c] = "idle"]
      /\ waiter' = HandOver(c, queue')
      /\ priority' = priority
  BY DEF DropGuard
<1>6. HasLock(waiter[c]) <=> m = 1
  BY <1>3 DEF IInv, HeadHasLock
<1> HIDE DEF n, m
<1>7. ASSUME NEW j \in 1 .. Len(queue')
      PROVE  /\ origin(j) \in 1 .. n /\ queue'[j] = queue[origin(j)]
             /\ queue'[j] # c /\ queue'[j] \in Clients
             /\ j >= 2 \/ m = 1 => origin(j) >= 2
             /\ j = 1 /\ m # 1 => origin(j) = 1
  <2>1. origin(j) \in 1 .. n /\ queue'[j] = queue[origin(j)] /\ origin(j) # m
    BY <1>1, <1>3, <1>4
  <2>2. queue'[j] # c
    BY <1>1, <1>3, <2>1 DEF Injective, n
  <2> QED
    BY <1>1, <1>3, <2>1, <2>2
<1>8. queue' # << >> => 1 \in 1 .. Len(queue') /\ g = queue'[1] /\ g \in Clients /\ g # c
  <2>1. queue' # << >> => 1 \in 1 .. Len(queue') /\ g = queue'[1]
    BY <1>4
  <2> QED
    BY <1>7, <2>1
\* The cells: the new head of a handed-over lock has it, the others are the same.
<1>9. /\ waiter' \in [Clients -> Cell]
      /\ waiter'[c] = NewCell(FALSE)
      /\ \A d \in Clients \ {c} : ~(handed /\ d = g) => waiter'[d] = waiter[d]
      /\ handed => waiter'[g] = AddFlag(waiter[g], "HAS_LOCK")
  <2> DEFINE left == [waiter EXCEPT ![c] = NewCell(FALSE)]
  <2>1. waiter' = IF handed
                    THEN [left EXCEPT ![g] = AddFlag(left[g], "HAS_LOCK")]
                    ELSE left
    BY <1>5 DEF HandOver
  <2>2. /\ left \in [Clients -> Cell] /\ left[c] = NewCell(FALSE)
        /\ \A d \in Clients \ {c} : left[d] = waiter[d]
    BY <1>1, NewCellType
  <2>3. CASE ~handed
    BY <2>1, <2>2, <2>3
  <2>4. CASE handed
    <3>1. g \in Clients \ {c}
      BY <1>8, <2>4
    <3>2. AddFlag(left[g], "HAS_LOCK") \in Cell /\ left[g] = waiter[g]
      BY <1>1, <2>2, <3>1, AddFlagProperties DEF Flags
    <3> HIDE DEF left, g, handed
    <3>3. waiter' = [left EXCEPT ![g] = AddFlag(left[g], "HAS_LOCK")]
      BY <2>1, <2>4
    <3> QED
      BY <2>2, <2>4, <3>1, <3>2, <3>3
  <2> QED
    BY <2>3, <2>4
<1> HIDE DEF g, handed
<1>10. \A d \in Clients \ {c} :
         /\ HasLock(waiter'[d]) <=> HasLock(waiter[d]) \/ (handed /\ d = g)
         /\ WantsEvict(waiter[d]) <=> WantsEvict(waiter'[d])
         /\ waiter[d].armed \/ waiter[d].scheduled
              => waiter'[d].armed \/ waiter'[d].scheduled
         /\ waiter'[d].armed => waiter'[d] = waiter[d]
  <2> SUFFICES ASSUME NEW d \in Clients \ {c}
      PROVE  /\ HasLock(waiter'[d]) <=> HasLock(waiter[d]) \/ (handed /\ d = g)
             /\ WantsEvict(waiter[d]) <=> WantsEvict(waiter'[d])
             /\ waiter[d].armed \/ waiter[d].scheduled
                  => waiter'[d].armed \/ waiter'[d].scheduled
             /\ waiter'[d].armed => waiter'[d] = waiter[d]
    OBVIOUS
  <2>1. CASE ~(handed /\ d = g)
    BY <1>9, <2>1
  <2>2. CASE handed /\ d = g
    BY <1>1, <1>9, <2>2, AddFlagProperties DEF HasLock, WantsEvict, Flags
  <2> QED
    BY <2>1, <2>2
<1>11. TypeOK'
  BY <1>1, <1>4, <1>5, <1>9 DEF IInv, TypeOK, PCs
<1>12. HeadHasLock'
  <2> SUFFICES ASSUME NEW j \in 1 .. Len(queue')
               PROVE  HasLock(waiter'[queue'[j]]) <=> j = 1
    BY DEF HeadHasLock
  <2>1. queue'[j] \in Clients \ {c}
    BY <1>7
  <2>2. queue' # << >>
    BY <1>4
  <2>3. CASE j = 1 /\ m = 1
    <3>1. handed /\ queue'[j] = g
      BY <1>6, <1>8, <2>2, <2>3 DEF handed
    <3> QED
      BY <1>10, <2>1, <2>3, <3>1
  <2>4. CASE j = 1 /\ m # 1
    <3>1. queue'[j] = queue[1] /\ 1 \in 1 .. n
      BY <1>7, <2>4
    <3>2. HasLock(waiter[queue'[j]])
      BY <3>1 DEF IInv, HeadHasLock, n
    <3> QED
      BY <1>10, <2>1, <2>4, <3>2
  <2>5. CASE j # 1
    <3>1. queue'[j] # g
      BY <1>4, <1>8, <2>2, <2>5 DEF Injective
    <3>2. origin(j) \in 1 .. n /\ origin(j) # 1 /\ queue'[j] = queue[origin(j)]
      BY <1>7, <2>5
    <3>3. ~HasLock(waiter[queue'[j]])
      BY <3>2 DEF IInv, HeadHasLock, n
    <3> QED
      BY <1>10, <2>1, <2>5, <3>1, <3>3
  <2> QED
    BY <2>3, <2>4, <2>5
<1>13. GuardHasLock'
  BY <1>1, <1>5, <1>10 DEF IInv, GuardHasLock, HasGuard
<1>14. WaitersInOrder'
  <2> SUFFICES ASSUME NEW j \in 2 .. Len(queue'), NEW k \in 2 .. Len(queue'), j < k
               PROVE  Compare(priority'[queue'[k]], priority'[queue'[j]]) # "Greater"
    BY DEF WaitersInOrder
  <2>1. /\ origin(j) \in 2 .. n /\ queue'[j] = queue[origin(j)]
        /\ origin(k) \in 2 .. n /\ queue'[k] = queue[origin(k)]
    BY <1>1, <1>4, <1>7
  <2>2. origin(j) < origin(k)
    BY <1>1, <1>3, <1>4
  <2> HIDE DEF origin
  <2> QED
    BY <1>5, <2>1, <2>2 DEF IInv, WaitersInOrder, n
<1>15. WakeInv'
  <2> SUFFICES ASSUME NEW d \in Clients
        PROVE  /\ pc'[d] \in {"parked", "listening"}
                    => waiter'[d].armed \/ waiter'[d].scheduled
               /\ pc'[d] = "parked" /\ waiter'[d].armed => ~HasLock(waiter'[d])
               /\ pc'[d] = "listening" /\ waiter'[d].armed
                    => ~WantsEvict(waiter'[d])
    BY DEF WakeInv
  <2>1. CASE d = c
    BY <1>1, <1>5, <2>1
  <2>2. CASE d # c
    <3>1. pc'[d] = pc[d]
      BY <1>1, <1>5, <2>2
    <3> QED
      BY <1>10, <2>2, <3>1 DEF IInv, WakeInv
  <2> QED
    BY <2>1, <2>2
<1>16. OutrankedIsAsked'
  <2> SUFFICES ASSUME NEW j \in 2 .. Len(queue'), Evict,
                      Compare(priority'[queue'[j]], priority'[Head(queue')]) = "Greater"
               PROVE  WantsEvict(waiter'[Head(queue')])
    BY DEF OutrankedIsAsked
  <2>1. /\ 1 \in 1 .. Len(queue') /\ Head(queue') = g /\ g = queue'[1]
        /\ g \in Clients \ {c}
    BY <1>4, <1>8 DEF g
  <2>2. origin(j) \in 2 .. n /\ queue'[j] = queue[origin(j)]
    BY <1>1, <1>4, <1>7
  <2>3. CASE m = 1
    <3>1. g = queue[2] /\ 2 \in 2 .. n /\ 2 < origin(j)
      BY <1>1, <1>4, <2>1, <2>3
    <3> HIDE DEF origin
    <3> QED
      BY <1>5, <2>1, <2>2, <3>1 DEF IInv, WaitersInOrder, n
  <2>4. CASE m # 1
    <3>1. g = queue[1] /\ queue # << >>
      BY <1>1, <1>3, <1>7, <2>1, <2>4 DEF n
    <3>2. g = Head(queue)
      BY <1>1, <3>1
    <3> HIDE DEF origin
    <3>3. WantsEvict(waiter[g])
      BY <1>5, <2>1, <2>2, <3>2 DEF IInv, OutrankedIsAsked, n
    <3> QED
      BY <1>10, <2>1, <3>3
  <2> QED
    BY <2>3, <2>4
<1> QED
  BY <1>11, <1>12, <1>13, <1>14, <1>15, <1>16 DEF IInv

-----------------------------------------------------------------------------
\* The invariant.

\* The inductive invariant holds of a new mutex.
LEMMA InitIInv == Init => IInv
<1> SUFFICES ASSUME Init PROVE IInv
  OBVIOUS
<1>1. queue = << >> /\ Len(queue) = 0
  BY DEF Init
<1>2. /\ waiter \in [Clients -> Cell]
      /\ pc \in [Clients -> PCs]
      /\ \A c \in Clients : pc[c] = "idle"
  BY NewCellType DEF Init, PCs
<1>3. TypeOK
  <2>1. queue \in Seq(Clients) /\ priority \in [Clients -> Priorities]
    BY DEF Init
  <2>2. Injective(queue) /\ \A c \in Clients : ~Queued(queue, c)
    BY <1>1 DEF Injective, Queued
  <2> QED
    BY <1>2, <2>1, <2>2 DEF TypeOK
<1>4. HeadHasLock /\ WaitersInOrder /\ OutrankedIsAsked
  BY <1>1 DEF HeadHasLock, WaitersInOrder, OutrankedIsAsked
<1>5. GuardHasLock /\ WakeInv
  BY <1>2 DEF GuardHasLock, HasGuard, WakeInv
<1> QED
  BY <1>3, <1>4, <1>5 DEF IInv

\* Every step preserves the inductive invariant.
LEMMA StepIInv == IInv /\ [Next]_vars => IInv'
<1> SUFFICES ASSUME IInv, [Next]_vars PROVE IInv'
  OBVIOUS
<1>1. ASSUME NEW c \in Clients, NEW p \in Priorities, TryLock(c, p) \/ Lock(c, p)
      PROVE  IInv'
  BY <1>1, GrantAtOnceKeepsIInv, WaitInQueueKeepsIInv DEF TryLock, Lock
<1>2. ASSUME NEW c \in Clients, PollLock(c) PROVE IInv'
  BY <1>2, PollLockKeepsIInv
<1>3. ASSUME NEW c \in Clients, CancelLock(c) PROVE IInv'
  BY <1>3, CancelLockKeepsIInv
<1>4. ASSUME NEW c \in Clients, DropGuard(c) PROVE IInv'
  BY <1>4, DropGuardKeepsIInv
<1>5. ASSUME NEW c \in Clients, PollEvicted(c) PROVE IInv'
  BY <1>5, PollEvictedKeepsIInv
<1>6. ASSUME NEW c \in Clients, CancelEvicted(c) PROVE IInv'
  BY <1>6, CancelEvictedKeepsIInv
<1>7. CASE UNCHANGED vars
  BY <1>7 DEF vars, IInv, TypeOK, HeadHasLock, GuardHasLock, HasGuard,
              WaitersInOrder, WakeInv, OutrankedIsAsked
<1> QED
  BY <1>1, <1>2, <1>3, <1>4, <1>5, <1>6, <1>7 DEF Next

\* In every reachable state, the strengthened invariant.
THEOREM Invariance == Spec => []IInv
  BY InitIInv, StepIInv, PTL DEF Spec

-----------------------------------------------------------------------------
\* What follows from it.

\* The state of the Mutex always has its declared shape, and the queue holds
\* exactly the clients with a request.
THEOREM TypeCorrect == Spec => []TypeOK
<1>1. IInv => TypeOK
  BY DEF IInv
<1> QED
  BY <1>1, Invariance, PTL

\* Exactly the head of the queue has the lock.
THEOREM HeadAlwaysHasLock == Spec => []HeadHasLock
<1>1. IInv => HeadHasLock
  BY DEF IInv
<1> QED
  BY <1>1, Invariance, PTL

\* The head alone having the lock, at most one client is inside.
LEMMA MutexInv == IInv => MutualExclusion
<1> SUFFICES ASSUME IInv, NEW c \in Clients, NEW d \in Clients,
                    HasGuard(c), HasGuard(d)
             PROVE  c = d
  BY DEF MutualExclusion
<1>1. ASSUME NEW e \in Clients, HasGuard(e) PROVE e = queue[1]
  <2>1. Queued(queue, e)
    BY <1>1 DEF IInv, TypeOK, HasGuard
  <2>2. PICK i \in 1 .. Len(queue) : queue[i] = e
    BY <2>1 DEF Queued
  <2>3. HasLock(waiter[e])
    BY <1>1 DEF IInv, GuardHasLock
  <2> QED
    BY <2>2, <2>3 DEF IInv, HeadHasLock
<1> QED
  BY <1>1

\* Two clients never reach the protected data at the same time.
THEOREM Exclusion == Spec => []MutualExclusion
  BY MutexInv, Invariance, PTL

\* The waiting requests are always in priority order.
THEOREM OrderKept == Spec => []WaitersInOrder
<1>1. IInv => WaitersInOrder
  BY DEF IInv
<1> QED
  BY <1>1, Invariance, PTL

\* A client that awaits what has already happened has been woken.
THEOREM WakeupsArrive == Spec => []NoLostWakeup
<1>1. IInv => NoLostWakeup
  BY DEF IInv, WakeInv, NoLostWakeup
<1> QED
  BY <1>1, Invariance, PTL

\* A client that has the lock while a higher priority waits has been asked
\* to leave.
THEOREM EvictionRequested == Spec => []OutrankedIsAsked
<1>1. IInv => OutrankedIsAsked
  BY DEF IInv
<1> QED
  BY <1>1, Invariance, PTL

-----------------------------------------------------------------------------
\* The place of a newcomer.

\* A newcomer's verdicts on the queue never contradict each other, if the
\* discipline treats ties alike.
THEOREM EveryoneHasAPlace ==
  ASSUME TiesAlike
  PROVE  Spec => []AlwaysAPlace
<1>1. IInv => AlwaysAPlace
  <2> SUFFICES ASSUME IInv, NEW p \in Priorities,
                      NEW i \in 1 .. Len(queue), NEW j \in 1 .. Len(queue), i < j
               PROVE  LET v == Verdict(p)
                      IN  /\ v[queue[i]] = "Greater" => v[queue[j]] = "Greater"
                          /\ v[queue[i]] = "Equal" => v[queue[j]] # "Less"
    BY DEF AlwaysAPlace, InAgreement
  <2>1. /\ queue \in Seq(Clients) /\ Len(queue) \in Nat
        /\ queue[i] \in Clients /\ queue[j] \in Clients
        /\ priority[queue[i]] \in Priorities /\ priority[queue[j]] \in Priorities
    BY LenProperties DEF IInv, TypeOK
  <2>2. CASE i = 1
    BY <2>1, <2>2 DEF IInv, HeadHasLock, Verdict
  <2>3. CASE i # 1
    <3>1. ~HasLock(waiter[queue[i]]) /\ ~HasLock(waiter[queue[j]])
      BY <2>1, <2>3 DEF IInv, HeadHasLock
    <3>2. Compare(priority[queue[j]], priority[queue[i]]) # "Greater"
      BY <2>1, <2>3 DEF IInv, WaitersInOrder
    <3>3. /\ Verdict(p)[queue[i]] = CompareNew(p, priority[queue[i]])
          /\ Verdict(p)[queue[j]] = CompareNew(p, priority[queue[j]])
      BY <2>1, <3>1 DEF Verdict
    <3> QED
      BY <2>1, <3>2, <3>3, NewcomersAgree
  <2> QED
    BY <2>2, <2>3
<1> QED
  BY <1>1, Invariance, PTL

\* A newcomer is behind whom it finds itself Less than, and ahead of whom it
\* finds itself Greater than; the others stay as they are.
LEMMA NewcomerIsPlaced ==
  ASSUME IInv, NEW d \in Clients, NEW p \in Priorities, Lock(d, p) \/ TryLock(d, p)
  PROVE  /\ ~Queued(queue, d) /\ priority'[d] = p
         /\ \A c \in Clients : Queued(queue, c) =>
              /\ Verdict(p)[c] = "Less" => Before(queue', c, d)
              /\ Verdict(p)[c] = "Greater" => ~Before(queue', c, d)
         /\ \A b, c \in Clients \ {d} :
              /\ Queued(queue', c) => Queued(queue, c)
              /\ Before(queue, b, c) => Before(queue', b, c)
<1>1. /\ queue \in Seq(Clients) /\ Injective(queue)
      /\ ~Queued(queue, d) /\ priority'[d] = p
  BY DEF IInv, TypeOK, Lock, TryLock, GrantAtOnce, WaitInQueue
<1>2. CASE queue = << >> /\ queue' = <<d>>
  BY <1>1, <1>2 DEF Queued, Before
<1>3. CASE WaitInQueue(d, p)
  <2>1. PICK i \in EnqueuePositions(queue, Verdict(p)) : queue' = InsertAt(queue, i, d)
    BY <1>3 DEF WaitInQueue
  <2> DEFINE v == Verdict(p)
  <2> HIDE DEF v
  <2>2. /\ queue' \in Seq(Clients) /\ Injective(queue')
        /\ \A c : Queued(queue', c) <=> c = d \/ Queued(queue, c)
        /\ \A b, c : b # d /\ c # d => (Before(queue', b, c) <=> Before(queue, b, c))
        /\ \A b : Before(queue', b, d) => b # d /\ v[b] # "Greater"
        /\ \A b : Before(queue', d, b) => b # d /\ v[b] # "Less"
    BY <1>1, <2>1, EnqueueOrder DEF v
  <2>3. ASSUME NEW c \in Clients, Queued(queue, c), v[c] = "Less" PROVE Before(queue', c, d)
    BY <1>1, <2>2, <2>3, BeforeIsOrder
  <2> QED
    BY <1>1, <2>2, <2>3 DEF v
<1> QED
  BY <1>2, <1>3 DEF Lock, TryLock, GrantAtOnce

\* All other steps leave those that stay queued in their order.
LEMMA OrderStays ==
  ASSUME IInv, [Next]_vars,
         ~\E d \in Clients, p \in Priorities : Lock(d, p) \/ TryLock(d, p)
  PROVE  \A b, c \in Clients :
           /\ Queued(queue', c) => Queued(queue, c)
           /\ Before(queue, b, c) /\ Queued(queue', b) /\ Queued(queue', c)
                => Before(queue', b, c)
<1>1. CASE queue' = queue
  BY <1>1
<1>2. ASSUME NEW x \in Clients, DropGuard(x)
      PROVE  \A b, c \in Clients :
               /\ Queued(queue', c) => Queued(queue, c)
               /\ Before(queue, b, c) /\ Queued(queue', b) /\ Queued(queue', c)
                    => Before(queue', b, c)
  <2>1. /\ queue' = Dequeue(queue, x) /\ queue \in Seq(Clients) /\ Injective(queue)
        /\ Queued(queue, x)
    BY <1>2 DEF IInv, TypeOK, DropGuard
  <2> QED
    BY <2>1, DequeueKeepsDistinct, DequeueOrder
<1> QED
  BY <1>1, <1>2
     DEF Next, PollLock, CancelLock, PollEvicted, CancelEvicted, vars

\* FIFO keeps its promise for every discipline that sends ties behind: nobody is
\* ever passed by a request of no higher priority that came later.
THEOREM NobodyIsOvertaken ==
  ASSUME TiesGoBehind
  PROVE  Spec => NoOvertaking
<1>1. ASSUME IInv, [Next]_vars, NEW c \in Clients, NEW d \in Clients,
             Queued(queue, c), Queued(queue', c), Queued(queue', d),
             Queued(queue, d) => Before(queue, c, d),
             Compare(priority'[d], priority[c]) # "Greater", c # d
      PROVE  Before(queue', c, d)
  <2>1. ASSUME NEW x \in Clients, NEW p \in Priorities, Lock(x, p) \/ TryLock(x, p)
        PROVE  Before(queue', c, d)
    <3>1. CASE x = d
      <4>1. priority[c] \in Priorities /\ Compare(p, priority[c]) # "Greater"
        BY <1>1, <2>1, <3>1, NewcomerIsPlaced DEF IInv, TypeOK
      <4>2. CompareNew(p, priority[c]) = "Less"
        BY <4>1, CompareIsPreorder DEF TiesGoBehind
      <4>3. Verdict(p)[c] = "Less"
        BY <4>2 DEF Verdict
      <4> QED
        BY <1>1, <2>1, <3>1, <4>3, NewcomerIsPlaced
    <3>2. CASE x # d
      <4>1. x # c /\ Queued(queue, d)
        BY <1>1, <2>1, <3>2, NewcomerIsPlaced
      <4> QED
        BY <1>1, <2>1, <3>2, <4>1, NewcomerIsPlaced
    <3> QED
      BY <3>1, <3>2
  <2>2. ASSUME ~\E x \in Clients, p \in Priorities : Lock(x, p) \/ TryLock(x, p)
        PROVE  Before(queue', c, d)
    BY <1>1, <2>2, OrderStays
  <2> QED
    BY <2>1, <2>2
<1>2. IInv /\ [Next]_vars =>
        [\A c, d \in Clients :
           /\ Queued(queue, c) /\ Queued(queue', c)
           /\ Queued(queue', d) /\ (Queued(queue, d) => Before(queue, c, d))
           /\ Compare(priority'[d], priority[c]) # "Greater"
           /\ c # d
           => Before(queue', c, d)]_vars
  BY <1>1
<1> QED
  BY <1>2, Invariance, PTL DEF Spec, NoOvertaking

\* LIFO keeps its promise for every discipline that sends ties ahead: a newcomer
\* is behind those that have the lock or outrank it, and ahead of all others.
THEOREM NewestGoesFirst ==
  ASSUME TiesGoAhead
  PROVE  Spec => NewestFirst
<1>1. ASSUME IInv, [Next]_vars, NEW c \in Clients, NEW d \in Clients,
             Queued(queue, c), ~Queued(queue, d), Queued(queue', d)
      PROVE  Before(queue', c, d)
               <=> \/ HasLock(waiter[c])
                   \/ Compare(priority'[d], priority[c]) = "Less"
  <2>1. PICK x \in Clients, p \in Priorities : Lock(x, p) \/ TryLock(x, p)
    BY <1>1, OrderStays
  <2>2. x = d
    BY <1>1, <2>1, NewcomerIsPlaced
  <2>3. priority'[d] = p /\ priority[c] \in Priorities
    BY <1>1, <2>1, <2>2, NewcomerIsPlaced DEF IInv, TypeOK
  <2>4. \/ Verdict(p)[c] = "Less" /\ (HasLock(waiter[c]) \/ Compare(p, priority[c]) = "Less")
        \/ /\ Verdict(p)[c] = "Greater"
           /\ ~HasLock(waiter[c]) /\ Compare(p, priority[c]) # "Less"
    <3>1. Verdict(p)[c] = IF HasLock(waiter[c]) THEN "Less" ELSE CompareNew(p, priority[c])
      BY DEF Verdict
    <3>2. CompareNew(p, priority[c])
            = IF Compare(p, priority[c]) = "Less" THEN "Less" ELSE "Greater"
      BY <2>3, CompareIsPreorder DEF TiesGoAhead
    <3> QED
      BY <3>1, <3>2
  <2> QED
    BY <1>1, <2>1, <2>2, <2>3, <2>4, NewcomerIsPlaced
<1>2. IInv /\ [Next]_vars =>
        [\A c, d \in Clients :
           /\ Queued(queue, c) /\ Queued(queue', c)
           /\ ~Queued(queue, d) /\ Queued(queue', d)
           => (Before(queue', c, d)
                 <=> \/ HasLock(waiter[c])
                     \/ Compare(priority'[d], priority[c]) = "Less")]_vars
  BY <1>1
<1> QED
  BY <1>2, Invariance, PTL DEF Spec, NewestFirst

-----------------------------------------------------------------------------
\* The refinement of PriorityLock.

\* Of the entries of a queue, those behind the head.
LEMMA BehindHead ==
  ASSUME NEW q \in Seq(Clients), Injective(q), q # << >>, NEW d
  PROVE  /\ Head(q) \in Clients /\ Head(q) = q[1] /\ Queued(q, Head(q))
         /\ (\E i \in 2 .. Len(q) : q[i] = d) <=> Queued(q, d) /\ d # Head(q)
<1>1. Len(q) \in Nat \ {0} /\ Head(q) = q[1] /\ Head(q) \in Clients
  BY EmptySeq, LenProperties
<1>2. ASSUME NEW i \in 2 .. Len(q), q[i] = d PROVE Queued(q, d) /\ d # Head(q)
  BY <1>1, <1>2 DEF Queued, Injective
<1>3. ASSUME Queued(q, d), d # Head(q) PROVE \E i \in 2 .. Len(q) : q[i] = d
  BY <1>1, <1>3 DEF Queued
<1> QED
  BY <1>1, <1>2, <1>3 DEF Queued

\* A new mutex is a free lock.
LEMMA InitRefines == Init => Abstract!Init
BY DEF Init, Abstract!Init, Holder, Waiting, Inside, HasGuard

\* A grant on the empty queue is a Request that is granted.
LEMMA GrantAtOnceRefines ==
  ASSUME IInv, IInv', NEW c \in Clients, NEW p \in Priorities, GrantAtOnce(c, p)
  PROVE  Abstract!Request(c, p)
<1>1. /\ queue = << >> /\ queue' = <<c>>
      /\ pc[c] = "idle" /\ pc' = [pc EXCEPT ![c] = "guard"]
      /\ priority' = [priority EXCEPT ![c] = p]
  BY DEF GrantAtOnce
<1>2. Holder = NoClient /\ Holder' = c /\ c # NoClient
  BY <1>1, NoClientAssumption DEF Holder
<1>3. Waiting = {} /\ Waiting' = {}
  BY <1>1 DEF Waiting
<1>4. Inside' = Inside \union {c}
  BY <1>1 DEF Inside, HasGuard, IInv, TypeOK
<1> QED
  BY <1>1, <1>2, <1>3, <1>4 DEF Abstract!Request

\* Queueing is a Request that waits.
LEMMA WaitInQueueRefines ==
  ASSUME IInv, IInv', NEW c \in Clients, NEW p \in Priorities, WaitInQueue(c, p)
  PROVE  Abstract!Request(c, p)
<1>1. /\ queue \in Seq(Clients) /\ Injective(queue) /\ queue # << >>
      /\ pc \in [Clients -> PCs]
      /\ pc[c] = "idle" /\ pc' = [pc EXCEPT ![c] = "polling"]
      /\ priority' = [priority EXCEPT ![c] = p]
  BY DEF WaitInQueue, IInv, TypeOK
<1>2. ~Queued(queue, c)
  BY <1>1 DEF IInv, TypeOK
<1>3. PICK i \in EnqueuePositions(queue, Verdict(p)) :
        queue' = InsertAt(queue, i, c)
  BY DEF WaitInQueue
<1>4. i \in 1 .. Len(queue) + 1
  BY <1>3 DEF EnqueuePositions
<1>5. /\ Injective(queue')
      /\ \A d : Queued(queue', d) <=> d = c \/ Queued(queue, d)
  BY <1>1, <1>2, <1>3, <1>4, InsertKeepsDistinct
<1>6. /\ queue' \in Seq(Clients) /\ Len(queue') = Len(queue) + 1
      /\ 1 < i => queue'[1] = queue[1]
  <2>1. Len(queue) \in Nat \ {0}
    BY <1>1, EmptySeq, LenProperties
  <2>2. /\ InsertAt(queue, i, c) \in Seq(Clients)
        /\ Len(InsertAt(queue, i, c)) = Len(queue) + 1
        /\ \A j \in 1 .. Len(queue) + 1 :
             InsertAt(queue, i, c)[j] =
               IF j < i THEN queue[j] ELSE IF j = i THEN c ELSE queue[j - 1]
    BY <1>1, <1>4, InsertAtProperties
  <2> QED
    BY <1>3, <2>1, <2>2
<1>7. 1 < i
  <2>1. Len(queue) \in Nat \ {0} /\ queue[1] \in Clients
    BY <1>1, EmptySeq, LenProperties
  <2>2. HasLock(waiter[queue[1]])
    BY <2>1 DEF IInv, HeadHasLock
  <2>3. Verdict(p)[queue[1]] = "Less"
    BY <2>1, <2>2 DEF Verdict
  <2>4. \A j \in i .. Len(queue) : Verdict(p)[queue[j]] # "Less"
    BY <1>3 DEF EnqueuePositions
  <2> QED
    BY <1>4, <2>1, <2>3, <2>4
<1>8. queue' # << >>
  BY <1>1, <1>6, LenProperties
<1>9. Holder = Head(queue) /\ Holder' = Head(queue) /\ Head(queue) # c
  <2>1. Head(queue) = queue[1] /\ Queued(queue, Head(queue))
    BY <1>1, BehindHead
  <2>2. Head(queue') = queue'[1]
    BY <1>5, <1>6, <1>8, BehindHead
  <2> QED
    BY <1>1, <1>2, <1>6, <1>7, <1>8, <2>1, <2>2 DEF Holder
<1>10. \A d \in Clients :
         /\ d \in Waiting <=> Queued(queue, d) /\ d # Holder
         /\ d \in Waiting' <=> Queued(queue', d) /\ d # Holder'
  BY <1>1, <1>5, <1>6, <1>8, BehindHead DEF Waiting, Holder
<1>11. Waiting' = Waiting \union {c} /\ c \notin Waiting
  <2>1. Waiting \subseteq Clients /\ Waiting' \subseteq Clients
    BY DEF Waiting
  <2> QED
    BY <1>2, <1>5, <1>9, <1>10, <2>1
<1>12. Inside' = Inside
  BY <1>1 DEF Inside, HasGuard
<1>13. Holder # NoClient
  BY <1>1, <1>9, BehindHead, NoClientAssumption
<1> QED
  BY <1>1, <1>9, <1>11, <1>12, <1>13 DEF Abstract!Request

\* A dropped guard is a Release, a dropped request a Withdraw.
LEMMA DropGuardRefines ==
  ASSUME IInv, IInv', NEW c \in Clients, DropGuard(c)
  PROVE  Abstract!Release(c) \/ Abstract!Withdraw(c)
<1> DEFINE m == IndexOf(queue, c)
<1>1. /\ queue \in Seq(Clients) /\ Injective(queue) /\ Len(queue) \in Nat
      /\ pc \in [Clients -> PCs]
      /\ pc[c] \in {"guard", "dropping"} /\ pc' = [pc EXCEPT ![c] = "idle"]
      /\ priority' = priority
  BY LenProperties DEF DropGuard, IInv, TypeOK
<1>2. Queued(queue, c)
  BY <1>1 DEF IInv, TypeOK
<1>3. queue # << >>
  BY <1>2 DEF Queued
<1>4. m \in 1 .. Len(queue) /\ queue[m] = c
  BY <1>1, <1>2, IndexOfProperties
<1>5. /\ queue' \in Seq(Clients) /\ Len(queue') = Len(queue) - 1
      /\ \A j \in 1 .. Len(queue) - 1 :
           queue'[j] = IF j < m THEN queue[j] ELSE queue[j + 1]
      /\ Injective(queue')
      /\ \A d : Queued(queue', d) <=> d # c /\ Queued(queue, d)
  BY <1>1, <1>2, DequeueKeepsDistinct DEF DropGuard
<1> HIDE DEF m
<1>6. Holder = Head(queue) /\ Holder = queue[1] /\ Holder \in Clients
  BY <1>1, <1>3, BehindHead DEF Holder
<1>7. Waiting \subseteq Clients /\ Waiting' \subseteq Clients
  BY DEF Waiting
<1>8. \A d \in Clients : d \in Waiting <=> Queued(queue, d) /\ d # Holder
  BY <1>1, <1>3, BehindHead DEF Waiting, Holder
<1>9. ASSUME queue' # << >>
      PROVE  /\ Holder' = queue'[1] /\ Holder' \in Clients /\ Queued(queue', Holder')
             /\ \A d \in Clients : d \in Waiting' <=> Queued(queue', d) /\ d # Holder'
  BY <1>5, <1>9, BehindHead DEF Waiting, Holder
<1>10. Inside' = Inside \ {c}
  BY <1>1 DEF Inside, HasGuard
<1>11. CASE m = 1
  <2>1. c = Holder
    BY <1>4, <1>6, <1>11
  <2>2. CASE queue' = << >>
    <3>1. Waiting = {} /\ Waiting' = {} /\ Holder' = NoClient
      <4>1. Len(queue) = 1 /\ Len(queue') = 0
        BY <1>1, <1>5, <2>2
      <4> QED
        BY <2>2, <4>1 DEF Waiting, Holder
    <3> QED
      BY <1>1, <1>10, <2>1, <3>1 DEF Abstract!Release
  <2>3. CASE queue' # << >>
    <3> DEFINE d == Holder'
    <3>1. d \in Waiting /\ Waiting' = Waiting \ {d}
      BY <1>5, <1>7, <1>8, <1>9, <2>1, <2>3
    <3>2. 2 \in 2 .. Len(queue) /\ d = queue[2]
      <4>1. Len(queue') \in Nat \ {0}
        BY <1>5, <2>3, EmptySeq, LenProperties
      <4> QED
        BY <1>1, <1>5, <1>9, <1>11, <2>3, <4>1
    <3> HIDE DEF d
    <3>3. Abstract!Foremost(d)
      <4> SUFFICES ASSUME NEW e \in Waiting
                   PROVE  Compare(priority[e], priority[d]) # "Greater"
        BY DEF Abstract!Foremost
      <4>1. PICK i \in 2 .. Len(queue) : queue[i] = e
        BY DEF Waiting
      <4>2. CASE i = 2
        <5>1. e = d /\ priority[e] \in Priorities
          BY <1>7, <3>2, <4>1, <4>2 DEF IInv, TypeOK
        <5> QED
          BY <5>1, PriorityContract DEF Contract
      <4>3. CASE i # 2
        BY <1>1, <3>2, <4>1, <4>3 DEF IInv, WaitersInOrder
      <4> QED
        BY <4>2, <4>3
    <3> QED
      BY <1>1, <1>10, <2>1, <3>1, <3>3 DEF Abstract!Release, d
  <2> QED
    BY <2>2, <2>3
<1>12. CASE m # 1
  <2>1. c # Holder
    BY <1>1, <1>4, <1>6, <1>12 DEF Injective
  <2>2. queue' # << >>
    BY <1>2, <1>4, <1>5, <1>12
  <2>3. Holder' = Holder
    <3>1. Len(queue) - 1 >= 1 /\ queue'[1] = queue[1]
      BY <1>1, <1>4, <1>5, <1>12
    <3> QED
      BY <1>6, <1>9, <2>2, <3>1
  <2>4. c \in Waiting /\ Waiting' = Waiting \ {c}
    BY <1>2, <1>5, <1>7, <1>8, <1>9, <2>1, <2>2, <2>3
  <2>5. c \notin Inside
    <3>1. ~HasLock(waiter[c])
      BY <1>4, <1>12 DEF IInv, HeadHasLock
    <3> QED
      BY <3>1 DEF IInv, GuardHasLock, Inside
  <2> QED
    BY <1>1, <1>10, <2>3, <2>4, <2>5 DEF Abstract!Withdraw
<1> QED
  BY <1>11, <1>12

\* Every step of the Mutex is a step or a stutter of the PriorityLock.
LEMMA StepRefines == IInv /\ IInv' /\ [Next]_vars => [Abstract!Next]_Abstract!vars
<1> SUFFICES ASSUME IInv, IInv', [Next]_vars PROVE [Abstract!Next]_Abstract!vars
  OBVIOUS
<1>1. ASSUME NEW c \in Clients, NEW p \in Priorities, TryLock(c, p) \/ Lock(c, p)
      PROVE  Abstract!Request(c, p)
  BY <1>1, GrantAtOnceRefines, WaitInQueueRefines DEF TryLock, Lock
<1>2. ASSUME NEW c \in Clients, PollLock(c)
      PROVE  Abstract!Enter(c) \/ UNCHANGED Abstract!vars
  <2>1. UNCHANGED <<Holder, Waiting, priority>>
    BY <1>2 DEF PollLock, Holder, Waiting
  <2>2. CASE HasLock(waiter[c])
    <3>1. Inside' = Inside \union {c}
      BY <1>2, <2>2 DEF PollLock, Inside, HasGuard, IInv, TypeOK
    <3>2. Queued(queue, c)
      BY <1>2 DEF PollLock, IInv, TypeOK
    <3>3. c = Holder
      <4>1. PICK i \in 1 .. Len(queue) : queue[i] = c
        BY <3>2 DEF Queued
      <4>2. i = 1
        BY <2>2, <4>1 DEF IInv, HeadHasLock
      <4>3. queue # << >> /\ queue \in Seq(Clients) /\ Injective(queue)
        BY <4>1 DEF IInv, TypeOK
      <4> QED
        BY <4>1, <4>2, <4>3, BehindHead DEF Holder
    <3> QED
      BY <2>1, <3>1, <3>3 DEF Abstract!Enter
  <2>3. CASE ~HasLock(waiter[c])
    <3>1. Inside' = Inside
      BY <1>2, <2>3 DEF PollLock, Inside, HasGuard, IInv, TypeOK
    <3> QED
      BY <2>1, <3>1 DEF Abstract!vars
  <2> QED
    BY <2>2, <2>3
<1>3. ASSUME NEW c \in Clients, CancelLock(c) \/ PollEvicted(c) \/ CancelEvicted(c)
      PROVE  UNCHANGED Abstract!vars
  <2>1. UNCHANGED <<Holder, Waiting, priority>>
    BY <1>3 DEF CancelLock, PollEvicted, CancelEvicted, Holder, Waiting
  <2>2. Inside' = Inside
    BY <1>3 DEF CancelLock, PollEvicted, CancelEvicted, Inside, HasGuard, IInv, TypeOK
  <2> QED
    BY <2>1, <2>2 DEF Abstract!vars
<1>4. ASSUME NEW c \in Clients, DropGuard(c)
      PROVE  Abstract!Release(c) \/ Abstract!Withdraw(c)
  BY <1>4, DropGuardRefines
<1>5. CASE UNCHANGED vars
  BY <1>5 DEF vars, Abstract!vars, Holder, Waiting, Inside, HasGuard
<1> QED
  BY <1>1, <1>2, <1>3, <1>4, <1>5 DEF Next, Abstract!Next

\* The Mutex implements the abstract priority lock.
THEOREM Refinement == Spec => ImplementsPriorityLock
  BY Invariance, InitRefines, StepRefines, PTL
     DEF Spec, ImplementsPriorityLock, Abstract!Spec
=============================================================================
