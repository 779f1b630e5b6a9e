------------------------------- MODULE Mutex --------------------------------
(***************************************************************************)
(* The priority mutex of mutex.rs.                                         *)
(*                                                                         *)
(* Every request is a node of one queue.  The node at the head has the     *)
(* flag HAS_LOCK and its client the lock; the nodes behind it wait in      *)
(* priority order.  An operation on the queue runs under the write side of *)
(* the mutex's RwLock and is one action, with the Waiter operations it     *)
(* performs before it unlocks.  The steps of a client are interleaved      *)
(* freely: between two actions of a request, others may be queued, granted,*)
(* asked to leave or dropped.                                              *)
(***************************************************************************)
EXTENDS PriorityQueue, WaiterCell

CONSTANTS
  Clients,   \* the tasks that use the mutex, each for one request at a time
  NoClient,  \* nobody, in the abstract lock
  Evict      \* whether the feature `evict' is built in

ASSUME NoClientAssumption == NoClient \notin Clients
ASSUME EvictAssumption == Evict \in BOOLEAN

VARIABLES
  queue,      \* Mutex::queue: the clients whose nodes are queued, head first
  priority,   \* MutexWaiter::priority of each client's latest node
  waiter,     \* MutexWaiter::waiter of each client's node
  pc          \* how far each client's request is

vars == <<queue, priority, waiter, pc>>

(***************************************************************************)
(* idle      -- no request                                                 *)
(* polling   -- lock() has queued the node; its future is in its first poll*)
(* parked    -- the lock() future has returned Pending                     *)
(* dropping  -- the lock() future was dropped: its waker is cleared, the   *)
(*              MutexGuard inside it is about to be dropped                *)
(* guard     -- the client has its MutexGuard                              *)
(* listening -- the client has its guard, and awaits guard.evicted()       *)
(***************************************************************************)
PCs == {"idle", "polling", "parked", "dropping", "guard", "listening"}

\* The clients that can reach the protected data.
HasGuard(c) == pc[c] \in {"guard", "listening"}

-----------------------------------------------------------------------------

\* Mutant of Verdict: the node that has the lock is not pinned.
VerdictUnpinned(p) == [d \in Clients |-> CompareNew(p, priority[d])]

\* MutexWaiter::compare_new of a new node of priority p against every queued
\* node: the node that has the lock stays at the head.
Verdict(p) ==
  [d \in Clients |-> IF HasLock(waiter[d])
                       THEN "Less"
                       ELSE CompareNew(p, priority[d])]

\* Mutant of EvictHead: the operands of the comparison swapped.
EvictHeadSwapped(p) ==
  IF Evict /\ Compare(priority[Head(queue)], p) = "Greater"
    THEN [waiter EXCEPT ![Head(queue)] = AddFlag(@, "WANTS_EVICT")]
    ELSE waiter

\* The waiters once the head has been asked to leave for a request of
\* priority p, if it has the lower priority.
EvictHead(p) ==
  IF Evict /\ Compare(p, priority[Head(queue)]) = "Greater"
    THEN [waiter EXCEPT ![Head(queue)] = AddFlag(@, "WANTS_EVICT")]
    ELSE waiter

\* The lock is free: the request is granted without waiting.
GrantAtOnce(c, p) ==
  /\ pc[c] = "idle"
  /\ queue = << >>
  /\ queue' = <<c>>
  /\ priority' = [priority EXCEPT ![c] = p]
  /\ waiter' = [waiter EXCEPT ![c] = NewCell(TRUE)]
  /\ pc' = [pc EXCEPT ![c] = "guard"]

\* Mutex::try_lock.  On a queue that is not empty it changes nothing.
TryLock(c, p) == GrantAtOnce(c, p)

\* The lock is taken: the request is queued, and the head asked to leave.
WaitInQueue(c, p) ==
  /\ pc[c] = "idle"
  /\ queue # << >>
  /\ \E i \in EnqueuePositions(queue, Verdict(p)) :
       queue' = InsertAt(queue, i, c)
  /\ priority' = [priority EXCEPT ![c] = p]
  /\ waiter' = [EvictHead(p) EXCEPT ![c] = NewCell(FALSE)]
  /\ pc' = [pc EXCEPT ![c] = "polling"]

\* Mutex::lock up to the end of its critical section.
Lock(c, p) == GrantAtOnce(c, p) \/ WaitInQueue(c, p)

\* A poll of the lock() future, by the executor after a wake-up or by the
\* task on its own account: Ready hands the guard over.
PollLock(c) ==
  /\ pc[c] \in {"polling", "parked"}
  /\ IF HasLock(waiter[c])
       THEN /\ waiter' = [waiter EXCEPT ![c] = ClearWaker(@)]
            /\ pc' = [pc EXCEPT ![c] = "guard"]
       ELSE /\ waiter' = [waiter EXCEPT ![c] = Park(@)]
            /\ pc' = [pc EXCEPT ![c] = "parked"]
  /\ UNCHANGED <<queue, priority>>

\* Mutant of CancelLock: there is no guard yet whose drop would dequeue.
CancelLockLeaks(c) ==
  /\ pc[c] = "parked"
  /\ waiter' = [waiter EXCEPT ![c] = ClearWaker(@)]
  /\ pc' = [pc EXCEPT ![c] = "idle"]
  /\ UNCHANGED <<queue, priority>>

\* The lock() future is dropped before it is ready; WaiterFlagFut::drop.
CancelLock(c) ==
  /\ pc[c] = "parked"
  /\ waiter' = [waiter EXCEPT ![c] = ClearWaker(@)]
  /\ pc' = [pc EXCEPT ![c] = "dropping"]
  /\ UNCHANGED <<queue, priority>>

\* Mutant of HandOver: was_head is not asked; the next node is started.
HandOverToNext(c, q) ==
  LET left == [waiter EXCEPT ![c] = NewCell(FALSE)]
      i    == IndexOf(queue, c)
  IN IF i <= Len(q) THEN [left EXCEPT ![q[i]] = AddFlag(@, "HAS_LOCK")] ELSE left

\* The waiters once the node of c has left and, if it had the lock, the new
\* head q[1] has been started.
HandOver(c, q) ==
  LET left == [waiter EXCEPT ![c] = NewCell(FALSE)]
  IN IF HasLock(waiter[c]) /\ q # << >>
       THEN [left EXCEPT ![Head(q)] = AddFlag(@, "HAS_LOCK")]
       ELSE left

\* MutexGuard::drop, of a guard in use or of the guard in a cancelled request.
DropGuard(c) ==
  /\ pc[c] \in {"guard", "dropping"}
  /\ queue' = Dequeue(queue, c)
  /\ waiter' = HandOver(c, queue')
  /\ pc' = [pc EXCEPT ![c] = "idle"]
  /\ UNCHANGED priority

\* A poll of guard.evicted().  On Ready the future is over.
PollEvicted(c) ==
  /\ Evict
  /\ HasGuard(c)
  /\ IF WantsEvict(waiter[c])
       THEN /\ waiter' = [waiter EXCEPT ![c] = ClearWaker(@)]
            /\ pc' = [pc EXCEPT ![c] = "guard"]
       ELSE /\ waiter' = [waiter EXCEPT ![c] = Park(@)]
            /\ pc' = [pc EXCEPT ![c] = "listening"]
  /\ UNCHANGED <<queue, priority>>

\* The evicted() future is dropped unfinished; WaiterFlagFut::drop.
CancelEvicted(c) ==
  /\ pc[c] = "listening"
  /\ waiter' = [waiter EXCEPT ![c] = ClearWaker(@)]
  /\ pc' = [pc EXCEPT ![c] = "guard"]
  /\ UNCHANGED <<queue, priority>>

-----------------------------------------------------------------------------

\* Mutex::new: an empty queue.
Init ==
  /\ queue = << >>
  /\ priority \in [Clients -> Priorities]
  /\ waiter = [c \in Clients |-> NewCell(FALSE)]
  /\ pc = [c \in Clients |-> "idle"]

Next ==
  \E c \in Clients :
    \/ \E p \in Priorities : TryLock(c, p) \/ Lock(c, p)
    \/ PollLock(c)
    \/ CancelLock(c)
    \/ DropGuard(c)
    \/ PollEvicted(c)
    \/ CancelEvicted(c)

Spec == Init /\ [][Next]_vars

(***************************************************************************)
(* What the code relies on its surroundings for: a poll or a drop under    *)
(* way goes on, the executor polls a task that was woken, and a client that*)
(* keeps returning to its guard gives it up in the end.  Nobody has to     *)
(* cancel anything, and a client may listen for eviction for ever.         *)
(***************************************************************************)
Fairness ==
  \A c \in Clients :
    /\ WF_vars(PollLock(c) /\ (pc[c] = "polling" \/ waiter[c].scheduled))
    /\ WF_vars(PollEvicted(c) /\ waiter[c].scheduled)
    /\ WF_vars(DropGuard(c) /\ pc[c] = "dropping")
    /\ SF_vars(DropGuard(c))

FairSpec == Spec /\ Fairness

-----------------------------------------------------------------------------

\* The state has its declared shape, and the queue holds exactly the clients
\* that have a request, each once.
TypeOK ==
  /\ queue \in Seq(Clients)
  /\ priority \in [Clients -> Priorities]
  /\ waiter \in [Clients -> Cell]
  /\ pc \in [Clients -> PCs]
  /\ Injective(queue)
  /\ \A c \in Clients : Queued(queue, c) <=> pc[c] # "idle"

\* At most one client at a time can reach the data (the unsafe Deref and
\* DerefMut of MutexGuard depend on it).
MutualExclusion ==
  \A c, d \in Clients : HasGuard(c) /\ HasGuard(d) => c = d

\* The lock is neither lost nor granted twice: the head of the queue has
\* HAS_LOCK and no other node does.  `was_head' in MutexGuard::drop and the
\* pinning in compare_new take this for granted.
HeadHasLock ==
  \A i \in 1 .. Len(queue) : HasLock(waiter[queue[i]]) <=> i = 1

\* The waiting part of the queue is in priority order, so that the node
\* MutexGuard::drop starts is one that nobody outranks.
WaitersInOrder ==
  \A i, j \in 2 .. Len(queue) :
    i < j => Compare(priority[queue[j]], priority[queue[i]]) # "Greater"

\* A request always has a place in the queue: however the nodes came there, a
\* newcomer's verdicts on them never contradict each other, so that every queue
\* places it alike.
AlwaysAPlace ==
  \A p \in Priorities : InAgreement(queue, Verdict(p))

\* A task that waits for what has already happened has been woken: neither
\* the grant of the lock nor the request to leave is lost on it.
NoLostWakeup ==
  \A c \in Clients :
    /\ pc[c] = "parked" /\ HasLock(waiter[c]) => waiter[c].scheduled
    /\ pc[c] = "listening" /\ WantsEvict(waiter[c]) => waiter[c].scheduled

\* Whenever a request outranks the client that has the lock, that client has
\* been asked to leave -- also when it was queued before the holder was
\* granted, or the holder was passed the lock after it.
OutrankedIsAsked ==
  \A i \in 2 .. Len(queue) :
    Evict /\ Compare(priority[queue[i]], priority[Head(queue)]) = "Greater"
      => WantsEvict(waiter[Head(queue)])

\* Nobody passes a waiting request of its own or a higher priority, whatever
\* happens later: the promise of the discipline FIFO.
NoOvertaking ==
  [][\A c, d \in Clients :
       /\ Queued(queue, c) /\ Queued(queue', c)
       /\ Queued(queue', d) /\ (Queued(queue, d) => Before(queue, c, d))
       /\ Compare(priority'[d], priority[c]) # "Greater"
       /\ c # d
       => Before(queue', c, d)]_vars

\* A LIFO newcomer of the same priority goes ahead of all that wait already,
\* and only ahead of those: the client that has the lock is not displaced.
NewestFirst ==
  [][\A c, d \in Clients :
       /\ Queued(queue, c) /\ Queued(queue', c)
       /\ ~Queued(queue, d) /\ Queued(queue', d)
       => (Before(queue', c, d)
             <=> \/ HasLock(waiter[c])
                 \/ Compare(priority'[d], priority[c]) = "Less")]_vars

\* A priority inversion is temporary: a client that has the lock while a
\* higher priority waits, even one that only listens for eviction, gives way.
Outranked(c) ==
  /\ Queued(queue, c) /\ HasLock(waiter[c])
  /\ \E d \in Clients : /\ Queued(queue, d)
                        /\ Compare(priority[d], priority[c]) = "Greater"

InversionsEnd == \A c \in Clients : Outranked(c) ~> ~Outranked(c)

\* A granted request gets its guard or is dropped, whoever else keeps asking.
GrantsArrive ==
  \A c \in Clients : pc[c] = "parked" /\ HasLock(waiter[c]) ~> pc[c] # "parked"

-----------------------------------------------------------------------------

\* Mutex implements PriorityLock: the head of the queue holds the lock, the
\* rest wait, and a guard lets its client in.
Holder  == IF queue = << >> THEN NoClient ELSE Head(queue)
Waiting == {c \in Clients : \E i \in 2 .. Len(queue) : queue[i] = c}
Inside  == {c \in Clients : HasGuard(c)}

Abstract ==
  INSTANCE PriorityLock WITH
    holder <- Holder, waiting <- Waiting, inside <- Inside

ImplementsPriorityLock == Abstract!Spec
=============================================================================
