----------------------------- MODULE Semaphore ------------------------------
(***************************************************************************)
(* The priority semaphore of semaphore.rs.                                 *)
(*                                                                         *)
(* One queue holds a node per permit and per request: first the nodes that *)
(* hold permits, then those that wait, each part in priority order.  What  *)
(* an operation does under the write lock is one action, up to its call of *)
(* activate_waiters; each turn of the loop there is one more.  Polls and   *)
(* drops of futures interleave with all of them.                           *)
(*                                                                         *)
(* The unsigned arithmetic is usize's, with usize::MAX a constant.         *)
(***************************************************************************)
EXTENDS PriorityQueue, WaiterCell

CONSTANTS
  Nodes,      \* the requests and permits there can be at a time
  NoNode,     \* None
  Evict,      \* whether the feature `evict' is built in
  Total,      \* whether the feature `semaphore-total' is built in
  UsizeMax,   \* usize::MAX
  Counts,     \* the permit counts clients ask for, add and forget
  MaxSupply   \* the bound of the model on the permits associated with it

\* semaphore-total builds with evict only: it calls Waiter::evict.
ASSUME FeatureAssumption == Evict \in BOOLEAN /\ Total \in BOOLEAN /\ (Total => Evict)
ASSUME UsizeAssumption == UsizeMax \in Nat /\ Counts \subseteq 0 .. UsizeMax
ASSUME NodesAssumption == IsFiniteSet(Nodes) /\ NoNode \notin Nodes
ASSUME PrioritiesAssumption == Priorities # {}
ASSUME SupplyAssumption == MaxSupply \in Nat

\* MAX_PERMITS: usize::MAX >> 1.  The bit above it is WITHIN_TOTAL_BIT.
MaxPermits == UsizeMax \div 2

VARIABLES
  queue,       \* SemaphoreInner::queue: the queued nodes, head first
  available,   \* SemaphoreInner::available
  total,       \* SemaphoreInner::total; without the feature, a history
               \* variable that no action reads
  entry,       \* priority, count and WITHIN_TOTAL_BIT of each node
  waiter,      \* SemaphoreWaiter::waiter of each node
  walk,        \* `next' of activate_waiters: the node its loop is at; or NoNode
  pc           \* how far the request or permit of each node is

vars == <<queue, available, total, entry, waiter, walk, pc>>

Entries == [priority : Priorities, count : 0 .. UsizeMax, within : BOOLEAN]

\* What is recorded for a node that is not in use.
Blank == [priority |-> CHOOSE p \in Priorities : TRUE, count |-> 0, within |-> FALSE]

(***************************************************************************)
(* idle      -- the node is not in use                                     *)
(* polling   -- the request is queued; its future is in its first poll     *)
(* parked    -- the request's future has returned Pending                  *)
(* dropping  -- the future is over without a permit, cancelled or refused; *)
(*              the SemaphorePermitWaiter is about to be dropped           *)
(* held      -- the client has its SemaphorePermit                         *)
(* listening -- the client has its permit, and awaits permit.evicted()     *)
(***************************************************************************)
PCs == {"idle", "polling", "parked", "dropping", "held", "listening"}

Held(n)    == Queued(queue, n) /\ HasLock(waiter[n])
Pending(n) == Queued(queue, n) /\ ~HasLock(waiter[n])
Prio(n)    == entry[n].priority
Count(n)   == entry[n].count

\* Nobody is inside activate_waiters, which runs under the write lock: that is
\* free for another operation to take.
Unlocked == walk = NoNode

-----------------------------------------------------------------------------
\* The order of the queue.

\* then_with(compare of the counts, reversed): the smaller request first.
SmallerFirst(verdict, c, d) ==
  IF verdict # "Equal" THEN verdict
  ELSE IF c < d THEN "Greater" ELSE IF c > d THEN "Less" ELSE "Equal"

\* Mutant of Verdict: holders are not kept before requests.
VerdictMixed(e, held, w) ==
  [d \in Nodes |->
     SmallerFirst(CompareNew(e.priority, Prio(d)), e.count, Count(d))]

\* SemaphoreWaiter::compare_new of a node with the entry e against all others,
\* where w holds their waiters: holders come before requests.
Verdict(e, held, w) ==
  [d \in Nodes |->
     IF held # HasLock(w[d]) THEN (IF held THEN "Greater" ELSE "Less")
     ELSE IF held THEN CompareNew(e.priority, Prio(d))
     ELSE SmallerFirst(CompareNew(e.priority, Prio(d)), e.count, Count(d))]

\* The queues that `enqueue' may make of q for the node n.
Enqueued(q, n, e, held, w) ==
  { InsertAt(q, i, n) : i \in EnqueuePositions(q, Verdict(e, held, w)) }

\* SemaphoreWaiter::compare of a node of priority p that holds permits.
Standing(p, w) ==
  [d \in Nodes |-> IF HasLock(w[d]) THEN Compare(p, Prio(d)) ELSE "Greater"]

\* Mutant of Repositioned: a started node stays where it waited.
RepositionedNot(q, n, w) == {q}

\* The queues that `update_node' may make of q once the node n was started: it
\* keeps a place that is in order, or moves to one among the holders.
Repositioned(q, n, w) ==
  { r \in {q} : IndexOf(q, n) \in EnqueuePositions(Dequeue(q, n), Standing(Prio(n), w)) }
    \union Enqueued(Dequeue(q, n), n, entry[n], TRUE, w)

-----------------------------------------------------------------------------
\* SemaphoreInner.

\* get_next_handle: the node behind n.
NextOf(n) ==
  LET i == IndexOf(queue, n)
  IN IF i = Len(queue) THEN NoNode ELSE queue[i + 1]

\* head_handle.
HeadNode == IF queue = << >> THEN NoNode ELSE Head(queue)

\* activate_waiters: the node holds permits already.
SkipHolder ==
  /\ walk # NoNode
  /\ HasLock(waiter[walk])
  /\ walk' = NextOf(walk)
  /\ UNCHANGED <<queue, available, total, entry, waiter, pc>>

\* activate_waiters: the node needs more than there is.  The loop ends, unless
\* the request is one that was refused.
PassOrStop ==
  /\ walk # NoNode
  /\ ~HasLock(waiter[walk])
  /\ Count(walk) > available
  /\ walk' = IF Total /\ WantsEvict(waiter[walk]) THEN NextOf(walk) ELSE NoNode
  /\ UNCHANGED <<queue, available, total, entry, waiter, pc>>

\* activate_waiters: the node is granted its permits.
Activate ==
  /\ walk # NoNode
  /\ ~HasLock(waiter[walk])
  /\ Count(walk) <= available
  /\ available' = available - Count(walk)
  /\ waiter' = [waiter EXCEPT ![walk] = AddFlag(@, "HAS_LOCK")]
  /\ queue' \in Repositioned(queue, walk, waiter')
  /\ walk' = NextOf(walk)
  /\ UNCHANGED <<total, entry, pc>>

\* The rest of a call of activate_waiters.
ActivateWaiters == SkipHolder \/ PassOrStop \/ Activate

\* iter_at: the nodes of the queue q from `start' on; from its head on for None.
IterAt(q, start) ==
  { n \in Nodes : IF start = NoNode THEN Queued(q, n) ELSE n = start \/ Before(q, start, n) }

\* notify_oversized_waiters: of the nodes of the queue q from `start' on, the
\* requests within the total that have become too big for it, t, are told so.
NotifyOversized(q, start, t) ==
  [n \in Nodes |->
     IF n \in IterAt(q, start) /\ entry[n].within /\ Count(n) > t
       THEN AddFlag(waiter[n], "WANTS_EVICT")
       ELSE waiter[n]]

\* The node n is the head of the queue, or the one before it holds permits.
FirstInLine(n) ==
  LET i == IndexOf(queue, n) IN i = 1 \/ HasLock(waiter[queue[i - 1]])

-----------------------------------------------------------------------------
\* Semaphore.

\* What do_acquire's skip_while passes over in its search for a waiter to
\* compare with.
Skipped(n) ==
  \/ HasLock(waiter[n])
  \/ Total /\ ~WantsEvict(waiter[n])

\* Mutant of MayGoFirst: permits that are available are taken.
MayGoAlways(p) == TRUE

\* The first node that is not passed over does not outrank the newcomer.
MayGoFirst(p) ==
  \A n \in Nodes :
    /\ Queued(queue, n) /\ ~Skipped(n)
    /\ \A d \in Nodes : Before(queue, d, n) => Skipped(d)
    => Compare(p, Prio(n)) # "Less"

\* Mutant of EvictHolders: the loop ends at the first holder.
EvictFirstHolder(p) ==
  [n \in Nodes |->
     IF /\ Evict /\ Held(n) /\ IndexOf(queue, n) = 1
        /\ Compare(p, Prio(n)) = "Greater"
       THEN AddFlag(waiter[n], "WANTS_EVICT")
       ELSE waiter[n]]

\* The waiters once every holder of a lower priority than p has been asked to
\* leave.  One of do_acquire's two loops meets them all, the holders being
\* first, and it asks them whether or not the newcomer gets its permits.
EvictHolders(p) ==
  [n \in Nodes |->
     IF Evict /\ Held(n) /\ Compare(p, Prio(n)) = "Greater"
       THEN AddFlag(waiter[n], "WANTS_EVICT")
       ELSE waiter[n]]

\* The checks acquire_many and acquire_within_total begin with.  They panic or
\* fail otherwise, and change nothing; within the total, they hold the lock.
Admitted(e) ==
  /\ e.count < MaxPermits
  /\ e.within => Total /\ total >= e.count

\* acquire_many, or acquire_within_total, up to the end of its critical
\* section: do_acquire.
Acquire(n, e) ==
  LET granted == available >= e.count /\ MayGoFirst(e.priority)
  IN /\ Unlocked
     /\ pc[n] = "idle"
     /\ Admitted(e)
     /\ queue' \in Enqueued(queue, n, e, granted, waiter)
     /\ entry' = [entry EXCEPT ![n] = e]
     /\ waiter' = [EvictHolders(e.priority) EXCEPT ![n] = NewCell(granted)]
     /\ available' = IF granted THEN available - e.count ELSE available
     /\ pc' = [pc EXCEPT ![n] = IF granted THEN "held" ELSE "polling"]
     /\ UNCHANGED <<total, walk>>

\* A poll of the request's future.  A request within the total also ends when
\* it is told that it is too big; a grant that came as well goes first.
PollAcquire(n) ==
  /\ pc[n] \in {"polling", "parked"}
  /\ \/ /\ HasLock(waiter[n])
        /\ waiter' = [waiter EXCEPT ![n] = ClearWaker(@)]
        /\ pc' = [pc EXCEPT ![n] = "held"]
     \/ /\ ~HasLock(waiter[n])
        /\ entry[n].within /\ WantsEvict(waiter[n])
        /\ waiter' = [waiter EXCEPT ![n] = ClearWaker(@)]
        /\ pc' = [pc EXCEPT ![n] = "dropping"]
     \/ /\ ~HasLock(waiter[n])
        /\ ~(entry[n].within /\ WantsEvict(waiter[n]))
        /\ waiter' = [waiter EXCEPT ![n] = Park(@)]
        /\ pc' = [pc EXCEPT ![n] = "parked"]
  /\ UNCHANGED <<queue, available, total, entry, walk>>

\* Mutant of CancelAcquire: there is no guard yet whose drop would dequeue.
CancelAcquireLeaks(n) ==
  /\ pc[n] = "parked"
  /\ waiter' = [waiter EXCEPT ![n] = ClearWaker(@)]
  /\ pc' = [pc EXCEPT ![n] = "idle"]
  /\ UNCHANGED <<queue, available, total, entry, walk>>

\* The future is dropped before it is ready; WaiterFlagFut::drop.
CancelAcquire(n) ==
  /\ pc[n] = "parked"
  /\ waiter' = [waiter EXCEPT ![n] = ClearWaker(@)]
  /\ pc' = [pc EXCEPT ![n] = "dropping"]
  /\ UNCHANGED <<queue, available, total, entry, walk>>

\* The node n is no longer in use.
Gone(n) ==
  /\ entry' = [entry EXCEPT ![n] = Blank]
  /\ pc' = [pc EXCEPT ![n] = "idle"]

\* The waiters without the one of n.
Without(n) == [waiter EXCEPT ![n] = NewCell(FALSE)]

\* Mutant of DropWaiter: a grant that came after the future ended is lost.
DropWaiterLosesGrant(n) ==
  /\ Unlocked
  /\ pc[n] = "dropping"
  /\ walk' = IF available > 0 /\ FirstInLine(n) THEN NextOf(n) ELSE NoNode
  /\ queue' = Dequeue(queue, n)
  /\ waiter' = Without(n)
  /\ Gone(n)
  /\ UNCHANGED <<available, total>>

\* Mutant of DropWaiter: it activates those behind only with permits to return.
DropWaiterBlocks(n) ==
  /\ Unlocked
  /\ pc[n] = "dropping"
  /\ available' = IF HasLock(waiter[n]) THEN available + Count(n) ELSE available
  /\ walk' = IF HasLock(waiter[n]) THEN NextOf(n) ELSE NoNode
  /\ queue' = Dequeue(queue, n)
  /\ waiter' = Without(n)
  /\ Gone(n)
  /\ UNCHANGED total

\* SemaphorePermitWaiter::drop.  The node may have been granted its permits
\* since the future ended; otherwise those behind it may have waited for it.
DropWaiter(n) ==
  LET active == HasLock(waiter[n])
  IN /\ Unlocked
     /\ pc[n] = "dropping"
     /\ available' = IF active THEN (available + Count(n)) % (UsizeMax + 1) ELSE available
     /\ walk' = IF active \/ (available > 0 /\ FirstInLine(n)) THEN NextOf(n) ELSE NoNode
     /\ queue' = Dequeue(queue, n)
     /\ waiter' = Without(n)
     /\ Gone(n)
     /\ UNCHANGED total

\* SemaphorePermit::drop.  Without the total, permits that available has no
\* room for are discarded with a panic that leaves the semaphore usable.
DropPermit(n) ==
  LET room == Total \/ available + Count(n) <= UsizeMax
  IN /\ Unlocked
     /\ pc[n] = "held"
     /\ available' = IF room THEN available + Count(n) ELSE available
     /\ total' = IF room THEN total ELSE total - Count(n)
     /\ walk' = IF room THEN NextOf(n) ELSE NoNode
     /\ queue' = Dequeue(queue, n)
     /\ waiter' = Without(n)
     /\ Gone(n)

\* Mutant of Forget: the total is not reduced.
ForgetKeepsTotal(n) ==
  /\ Unlocked
  /\ pc[n] = "held"
  /\ queue' = Dequeue(queue, n)
  /\ waiter' = Without(n)
  /\ Gone(n)
  /\ UNCHANGED <<available, total, walk>>

\* SemaphorePermit::forget.  The walk that notifies starts at the node behind
\* the permit, once that has left the queue; with none there, there is no walk.
Forget(n) ==
  /\ Unlocked
  /\ pc[n] = "held"
  /\ total' = total - Count(n)
  /\ queue' = Dequeue(queue, n)
  /\ waiter' = LET w == IF Total /\ NextOf(n) # NoNode
                         THEN NotifyOversized(queue', NextOf(n), total')
                         ELSE waiter
               IN [w EXCEPT ![n] = NewCell(FALSE)]
  /\ Gone(n)
  /\ UNCHANGED <<available, walk>>

\* SemaphorePermit::split (p is the permit's own priority) and
\* split_with_priority: the node m takes c of the permits of n.
Split(n, m, c, p) ==
  LET e == [priority |-> p, count |-> c, within |-> FALSE]
  IN /\ Unlocked
     /\ pc[n] = "held" /\ pc[m] = "idle"
     /\ 0 < c /\ c < Count(n)
     /\ queue' \in Enqueued(queue, m, e, TRUE, waiter)
     /\ entry' = [entry EXCEPT ![n].count = @ - c, ![m] = e]
     /\ waiter' = [waiter EXCEPT ![m] = NewCell(TRUE)]
     /\ pc' = [pc EXCEPT ![m] = "held"]
     /\ UNCHANGED <<available, total, walk>>

\* SemaphorePermit::merge of m into n.  When the sum is above MAX_PERMITS,
\* merge fails and m is dropped: a DropPermit(m).
Merge(n, m) ==
  /\ Unlocked
  /\ n # m
  /\ pc[n] = "held" /\ pc[m] = "held"
  /\ Count(n) + Count(m) <= MaxPermits
  /\ queue' = Dequeue(queue, m)
  /\ waiter' = Without(m)
  /\ entry' = [entry EXCEPT ![n].count = @ + Count(m), ![m] = Blank]
  /\ pc' = [pc EXCEPT ![m] = "idle"]
  /\ UNCHANGED <<available, total, walk>>

\* A poll of permit.evicted().  On Ready the future is over.
PollEvicted(n) ==
  /\ Evict
  /\ pc[n] \in {"held", "listening"}
  /\ IF WantsEvict(waiter[n])
       THEN /\ waiter' = [waiter EXCEPT ![n] = ClearWaker(@)]
            /\ pc' = [pc EXCEPT ![n] = "held"]
       ELSE /\ waiter' = [waiter EXCEPT ![n] = Park(@)]
            /\ pc' = [pc EXCEPT ![n] = "listening"]
  /\ UNCHANGED <<queue, available, total, entry, walk>>

\* The evicted() future is dropped unfinished; WaiterFlagFut::drop.
CancelEvicted(n) ==
  /\ pc[n] = "listening"
  /\ waiter' = [waiter EXCEPT ![n] = ClearWaker(@)]
  /\ pc' = [pc EXCEPT ![n] = "held"]
  /\ UNCHANGED <<queue, available, total, entry, walk>>

\* try_add_permits, and add_permits when that succeeds.  MaxSupply bounds the
\* model; the first condition is the code's check for overflow.
AddPermits(c) ==
  /\ Unlocked
  /\ IF Total THEN total + c <= UsizeMax ELSE available + c <= UsizeMax
  /\ total + c <= MaxSupply
  /\ total' = total + c
  /\ available' = available + c
  /\ walk' = HeadNode
  /\ UNCHANGED <<queue, entry, waiter, pc>>

\* forget_permits of up to c permits.
ForgetPermits(c) ==
  LET k == IF c < available THEN c ELSE available
  IN /\ Unlocked
     /\ available' = available - k
     /\ total' = total - k
     /\ waiter' = IF Total /\ k # 0
                    THEN NotifyOversized(queue, NoNode, total')
                    ELSE waiter
     /\ UNCHANGED <<queue, entry, walk, pc>>

-----------------------------------------------------------------------------

\* Semaphore::new, for every capacity (a usize) within the bound.
Init ==
  /\ queue = << >>
  /\ available \in 0 .. UsizeMax /\ available <= MaxSupply
  /\ total = available
  /\ entry = [n \in Nodes |-> Blank]
  /\ waiter = [n \in Nodes |-> NewCell(FALSE)]
  /\ walk = NoNode
  /\ pc = [n \in Nodes |-> "idle"]

Requests == [priority : Priorities, count : Counts, within : BOOLEAN]

Next ==
  \/ \E n \in Nodes :
       \/ \E e \in Requests : Acquire(n, e)
       \/ PollAcquire(n) \/ CancelAcquire(n) \/ DropWaiter(n)
       \/ DropPermit(n) \/ Forget(n)
       \/ \E m \in Nodes, c \in Counts, p \in Priorities : Split(n, m, c, p)
       \/ \E m \in Nodes : Merge(n, m)
       \/ PollEvicted(n) \/ CancelEvicted(n)
  \/ \E c \in Counts : AddPermits(c) \/ ForgetPermits(c)
  \/ ActivateWaiters

Spec == Init /\ [][Next]_vars

(***************************************************************************)
(* A poll goes on, and so does what runs under the write lock; the executor*)
(* polls a task that was woken.  A drop that waits for the lock gets it,   *)
(* however often others do.  Nobody has to give a permit back.  (DropWaiter*)
(* is the one action by which a node that is dropping is gone, and the lock*)
(* is free again and again: said like this, its strong fairness is much    *)
(* cheaper for TLC.)                                                       *)
(***************************************************************************)
Fairness ==
  /\ WF_vars(ActivateWaiters)
  /\ \A n \in Nodes :
       /\ WF_vars(PollAcquire(n) /\ (pc[n] = "polling" \/ waiter[n].scheduled))
       /\ WF_vars(PollEvicted(n) /\ waiter[n].scheduled)
       /\ WF_<<entry, pc>>(pc[n] = "dropping" /\ Gone(n))

FairSpec == Spec /\ Fairness

-----------------------------------------------------------------------------

\* The state has its declared shape, the queue holds exactly the nodes in
\* use, each once, and whoever has a permit's guard has HAS_LOCK.
TypeOK ==
  /\ queue \in Seq(Nodes)
  /\ available \in 0 .. UsizeMax
  /\ total \in Nat
  /\ entry \in [Nodes -> Entries]
  /\ waiter \in [Nodes -> Cell]
  /\ walk \in Nodes \union {NoNode}
  /\ pc \in [Nodes -> PCs]
  /\ walk # NoNode => Queued(queue, walk)
  /\ Injective(queue)
  /\ \A n \in Nodes :
       /\ Queued(queue, n) <=> pc[n] # "idle"
       /\ pc[n] \in {"held", "listening"} => HasLock(waiter[n])

\* The order SemaphoreInner documents and every loop over the queue relies
\* on: holders before requests, each part by priority, and among requests
\* that tie the smaller first -- though nodes change sides, shrink and grow.
QueueInOrder ==
  \A i, j \in 1 .. Len(queue) :
    LET a == queue[i]
        b == queue[j]
    IN i < j =>
         /\ Held(b) => Held(a)
         /\ Held(a) = Held(b) => Compare(Prio(b), Prio(a)) # "Greater"
         /\ Pending(a) /\ CompareNew(Prio(a), Prio(b)) = "Equal"
              => Count(a) <= Count(b)

\* A node always has a place in the queue, as a holder or as a request: its
\* verdicts on the nodes there never contradict each other, so that every queue
\* places it alike.
AlwaysAPlace ==
  \A n \in Nodes, e \in Requests, held \in BOOLEAN :
    pc[n] = "idle" => InAgreement(queue, Verdict(e, held, waiter))

\* No permit is lost or made up: those associated with the semaphore are
\* available or held -- by a client, or by a request that was granted and
\* whose task does not know, or is gone.
Conservation ==
  total = available + SumFunctionOnSet([n \in Nodes |-> Count(n)],
                                       {n \in Nodes : Held(n)})

\* Permits do not lie idle: the request that is next in line needs more than
\* there are.  So every operation that frees some, or takes the next in line
\* out of the queue, has activated those behind.  (With none left, a request
\* for none may be next in line.)
WorkConserving ==
  \A n \in Nodes :
    Unlocked /\ Pending(n) /\ FirstInLine(n)
      => available = 0 \/ Count(n) > available

\* A task that waits for what has already happened has been woken: no grant,
\* refusal or request to leave is lost on it.
NoLostWakeup ==
  \A n \in Nodes :
    /\ pc[n] = "parked" /\ HasLock(waiter[n]) => waiter[n].scheduled
    /\ pc[n] = "parked" /\ entry[n].within /\ WantsEvict(waiter[n])
         => waiter[n].scheduled
    /\ pc[n] = "listening" /\ WantsEvict(waiter[n]) => waiter[n].scheduled

\* n is granted its permits in this step: they were available.  (A permit that
\* is split off another was held already.)
Granted(n) ==
  /\ ~Held(n) /\ Held(n)'
  /\ pc[n] = "idle" => available' < available

\* Permits go by priority: nobody is granted any while a request that outranks
\* it is left waiting.  (A request that was refused does not wait.)
GrantsInOrder ==
  [][\A n, d \in Nodes :
       Granted(n) /\ Pending(d) /\ Pending(d)' /\ ~WantsEvict(waiter'[d])
         => Compare(Prio(d), Prio(n)') # "Greater"]_vars

\* FIFO: nor while a request of its own priority that came before it waits.
GrantsFIFO ==
  [][\A n, d \in Nodes :
       /\ Granted(n)
       /\ Pending(d) /\ Pending(d)'
       /\ Queued(queue, n) => Before(queue, d, n)
       => Compare(Prio(d), Prio(n)') = "Less"]_vars

\* A holder that a waiting request outranks and that is not asked to leave.
Unasked(n, d) ==
  /\ Held(n) /\ ~WantsEvict(waiter[n])
  /\ Pending(d) /\ Compare(Prio(d), Prio(n)) = "Greater"

\* evicted() resolves when a higher priority waits: every holder that a
\* request outranks has been asked to leave.
OutrankedAreAsked == Evict => \A n, d \in Nodes : ~Unasked(n, d)

\* That fails for permits split off others, and for no others: whatever is
\* granted, queued, returned or merged later, nobody else is forgotten.
OnlySplitsAreUnasked ==
  [][Evict => \A n, d \in Nodes :
       Unasked(n, d)' => Unasked(n, d) \/ (pc[n] = "idle" /\ ~Granted(n))]_vars

\* A request within the total that has become too big for it has been told so,
\* whichever way the permits were forgotten.  The walk behind a forgotten permit
\* reaches every request, as long as no request is in front of a holder.
OversizedAreRefused ==
  \A n \in Nodes :
    Pending(n) /\ entry[n].within /\ Count(n) > total => WantsEvict(waiter[n])

\* The request n is granted or refused, perhaps both.
Answered(n) ==
  HasLock(waiter[n]) \/ (entry[n].within /\ WantsEvict(waiter[n]))

\* The request n ends once it is granted or refused, also when both happen.
AnswerArrives(n) == pc[n] = "parked" /\ Answered(n) ~> pc[n] # "parked"

\* The request n is the first that was not refused, and there are permits for it.
HeldUp(n) ==
  /\ Pending(n) /\ ~WantsEvict(waiter[n])
  /\ Count(n) <= available
  /\ \A d \in Nodes :
       Pending(d) /\ Before(queue, d, n) => WantsEvict(waiter[d])

\* The first request n that was not refused may be held up by refused ones before
\* it, for they are still in the queue; but only until those are gone.
BrieflyHeldUp(n) == HeldUp(n) ~> ~HeldUp(n)
=============================================================================
