# Verification of async-priority-lock

The crate is a priority mutex and a priority semaphore for async Rust.  Each
keeps one queue, sorted by priority, of everybody who holds it or wants it;
each node of the queue has a lock-free `Waiter` that tells the node's future
what has become of it.  This directory holds TLA+ models of the crate, the TLC
configurations that check them and the TLAPS proofs about them.

    tlc -workers 2 -config MCMutexFIFO.cfg MCMutex     # one run
    tlapm MutexProofs.tla                              # one module of proofs

## The system

| Part | State | Operations | What makes it correct |
|---|---|---|---|
| `Waiter`, `WaiterFlagFut` (`src/waiter.rs`) | one atomic word: flags `HAS_LOCK`, `WANTS_EVICT`, `CAN_DROP`, and the address of the waker; the waker itself lies in the future | owner: poll, drop; notifier: `start`, `evict` | the waker is read only while it is there, dropped once, and no flag is missed |
| `Mutex`, `MutexGuard` (`src/mutex.rs`) | an `RwLock` around the queue; the data | `lock`, `try_lock`, drop of guard or future, `evicted` | one guard at a time; grants by priority; whoever is outranked is asked to leave; no grant is lost |
| `Semaphore`, `SemaphorePermit` (`src/semaphore.rs`) | an `RwLock` around the queue, `available` and, with `semaphore-total`, `total` | `acquire…`, `acquire_within_total`, drop, `forget`, `split`, `merge`, `evicted`, `add_permits`, `forget_permits` | permits are neither lost nor made up nor left idle; grants by priority; requests that cannot be met are refused |
| Priority disciplines (`src/priority.rs`) | none | `compare`, `compare_new` of `HighestFirst`, `LowestFirst`, `FIFO`, `LIFO` | the two comparisons agree, but on ties |
| `PriorityQueue` trait (`src/queue.rs`) | none | `enqueue`, `dequeue`, `update_node`, `get_by_handle`, iteration | the position of a new node, and that nothing else moves |
| `ArenaQueue` (`src/queue/arena.rs`) | slots in one block, links as offsets, `head`, `used`, `size`, `good` | as the trait, with growth and reuse of slots | the links always are the queue they stand for |
| `BoxQueue` (`src/queue/boxed.rs`) | boxed nodes with links, `head` | as the trait | the same |
| `RwLock` wrapper (`src/internal.rs`) | poison flag of the std lock | `read`, `write`, `downgrade` | mutual exclusion of critical sections |
| feature flags, serde, `Display`, `Debug` | none | | |

How they meet: the locks are generic over the queue and call it under the write side of their `RwLock`,
and the waiters of queued nodes from inside that critical section.  The futures
poll their node's waiter, under the read side with an `ArenaQueue` and under no
lock at all with a `BoxQueue` (`LOAD_PURE`).  Dropping an unfinished future
first unregisters its waker and then, in a critical section of its own, takes
its node out of the queue; a grant may come between the two.

What is hard in it, and each place where it bites, is listed under `hazards` in
`PROJECT.json`: the race of a poll with a notification, grants that come after
a cancellation, newcomers and departures that change who is next, refusals that
cross grants, permits that change size while queued, and eviction requests that
are computed when somebody arrives and must still be right when the holder
changes.

## The modules

| Module | Models | Notes |
|---|---|---|
| `Priority` | `priority.rs` | a discipline is a pair of operators, `compare` and `compare_new` |
| `PriorityQueue` | the contract of the trait | the queue is a sequence without repetition.  `EnqueuePositions` is where `insert` may stop: behind nodes that are not outranked, before nodes that are; nondeterministic where the code's starting point decides |
| `Waiter` | `waiter.rs`, step by step | each atomic operation and each access to the waker's storage is an action |
| `AtomicWaiter` | what `Waiter` promises | polls and notifications are indivisible |
| `WaiterCell` | the waiter inside a node of a lock | the behaviour of `AtomicWaiter` as operators on a record: flags, whether a waker is registered, whether the task was woken (`scheduled`) |
| `Mutex` | `mutex.rs` | one action per critical section and per poll or drop |
| `PriorityLock` | what a priority mutex promises | holder, set of waiting requests, clients inside; no queue |
| `Semaphore` | `semaphore.rs` | the same; `evict` and `semaphore-total` are constants, `usize::MAX` is a constant |
| `AbstractQueue` | what a queue promises the locks | a sequence of entries (handle, data, whether pinned to the head); each operation at once |
| `LinkedQueue` | what the two queues have in common | links as functions, `set_prev`, what it means that links spell a sequence |
| `ArenaQueue` | `queue/arena.rs` | slots of a block that doubles; each turn of the loops over slots and links is an action |
| `BoxQueue` | `queue/boxed.rs` | boxes that are allocated, owned by the link to them and deallocated; each turn of a loop is an action |
| `WaiterProofs`, `MutexProofs`, `SemaphoreProofs`, `PriorityProofs`, `ArenaQueueProofs`, `BoxQueueProofs` | | theorems and proofs |
| `PriorityQueueProofs`, `WaiterCellProofs` | | the lemmas they share |
| `MCWaiter`, `MCMutex`, `MCSemaphore`, `MCArenaQueue`, `MCBoxQueue` | | instances for TLC |

**How the modules compose.**  A lock needs of its queue that a newcomer goes to
one of `EnqueuePositions`, provided that its verdicts on the nodes there do not
contradict each other (`InAgreement`), and that nothing else moves.  That the
verdicts agree is an invariant of each lock, `AlwaysAPlace`.  That a queue then
keeps its side is `ImplementsQueue`: `AbstractQueue` enqueues at
`EnqueuePositions` when the verdicts agree, and somewhere in priority order when
they do not.  Both queues are checked for both uses (`use`): the semaphore
changes entries with `update_node`, and the mutex changes verdicts behind the
queue's back, for a node that has `HAS_LOCK` is one that every newcomer is
`Less` than (`pinned`).  In the same way the locks have a `WaiterCell` in each
node, which is `AtomicWaiter`, which `Waiter` implements.

**One critical section is one action.**  It runs under the write lock, so no
other critical section interleaves with it.  Polls that take no lock can run
during it; a critical section touches the waiter of a given node in one way at
most, and the refinement `Waiter => AtomicWaiter` (checked and proved) says that
a poll and a notification of one waiter are as if one came before the other, so
a poll during a critical section is like a poll before or after.  The
same goes for `notify_oversized_waiters`, which runs under a downgraded lock.

The exception is `activate_waiters`, the loop that hands out permits at the end
of a critical section of the semaphore: each of its turns is an action
(`SkipHolder`, `PassOrStop`, `Activate`), with the loop's `next` in the variable
`walk`.  Other critical sections wait until it is done (`Unlocked`); polls,
cancellations and the start of drops interleave with it.

**The queues' operations** are called one at a time, but they are loops whose
end depends on the links.  `order` is a history variable, the queue as a
sequence of nodes; it changes in the one step of an operation in which it
takes effect.  An entry that is being moved by `update_node` has its old place
and data in `AbstractQueue` until then.  The offsets of `ArenaQueue` are
modelled by the indices of their slots, `SENTINEL` (1) and `UNALLOCATED`
(`usize::MAX`) by values that are no index, since the code keeps nodes aligned
to 2.  A dual linked and a single linked node are two types in the code; they
are one variable here, `hasPrev`, that never changes.

**What separates actions** is what user code and the executor can interleave:
the critical section of `lock`, each poll, the `Drop` of the future, the `Drop`
of the guard inside it.  The value of `pc` of a client (`Mutex`) or node
(`Semaphore`) says where it is; `pc` in `polling` stands for the time between
the critical section and the first poll of the waiter in the same `poll` call.

**`try_lock` and `lock` on a free lock** are the same action in effect.  A
`try_lock` of a lock that is taken changes nothing and is not an action.
`lock_from`, `lock_default` and the `acquire` family only differ in how they
come by their arguments.

**Nodes.**  A client of `Mutex` has one request at a time.  A node of
`Semaphore` is a request or permit; a client of the crate may hold many, so a
node is not tied to a task.  A `MutexWaiter`'s priority stays recorded after its
node has left, but is not read; `Semaphore` resets the entry to `Blank`.

**Arithmetic.**  `available` of a cancelled request is added without a check
(`src/semaphore.rs:253`) and wraps, `% (UsizeMax + 1)`; the drop of a permit
checks, and the model has both outcomes.  `total` exists only with
`semaphore-total`; without it the variable is a history of the permits
associated with the semaphore, which no guard but the model's bound reads.

## The runs

| Run | Instance | Shows |
|---|---|---|
| `waiter` | two wakers; any number of polls, futures, nodes, in every interleaving | no unsafe read of the waker, none leaked or dropped twice, `CAN_DROP` is what its comment says, no flag missed, the spin ends, and `ImplementsAtomicWaiter` |
| `mutex_fifo` | four clients, three priorities, `FIFO<LowestFirst<O>>`, eviction | exclusion, exactly the head has the lock, waiting nodes in order, no lost wake-up, whoever is outranked is asked to leave, nobody is overtaken by an equal, `ImplementsPriorityLock` |
| `mutex_live` | three clients, two priorities, `LIFO<O>`, fairness | LIFO among equals; inversions end; grants arrive |
| `semaphore_plain` | three nodes, two priorities, counts 0 to 2, at most 3 permits, eviction | order of the queue, a place for every newcomer, conservation, no idle permits, grants by priority, and that only split permits escape eviction |
| `semaphore_total` | the same with `semaphore-total`, counts 1 and 2 | conservation, no idle permits, no lost wake-up, oversized requests are refused |
| `semaphore_live` | three nodes, one priority, `FIFO<O>`, at most 3 permits, `semaphore-total`, fairness | grants and refusals end their request; refused requests hold others up only briefly |
| `arena` | single and dual linked, both uses, up to four entries in a block of 1, 2 and 4 slots, four kinds of data, fairness | the links are the queue, in priority order, after any history of growth and reuse of slots; operations end; `ImplementsQueue` |
| `box` | the same with four boxes | the same, and that no box is leaked or reached after it was dropped |
| `semaphore_total_barging`, `semaphore_fifo_barging`, `semaphore_split_unasked` | as above, two permits | the findings below; each finds its one property violated |
| `arena_const_default` | `arena`, with the `head` of `ConstDefault` | finding 4 |

**Bounds.**  Two wakers tell the latest from a stale one, and the notifiers of
one waiter are serialised by the lock; nothing else in `Waiter` counts, so the
run is complete for one node.  Four clients give a holder and three waiting
requests: a newcomer, one before it and one behind it; three priorities let a
request outrank one and be outranked by another.  In the semaphore three nodes
give a holder, one request that blocks and one that is blocked, and counts 1 and
2 the case where the second would fit and the first does not; permits beyond 3
(`MaxSupply`) leave nobody waiting long enough to matter.  `UsizeMax` is 7, a
`usize` of three bits, which the supply never reaches; `MaxPermits` is then 3,
so that a count of 2 is allowed and a merge of two such permits fails.  In
`semaphore_live` a third permit is what lets a request that fits be held up by
one that is refused while both wait: one holds 2 of 2 permits, a request for 2
within the total and one for 1 wait, a permit is added, and the 2 are forgotten.
Its two properties are stated of one node, `n1`: the nodes are interchangeable
in `Init`, `Next` and `Fairness`, so they hold of each.  In the
queues four entries let an entry move between two others with one more at
either end.  The data have three priorities, the middle one twice, with a tie
that `compare_new` breaks by the number of permits as the semaphore's nodes do:
so `compare` and `compare_new` differ, and `compare_new` has all three outcomes.
The first block of `ArenaQueue` has one slot rather than four (`FirstSize`), so
that four entries make it grow twice.  Symmetry is used in runs without liveness
only.

**Deadlock** is checked in every run: there always is something a client may do.

**Fairness.**  A poll or drop that has begun is carried on, and so is what runs
under a lock, `activate_waiters` or a queue's operation (a thread runs); a drop
that waits for the `RwLock` gets it in the end, which std's locks leave to the
operating system; the executor polls a task that was woken, which is all a waker promises.  Nobody is
assumed to cancel, to release a permit or to react to eviction, with one
exception: for `InversionsEnd` a mutex client that again and again is back with
its guard, rather than inside an `evicted().await`, drops it in the end
(`SF_vars(DropGuard(c))`).  A client may listen for eviction for ever, so the
property does depend on `evicted()` resolving.  `WF_<<entry, pc>>(pc[n] =
"dropping" /\ Gone(n))` in `Semaphore` is the fairness of `DropWaiter`, said
without its other variables.

## Findings

Each is a run with a trace of a few steps.

1. `semaphore_total_barging`, `src/semaphore.rs:698`.  The search of
   `do_acquire` for the first real waiter is meant to "also skip any evicted
   flags", but skips the requests whose `WANTS_EVICT` is *clear*.  With
   `semaphore-total` a newcomer therefore takes available permits past any
   waiting request, of whatever priority.  `semaphore_plain` checks that without
   the feature the property holds; `semaphore_total` does not list it.
2. `semaphore_fifo_barging`, `src/semaphore.rs:704`.  The same decision uses
   `compare`, not `compare_new`: a newcomer of the same priority takes what is
   available, though the discipline is `FIFO` and an earlier request waits for
   more.
3. `semaphore_split_unasked`, `src/semaphore.rs:397`.  A permit split off one
   that has been asked to leave has not been; nobody asks it later unless
   another request of higher priority comes.  `OnlySplitsAreUnasked` shows that,
   without `semaphore-total`, it is the only way to be forgotten; with it, finding
   1 is another.
4. `arena_const_default`, `src/queue/arena.rs:75`.  `ConstDefault` makes an
   `ArenaQueue` with `head: 0`, which is the offset of the first slot, while
   `Default` has the sentinel 1.  The first entry of a semaphore built by
   `const_new` is linked to itself, and no node ends the queue; walks along it
   do not end.  (In a mutex its link leads to the next slot, allocated or not;
   the run is limited to the semaphore's use.)  `BoxQueue` is not affected.

Seen while reading, and not the subject of a run: `semaphore-total` does not
build without `evict` (it calls `Waiter::evict`), which `FeatureAssumption`
states; the documentation of `SemaphorePermit::merge` says that it panics, and
it returns an error; a request for zero permits is accepted, although the drop
of a waiter takes counts to be positive, so that with nothing available a
request for zero may become the next in line and wait for no permits at all
(`WorkConserving` has the exception); the addition at `src/semaphore.rs:253` is
unchecked; equal priorities let small requests starve a large one, by design of
`compare_new`; a newcomer asks holders of lower priority to leave even when it
gets its permits at once (`src/semaphore.rs:689`).

## The proofs

All are for any set of clients or nodes, any priorities, any counts, with or
without eviction and, but where it is said, `semaphore-total`.  They assume

- of the priorities, `PriorityContract`: `compare` is a total preorder and
  `compare_new` refines it, as the documentation of the trait asks.
  `PriorityProofs` shows that every discipline of `priority.rs` meets it, over
  all integers;
- that `NoClient`, `NoNode`, `NoWaker`, `Nil`, `SENTINEL`, `UNALLOCATED` and
  `NoData` are not members of the sets they stand outside of; that there are
  finitely many nodes, for permits are added up, and at least one priority; that
  the first block of an `ArenaQueue` has a slot.

Some theorems state more, as hypotheses of their own:

- `TiesAlike`: `compare_new` makes no difference between priorities that are
  `Equal`.  The trait does not ask for it, and a queue whose verdicts contradict
  each other leaves a newcomer no place; `PriorityProofs` shows it of every
  discipline.  `TiesGoBehind` is what FIFO adds, `TiesGoAhead` what LIFO does;
- `~Total`: without `semaphore-total`, since finding 1 refutes `PermitsGoByPriority`
  with it;
- `InitialHead = SENTINEL`: the `ArenaQueue` was made by `Default`, since finding 4
  refutes what is said of its links for one made by `ConstDefault`;
- `NeverWraps`: `usize` has room for the permits the program makes, or
  `semaphore-total` checks that it has.

**`PriorityQueueProofs`**: what `InsertAt` and `Dequeue` do to positions,
membership and order of a sequence without repetition; where an entry put at one
of `EnqueuePositions` is; what follows from the contract for chains of
comparisons; and, for any set of nodes, what an insertion into links that spell
a sequence or a removal from them makes them spell (`SpellsWith`,
`SpellsWithout` and their like for links backwards) and when a place that suits
its two neighbours suits the whole queue (`AllowedIsInOrder`).
**`WaiterCellProofs`**: what a flag and a poll do to a waiter.

**`WaiterProofs`**: the inductive invariant is the conjunction of `TypeOK`;
`StorageInv`, which ties the places of owner and notifier to what the storage,
the pointer bit, `CAN_DROP` and the notifier's hand contain; `WakeInv`, that a
parked owner is registered or its wake-up is under way or it has been woken, and
with which waker; and `ReasonInv`, what the flags last seen say about the return
of a poll.  None of the properties is inductive alone: that a read is safe
depends on `CAN_DROP` being clear while the notifier holds the pointer, that on
nobody else setting it, that on who can be in which place.  From the invariant
follow `ReadSafety`, `WakerLifetime`, `CanDropIsSet`, `WakeupsArrive` and
`ReadyHasReason`; `Refinement` shows step by step that `Waiter` implements
`AtomicWaiter`.

**`MutexProofs`**: the inductive invariant is `TypeOK`, `HeadHasLock`,
`GuardHasLock` (whoever has a guard has the flag), `WaitersInOrder`, `WakeInv`
(a parked task is registered or has been woken) and `OutrankedIsAsked`.
Exclusion follows from the second and third: two clients inside would both be
the head.  The order of the waiting part needs the head to be pinned, since a
newcomer may outrank the head; `OutrankedIsAsked` needs the order, since the next
holder is outranked by nobody behind it.  `EveryoneHasAPlace`: the waiting part
is in priority order, so a newcomer's verdicts descend along it.  `NobodyIsOvertaken`
and `NewestGoesFirst` are about two consecutive states: the order of two clients
that wait before and after a step is the same (`OrderStays`), and a newcomer is
where the discipline wants it (`NewcomerIsPlaced`).  `Refinement` maps the head to the
holder, the rest of the queue to the set of waiting requests, and shows that
each grant goes to a request that no other one outranks.

**`SemaphoreProofs`**: the inductive invariant has these parts, none of which is
inductive alone.

- `TypeOK`; `HoldersFirst` and `InPriorityOrder`, the order of the queue as far
  as `compare` has it.  A grant keeps it since the granted node is repositioned
  behind the holders it does not outrank.
- `NextInLine`, that the first request without permits needs more than there
  are, while nobody is inside `activate_waiters`; and `WalkInv`, what holds in
  its loop: whoever it has left behind without a grant had been refused and
  needs more than there are.  Each operation that frees permits or removes
  whoever was first in line enters the loop; where it may not enter it, as in
  the drop of a request that was not first, nobody else has become first.
- `WakeInv`, as in the mutex; a request within the total waits for either of
  two flags.
- `SupplyInv`: what is available and what is held make up the total, or less if
  an addition could wrap.  `total` itself is bounded.
- `WithinNeedsTotal` and `OversizedAreRefused`.  In `forget` the walk of
  `notify_oversized_waiters` starts behind the forgotten permit (`IterAt`), so
  that it reaches every request depends on `HoldersFirst` (`WalkFromHolder`).
  The mutant of that property does not keep holders in front: a walk then misses
  a request.

`TieOrder`, that of two waiting equals the one for fewer permits is first where
`compare_new` leaves the choice to the counts, is inductive relative to it and
takes `TiesAlike`.  With it follow `QueueInOrder` and `AlwaysAPlace`.  The
properties of steps, `PermitsGoByPriority` and `OnlySplitsAreForgotten`, rest on
`KindsOfSteps`: in each step nobody moves, or somebody leaves, or a request
comes, or a permit is split, or one request is granted in the loop.  The two
that grant are then looked at: whom the fast path of `do_acquire` grants is
outranked by nobody that waits (`MayGoFirstMeans`), and so is the request the
loop grants (`WalkIsFirst`).

Sums of permits are folds over finite sets, and the module begins with lemmas
about them.  The library's theorems about
induction are of no use to the provers here, so the facts about sums go by a
smallest counterexample: of the finite sets for which one fails, one has the
least cardinality, and taking one element out of it gives a smaller one.

**`BoxQueueProofs`**: the inductive invariant is `TypeOK`; `LinksAreQueue`;
`PlaceInv`, where the operation under way is (the walk of `insert` is at a node
the new one is `Less` than, the searches of `dequeue` and `update_node` are
before their node); `FreshInv`, that a node not in the queue has no link back;
`PinInv`, that the pinned node of a mutex is the head, or about to be; and that
the queue without the node being moved is in priority order.  Each part needs
others: that a walk never leaves the queue takes the links, that the place it
ends at keeps the order takes the order of all of the queue, for the loop only
looks at two neighbours.  No more is assumed than `BoxAssumption` and the
contract of the comparisons; ties may be broken in any way.  `Refinement` maps
each box of the queue to its entry.  An operation is a step of `AbstractQueue`
when it returns (`PlacedRefines`, `RemovedRefines`, `StaysRefines`); the loops
before that leave the entries alone (`StepStutters`).

**`ArenaQueueProofs`**: the same for the queue in one block, for any size of the
first block and any number of entries.  The inductive invariant is `TypeOK`;
`LinksAreQueue`, which here also says which slots are in use and that `used`
counts them; `QueueInOrder`; `BlockInv`, that `good`, from which the search for a
slot starts, is a slot, and which slots have data; `PlaceInv` and `PinInv` as for
`BoxQueue`.  Two things are particular to it.  `emplace` remembers a node on its
way through the slots, in no order of the queue; `PlaceInv` says of that node
what matters, that the newcomer is `Less` than it or `Equal` to it, and that
is enough, for `insert` starts behind it and the queue is in order.  A node
the newcomer is `Equal` to is taken without a look at the next: that the place
keeps the order then follows from the comparison with that one node alone
(`AllowedIsInOrder`).  And the block doubles under the links: `Grown` is what
the rest of the proofs need to know of that.

**Only model-checked**: liveness (`SpinTerminates`, `FlagIsHeard`,
`InversionsEnd`, `GrantsArrive`, `AnswersArrive`, `HeldUpOnlyBriefly`,
`OperationsEnd`), which is out of the prover's reach, as is ENABLED.

## Not modelled

- Iteration over a queue and its `Drop`: they read the links along `next`, as
  `LinksAreQueue` has them.  The memory of `realloc`, which may move the block
  of an `ArenaQueue`: the links are offsets and survive it, and pointers into
  the old block are what the borrow of `&mut self` rules out, but for data a
  caller reads through a shared handle, under the read lock.
- Supplies of permits above `usize::MAX`, but for the check in the drop of a
  permit.
- Memory orderings weaker than sequential consistency.  `Waiter` has one atomic
  word and the waker's storage; its operations on the word are `AcqRel`.
- Poisoning of the std `RwLock`, panics in user code under it, and wakers that
  re-enter the lock from `wake()`: waking is scheduling a later poll.
- `mem::forget` of futures and guards, which leaves the node queued for ever.
- serde, `Display` and `Debug`: formatting, and the construction of new values.
- Tests and examples, which were read for how the crate is meant to be used.

## Plan

Done, in this order: `Priority`, `PriorityQueue`, `WaiterCell`, `Mutex`,
`PriorityLock`; `Waiter`, `AtomicWaiter`; `Semaphore`; the proofs about the
waiter and the mutex; `AbstractQueue`, `LinkedQueue`, `ArenaQueue`, `BoxQueue`;
the turns of `activate_waiters`; the proofs about the semaphore, about places
and overtaking in the mutex, and about the disciplines; the proofs about
`BoxQueue` and `ArenaQueue`.  To come: an abstract semaphore (supply, holders,
requests) that `Semaphore` implements, as `PriorityLock` is for `Mutex`, and the
proof that it does.
