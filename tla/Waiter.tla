------------------------------- MODULE Waiter -------------------------------
(***************************************************************************)
(* The lock-free Waiter of waiter.rs, one of which is in every queue node: *)
(* a single atomic word that packs the node's flags with a pointer to the  *)
(* waker stored in the owner's future.  Every atomic operation and every   *)
(* access to the waker's storage is an action of its own.                  *)
(*                                                                         *)
(* Two threads meet in it.  The owner polls and drops the future that      *)
(* holds the storage; with the BoxQueue it takes no lock to do so          *)
(* (LOAD_PURE).  The notifier adds a flag; it holds the queue's RwLock, so *)
(* there is one at a time, and none while the node is being dequeued.      *)
(* Orderings are AcqRel throughout, and the model sequentially consistent. *)
(***************************************************************************)
CONSTANTS
  Wakers,    \* the wakers the owner may be polled with
  NoWaker    \* an uninitialised storage, an empty hand

ASSUME WakersAssumption == NoWaker \notin Wakers

Flags == {"HAS_LOCK", "WANTS_EVICT"}

VARIABLES
  word,       \* Waiter.0: the waker pointer is set, CAN_DROP, the flags
  storage,    \* WaiterFlagFut::waker: what the MaybeUninit holds
  pc,         \* where the owner is
  phase,      \* what clear_waker was called for
  target,     \* FLAG of the owner's WaiterFlagFut
  seen,       \* the flags fetched by the owner's latest clear_waker
  latest,     \* the waker of the owner's latest poll
  scheduled,  \* the latest waker has been woken since that poll
  notifier,   \* where the notifier is
  old,        \* the word notify() fetched: pointer set, CAN_DROP set
  inHand      \* the waker notify() has read and not yet woken

vars == <<word, storage, pc, phase, target, seen, latest, scheduled,
          notifier, old, inHand>>

owned    == <<storage, pc, phase, target, seen, latest>>
notified == <<notifier, old, inHand>>

(***************************************************************************)
(* none      -- there is no future                                         *)
(* fresh     -- the future has not been polled                             *)
(* parked    -- its latest poll returned Pending                           *)
(* dropWaker -- clear_waker is about to drop the waker it took back        *)
(* spin      -- clear_waker waits for CAN_DROP                             *)
(* write     -- wait_for_flag is about to write the waker                  *)
(* publish   -- it is about to store its address                           *)
(* recheck   -- it found a flag set, and is about to clear the waker       *)
(* ready     -- the poll has returned Ready                                *)
(***************************************************************************)
PCs == {"none", "fresh", "parked", "dropWaker", "spin", "write", "publish",
        "recheck", "ready"}

\* add_flag has run; notify is about to take, read, restore CAN_DROP, wake.
NotifierPCs == {"idle", "take", "read", "restore", "wake"}

-----------------------------------------------------------------------------
\* The owner.

\* Mutant of Return: any flag ends the wait.
ReturnOnAnyFlag(p, f) ==
  CASE p = "poll"    -> IF f # {} THEN "ready" ELSE "write"
    [] p = "recheck" -> "ready"
    [] p = "drop"    -> "none"

\* What follows the clear_waker called for the phase p, that saw flags f.
Return(p, f) ==
  CASE p = "poll"    -> IF target \subseteq f THEN "ready" ELSE "write"
    [] p = "recheck" -> "ready"
    [] p = "drop"    -> "none"

\* Mutant of Clear: the waker taken back is not dropped.
ClearForgets(p) ==
  /\ word' = [word EXCEPT !.ptr = FALSE]
  /\ seen' = word.flags
  /\ phase' = p
  /\ pc' = IF word.canDrop THEN Return(p, word.flags) ELSE "spin"

\* Mutant of Clear: it does not wait for CAN_DROP.
ClearHurries(p) ==
  /\ word' = [word EXCEPT !.ptr = FALSE]
  /\ seen' = word.flags
  /\ phase' = p
  /\ pc' = IF word.ptr THEN "dropWaker" ELSE Return(p, word.flags)

\* clear_waker up to and including its fetch_and.
Clear(p) ==
  /\ word' = [word EXCEPT !.ptr = FALSE]
  /\ seen' = word.flags
  /\ phase' = p
  /\ pc' = IF word.ptr THEN "dropWaker"
           ELSE IF word.canDrop THEN Return(p, word.flags) ELSE "spin"

\* poll calls wait_for_flag, with a waker w that may differ from the last.
Poll(w) ==
  /\ pc \in {"fresh", "parked"}
  /\ Clear("poll")
  /\ latest' = w
  /\ scheduled' = FALSE
  /\ UNCHANGED <<storage, target>>
  /\ UNCHANGED notified

\* storage.assume_init_drop().
DropWaker ==
  /\ pc = "dropWaker"
  /\ storage' = NoWaker
  /\ pc' = Return(phase, seen)
  /\ UNCHANGED <<word, phase, target, seen, latest, scheduled>>
  /\ UNCHANGED notified

\* The busy-wait for CAN_DROP ends.
SpinEnd ==
  /\ pc = "spin"
  /\ word.canDrop
  /\ pc' = Return(phase, seen)
  /\ UNCHANGED <<word, storage, phase, target, seen, latest, scheduled>>
  /\ UNCHANGED notified

\* waker.write(cx.waker().clone()).
Write ==
  /\ pc = "write"
  /\ storage' = latest
  /\ pc' = "publish"
  /\ UNCHANGED <<word, phase, target, seen, latest, scheduled>>
  /\ UNCHANGED notified

\* Mutant of Publish: no second look at the flags.
PublishAndPark ==
  /\ pc = "publish"
  /\ word' = [word EXCEPT !.ptr = TRUE, !.canDrop = TRUE]
  /\ pc' = "parked"
  /\ UNCHANGED <<storage, phase, target, seen, latest, scheduled>>
  /\ UNCHANGED notified

\* The fetch_or of the address and CAN_DROP, and the check for a late flag.
Publish ==
  /\ pc = "publish"
  /\ word' = [word EXCEPT !.ptr = TRUE, !.canDrop = TRUE]
  /\ pc' = IF word.flags \intersect target = {} THEN "parked" ELSE "recheck"
  /\ UNCHANGED <<storage, phase, target, seen, latest, scheduled>>
  /\ UNCHANGED notified

\* The clear_waker of a poll that found a late flag.
Recheck ==
  /\ pc = "recheck"
  /\ Clear("recheck")
  /\ UNCHANGED <<storage, target, latest, scheduled>>
  /\ UNCHANGED notified

\* WaiterFlagFut::drop, after Ready or in place of a poll.
DropFuture ==
  /\ pc \in {"fresh", "parked", "ready"}
  /\ Clear("drop")
  /\ UNCHANGED <<storage, target, latest, scheduled>>
  /\ UNCHANGED notified

\* WaiterFlagFut::new for evicted(): the owner has the lock.
AwaitEviction ==
  /\ pc = "none"
  /\ "HAS_LOCK" \in word.flags
  /\ pc' = "fresh"
  /\ target' = {"WANTS_EVICT"}
  /\ UNCHANGED <<word, storage, phase, seen, latest, scheduled>>
  /\ UNCHANGED notified

\* What a node begins with: granted at once it has no future; otherwise the
\* future of lock() or acquire(), or of acquire_within_total().
Born(hasLock, t) ==
  /\ hasLock => t = {"HAS_LOCK"}
  /\ t \in {{"HAS_LOCK"}, {"HAS_LOCK", "WANTS_EVICT"}}

\* The guard is dropped and its node dequeued, under the write lock; later
\* the client enqueues a new node: Waiter::new and WaiterFlagFut::new.
NewNode ==
  /\ pc = "none"
  /\ notifier = "idle"
  /\ \E hasLock \in BOOLEAN, t \in SUBSET Flags :
       /\ Born(hasLock, t)
       /\ word' = [ptr |-> FALSE, canDrop |-> TRUE,
                   flags |-> IF hasLock THEN {"HAS_LOCK"} ELSE {}]
       /\ pc' = IF hasLock THEN "none" ELSE "fresh"
       /\ target' = t
  /\ scheduled' = FALSE
  /\ UNCHANGED <<storage, phase, seen, latest>>
  /\ UNCHANGED notified

-----------------------------------------------------------------------------
\* The notifier.

\* start() is called on nodes that do not have the lock; evict() on those
\* that do, and on those that wait within the total.
MayAdd(f) ==
  IF f = "HAS_LOCK"
    THEN "HAS_LOCK" \notin word.flags
    ELSE "HAS_LOCK" \in word.flags \/ "WANTS_EVICT" \in target

\* Mutant of AddFlag: notify() is not called.
AddFlagOnly(f) ==
  /\ notifier = "idle"
  /\ MayAdd(f)
  /\ word' = [word EXCEPT !.flags = @ \union {f}]
  /\ UNCHANGED <<notifier, old, inHand, scheduled>>
  /\ UNCHANGED owned

\* add_flag: the fetch_or of the flag; notify() only if a waker is there.
AddFlag(f) ==
  /\ notifier = "idle"
  /\ MayAdd(f)
  /\ word' = [word EXCEPT !.flags = @ \union {f}]
  /\ notifier' = IF word.ptr THEN "take" ELSE "idle"
  /\ UNCHANGED <<old, inHand, scheduled>>
  /\ UNCHANGED owned

\* Mutant of Take: CAN_DROP stays set while the waker is read.
TakePointerOnly ==
  /\ notifier = "take"
  /\ old' = [ptr |-> word.ptr, canDrop |-> word.canDrop]
  /\ word' = [word EXCEPT !.ptr = FALSE]
  /\ notifier' = IF word.ptr THEN "read" ELSE "restore"
  /\ UNCHANGED <<inHand, scheduled>>
  /\ UNCHANGED owned

\* notify: the fetch_and that takes the pointer and CAN_DROP.
Take ==
  /\ notifier = "take"
  /\ old' = [ptr |-> word.ptr, canDrop |-> word.canDrop]
  /\ word' = [word EXCEPT !.ptr = FALSE, !.canDrop = FALSE]
  /\ notifier' = IF word.ptr THEN "read" ELSE "restore"
  /\ UNCHANGED <<inHand, scheduled>>
  /\ UNCHANGED owned

\* notify: waker_ptr.read() moves the waker out of the owner's storage.
Read ==
  /\ notifier = "read"
  /\ inHand' = storage
  /\ storage' = NoWaker
  /\ notifier' = "restore"
  /\ UNCHANGED <<word, pc, phase, target, seen, latest, scheduled, old>>

\* Mutant of Restore: CAN_DROP is not set again.
RestoreNothing ==
  /\ notifier = "restore"
  /\ notifier' = IF inHand # NoWaker THEN "wake" ELSE "idle"
  /\ UNCHANGED <<word, old, inHand, scheduled>>
  /\ UNCHANGED owned

\* notify: CAN_DROP is set again if it was.
Restore ==
  /\ notifier = "restore"
  /\ word' = [word EXCEPT !.canDrop = @ \/ old.canDrop]
  /\ notifier' = IF inHand # NoWaker THEN "wake" ELSE "idle"
  /\ UNCHANGED <<old, inHand, scheduled>>
  /\ UNCHANGED owned

\* notify: waker.wake().  A waker of an earlier poll wakes nobody who waits.
Wake ==
  /\ notifier = "wake"
  /\ scheduled' = (scheduled \/ inHand = latest)
  /\ inHand' = NoWaker
  /\ notifier' = "idle"
  /\ UNCHANGED <<word, old>>
  /\ UNCHANGED owned

-----------------------------------------------------------------------------

Init ==
  /\ \E hasLock \in BOOLEAN, t \in SUBSET Flags :
       /\ Born(hasLock, t)
       /\ target = t
       /\ word = [ptr |-> FALSE, canDrop |-> TRUE,
                  flags |-> IF hasLock THEN {"HAS_LOCK"} ELSE {}]
       /\ pc = IF hasLock THEN "none" ELSE "fresh"
  /\ storage = NoWaker
  /\ phase = "poll"
  /\ seen = {}
  /\ latest \in Wakers
  /\ scheduled = FALSE
  /\ notifier = "idle"
  /\ old = [ptr |-> FALSE, canDrop |-> TRUE]
  /\ inHand = NoWaker

Owner ==
  \/ \E w \in Wakers : Poll(w)
  \/ DropWaker \/ SpinEnd \/ Write \/ Publish \/ Recheck
  \/ DropFuture \/ AwaitEviction \/ NewNode

Notifier ==
  \/ \E f \in Flags : AddFlag(f)
  \/ Take \/ Read \/ Restore \/ Wake

Next == Owner \/ Notifier

Spec == Init /\ [][Next]_vars

\* A poll or a notification under way goes on, and the executor polls a task
\* that was woken.
Fairness ==
  /\ WF_vars(DropWaker \/ SpinEnd \/ Write \/ Publish \/ Recheck)
  /\ WF_vars((\E w \in Wakers : Poll(w)) /\ scheduled)
  /\ WF_vars(Take \/ Read \/ Restore \/ Wake)

FairSpec == Spec /\ Fairness

-----------------------------------------------------------------------------

\* The state has its declared shape.
TypeOK ==
  /\ word \in [ptr : BOOLEAN, canDrop : BOOLEAN, flags : SUBSET Flags]
  /\ storage \in Wakers \union {NoWaker}
  /\ pc \in PCs
  /\ phase \in {"poll", "recheck", "drop"}
  /\ target \subseteq Flags
  /\ seen \subseteq Flags
  /\ latest \in Wakers
  /\ scheduled \in BOOLEAN
  /\ notifier \in NotifierPCs
  /\ old \in [ptr : BOOLEAN, canDrop : BOOLEAN]
  /\ inHand \in Wakers \union {NoWaker}

\* The unsynchronised read of the waker in notify() never meets a write, a
\* drop or the end of the storage: it finds a waker, and the owner parked,
\* spinning, or not yet at its storage again.
ReadIsSafe ==
  notifier = "read" => storage # NoWaker /\ pc \in {"parked", "recheck", "spin"}

\* Every waker cloned into the storage leaves it once: none is overwritten or
\* forgotten with the future, and assume_init_drop never meets one that was
\* moved out.
WakerDroppedOnce ==
  /\ pc \in {"none", "fresh", "ready", "write"} => storage = NoWaker
  /\ pc = "dropWaker" => storage # NoWaker

\* The comment on WAITER_FLAG_CAN_DROP: the flag "can never be false when a
\* waker is present", which lets the owner drop a waker it took back without
\* looking at it.
PointerImpliesCanDrop == word.ptr => word.canDrop /\ storage # NoWaker

\* The wake-up of the owner's latest poll is on its way.
WakeUnderWay ==
  \/ notifier = "take" /\ pc = "parked" /\ word.ptr /\ storage = latest
  \/ notifier = "read" /\ storage = latest
  \/ notifier \in {"restore", "wake"} /\ inHand = latest

\* A flag that ends the wait, set before, while or after the waker was stored,
\* wakes the owner with the waker of its latest poll.
NoLostWakeup ==
  pc = "parked" /\ word.flags \intersect target # {}
    => scheduled \/ WakeUnderWay

\* A poll is Ready only with a flag it waited for among those it returns;
\* acquire_within_total tells a grant from a refusal by them.
ReadyForAReason == pc = "ready" => seen \intersect target # {}

\* The busy-wait of clear_waker ends.
SpinTerminates == pc = "spin" ~> pc # "spin"

\* A parked owner whose wait is over is polled again, or drops its future.
FlagIsHeard ==
  pc = "parked" /\ word.flags \intersect target # {} ~> pc # "parked"

-----------------------------------------------------------------------------

(***************************************************************************)
(* Waiter implements AtomicWaiter.  The abstract flag is added, and the    *)
(* registration gone, with the fetch_or of add_flag; a poll begins with the*)
(* fetch_and of its clear_waker and ends with its last access to the word. *)
(***************************************************************************)
Future ==
  CASE pc \in {"dropWaker", "spin"} ->
         IF Return(phase, seen) = "write" THEN "polled" ELSE Return(phase, seen)
    [] pc \in {"write", "publish"} -> "polled"
    [] pc = "recheck" -> "ready"
    [] OTHER -> pc

Registered == pc = "parked" /\ word.ptr /\ notifier # "take"

Awake == scheduled \/ WakeUnderWay

Atomic ==
  INSTANCE AtomicWaiter WITH
    flags <- word.flags, future <- Future,
    registered <- Registered, awake <- Awake

ImplementsAtomicWaiter == Atomic!Spec
=============================================================================
