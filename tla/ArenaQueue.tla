----------------------------- MODULE ArenaQueue -----------------------------
(***************************************************************************)
(* The queue of queue/arena.rs: the nodes lie in the slots of one block,   *)
(* which doubles when it is full, and are linked by their offsets.  An     *)
(* offset is modelled by its slot's index.                                 *)
(*                                                                         *)
(* The operations of the trait are called one at a time, but they are      *)
(* loops over slots and links: each turn of a loop is an action.           *)
(***************************************************************************)
EXTENDS LinkedQueue

CONSTANTS
  FirstSize,     \* the slots allocated at first: 4 in the code
  InitialHead,   \* the head of a new queue: SENTINEL by Default
  SENTINEL,      \* 1, which is no offset: nodes are aligned to 2
  UNALLOCATED,   \* usize::MAX, neither
  NoData,        \* what is in a slot that is not in use
  MaxUsed        \* the bound of the model on the entries there are at a time

ASSUME SizeAssumption == FirstSize \in Nat \ {0} /\ MaxUsed \in Nat
ASSUME OffsetAssumption ==
  /\ SENTINEL \notin Nat /\ UNALLOCATED \notin Nat /\ SENTINEL # UNALLOCATED
  /\ InitialHead \in {0, SENTINEL}
  /\ NoData \notin Priorities

VARIABLES
  hasPrev,   \* HAS_PREV of the node type the queue is instantiated with
  use,       \* the lock that uses the queue
  size,      \* ArenaQueue::size
  used,      \* ArenaQueue::used
  good,      \* ArenaQueue::good
  head,      \* ArenaQueue::head
  next,      \* the `next' of each slot
  prev,      \* the `prev' of each slot, if it has one
  data,      \* the data of each slot
  pinned,    \* the slot of the entry that has HAS_LOCK in a mutex, or SENTINEL
  pc,        \* where the operation under way is
  arg,       \* the data `emplace' finds a slot for
  idx,       \* idx_to_try of `emplace'
  after,     \* lowest_prio_prev of `emplace', `prev' of `insert'; or SENTINEL
  found,     \* found_prev of `emplace'
  node,      \* the node being placed, or SENTINEL
  old,       \* history: the data of node before update_node
  order      \* history: the queue, as the sequence of its slots

block == <<hasPrev, use, size, used, good, head, next, prev, data, pinned>>
local == <<pc, arg, idx, after, found, node, old>>
vars  == <<block, local, order>>

Slots == 0 .. size - 1

(***************************************************************************)
(* idle    -- no operation is under way                                    *)
(* emplace -- `emplace' is searching for a free slot                       *)
(* behind  -- `enqueue' has found a node to put the new one behind         *)
(* front   -- `insert' was called without a node to start from             *)
(* walk    -- `insert' is following the links from `after'                 *)
(***************************************************************************)
PCs == {"idle", "emplace", "behind", "front", "walk"}

\* compare_new of a newcomer with the data d and the slot s.
Verdict(d, s) == VerdictOn(d, s = pinned, data[s])

\* The operation returns.
Return ==
  /\ pc' = "idle" /\ arg' = NoData /\ idx' = 0
  /\ after' = SENTINEL /\ found' = FALSE
  /\ node' = SENTINEL /\ old' = NoData

-----------------------------------------------------------------------------
\* enqueue.

\* expand, to s slots: the new ones are marked as free, and tried first.
Expand(s) ==
  /\ size' = s
  /\ next' = [x \in 0 .. s - 1 |-> IF x \in Slots THEN next[x] ELSE UNALLOCATED]
  /\ prev' = [x \in 0 .. s - 1 |-> IF x \in Slots THEN prev[x] ELSE SENTINEL]
  /\ data' = [x \in 0 .. s - 1 |-> IF x \in Slots THEN data[x] ELSE NoData]
  /\ good' = size

\* Mutant of Enqueue: a block that is full does not grow.
EnqueueInFull(d) ==
  /\ pc = "idle"
  /\ used < MaxUsed
  /\ IF size = 0 THEN Expand(FirstSize) ELSE UNCHANGED <<size, next, prev, data, good>>
  /\ pc' = "emplace"
  /\ arg' = d
  /\ idx' = good'
  /\ UNCHANGED <<hasPrev, use, used, head, pinned, after, found, node, old, order>>

\* enqueue of d, up to the loop of `emplace'.
Enqueue(d) ==
  /\ pc = "idle"
  /\ used < MaxUsed
  /\ IF size = used
       THEN Expand(IF size = 0 THEN FirstSize ELSE 2 * size)
       ELSE UNCHANGED <<size, next, prev, data, good>>
  /\ pc' = "emplace"
  /\ arg' = d
  /\ idx' = good'
  /\ UNCHANGED <<hasPrev, use, used, head, pinned, after, found, node, old, order>>

\* emplace: the slot is taken; its entry may be one to start from.
TrySlot ==
  /\ pc = "emplace"
  /\ next[idx] # UNALLOCATED
  /\ idx' = (idx + 1) % size
  /\ LET verdict == Verdict(arg, idx)
         closer  == \/ after = SENTINEL
                    \/ Compare(data[idx], data[after]) = "Greater"
     IN IF ~found /\ (verdict = "Equal" \/ (verdict = "Less" /\ closer))
          THEN after' = idx /\ found' = (verdict = "Equal")
          ELSE UNCHANGED <<after, found>>
  /\ UNCHANGED <<block, pc, arg, node, old, order>>

\* emplace: the slot is free, and taken.
TakeSlot ==
  /\ pc = "emplace"
  /\ next[idx] = UNALLOCATED
  /\ good' = (idx + 1) % size
  /\ used' = used + 1
  /\ data' = [data EXCEPT ![idx] = arg]
  /\ node' = idx
  /\ pc' = IF found THEN "behind" ELSE IF after = SENTINEL THEN "front" ELSE "walk"
  /\ pinned' = IF use = "mutex" /\ used = 0 THEN idx ELSE pinned
  /\ UNCHANGED <<hasPrev, use, size, head, next, prev, arg, idx, after, found, old, order>>

\* Mutant of LinkBehind: the node that follows is not linked back.
LinkBehindHalf ==
  /\ next' = [next EXCEPT ![node] = next[after], ![after] = node]
  /\ prev' = SetPrev(hasPrev, prev, node, after)
  /\ order' = Behind(Besides(order, node), after, node)
  /\ Return
  /\ UNCHANGED <<hasPrev, use, size, used, good, head, data, pinned>>

\* The node is linked in behind `after'.
LinkBehind ==
  /\ next' = [next EXCEPT ![node] = next[after], ![after] = node]
  /\ prev' = SetPrev(hasPrev, SetPrev(hasPrev, prev, next[after], node), node, after)
  /\ order' = Behind(Besides(order, node), after, node)
  /\ Return
  /\ UNCHANGED <<hasPrev, use, size, used, good, head, data, pinned>>

\* enqueue: a node was found that the new one can follow.
PlaceBehind == pc = "behind" /\ LinkBehind

\* insert: the queue is empty, or its head is not the higher.
PlaceFirst ==
  /\ pc = "front"
  /\ head # SENTINEL => Verdict(data[node], head) # "Less"
  /\ next' = [next EXCEPT ![node] = head]
  /\ prev' = SetPrev(hasPrev, SetPrev(hasPrev, prev, node, SENTINEL), head, node)
  /\ head' = node
  /\ order' = <<node>> \o Besides(order, node)
  /\ Return
  /\ UNCHANGED <<hasPrev, use, size, used, good, data, pinned>>

\* insert: the search starts from the head.
StartAtHead ==
  /\ pc = "front"
  /\ head # SENTINEL
  /\ Verdict(data[node], head) = "Less"
  /\ after' = head
  /\ pc' = "walk"
  /\ UNCHANGED <<block, arg, idx, found, node, old, order>>

\* Mutant of MayFollow: the walk ends one node too late.
MayFollowEnd(n) == next[n] = SENTINEL

\* The end of the loop in `insert': the node may follow n.
MayFollow(n) ==
  next[n] # SENTINEL => Verdict(data[node], next[n]) # "Less"

\* insert: on to the next node.
Walk ==
  /\ pc = "walk"
  /\ ~MayFollow(after)
  /\ after' = next[after]
  /\ UNCHANGED <<block, pc, arg, idx, found, node, old, order>>

\* insert: the place is found.
PlaceHere == pc = "walk" /\ MayFollow(after) /\ LinkBehind

-----------------------------------------------------------------------------
\* dequeue and update_node, of a slot h whose handle the caller has.  (For the
\* mutex, also the start of the next head in MutexGuard::drop.)

\* prev_for, for a node that is not the head.
PrevFor(h) == IF hasPrev THEN prev[h] ELSE CHOOSE x \in Slots : next[x] = h

DequeueSlot(h) ==
  /\ pc = "idle"
  /\ h \in Slots /\ next[h] # UNALLOCATED
  /\ good' = h
  /\ used' = used - 1
  /\ data' = [data EXCEPT ![h] = NoData]
  /\ head' = IF h = head THEN next[h] ELSE head
  /\ next' = IF h = head
               THEN [next EXCEPT ![h] = UNALLOCATED]
               ELSE [next EXCEPT ![h] = UNALLOCATED, ![PrevFor(h)] = next[h]]
  \* (the free slot's own link is left over and not read)
  /\ prev' = SetPrev(hasPrev, SetPrev(hasPrev, prev, next[h], prev[h]), h, SENTINEL)
  /\ order' = Dequeue(order, h)
  /\ pinned' = IF h = pinned THEN next[h] ELSE pinned
  /\ UNCHANGED <<hasPrev, use, size>> /\ UNCHANGED local

\* The entry h does not belong where it is, now that its data are d.
Misplaced(h, d) ==
  \/ h # head /\ Compare(d, data[PrevFor(h)]) = "Greater"
  \/ next[h] # SENTINEL /\ Compare(d, data[next[h]]) = "Less"

\* reposition up to its call of `insert'.
Unlink(h) ==
  IF h = head
    THEN /\ head' = next[h]
         /\ prev' = SetPrev(hasPrev, prev, next[h], SENTINEL)
         /\ after' = next[h]
         /\ pc' = "walk"
         /\ UNCHANGED next
    ELSE /\ next' = [next EXCEPT ![PrevFor(h)] = next[h]]
         /\ prev' = SetPrev(hasPrev, prev, next[h], prev[h])
         /\ pc' = "front"
         /\ UNCHANGED <<head, after>>

\* update_node with an update to d that returns true.
Update(h, d) ==
  /\ use = "semaphore"
  /\ pc = "idle"
  /\ h \in Slots /\ next[h] # UNALLOCATED
  /\ data' = [data EXCEPT ![h] = d]
  /\ IF Misplaced(h, d)
       THEN Unlink(h) /\ node' = h /\ old' = data[h]
       ELSE UNCHANGED <<head, next, prev, after, pc, node, old>>
  /\ UNCHANGED <<hasPrev, use, size, used, good, pinned, arg, idx, found, order>>

\* update_node with an update that returns false, for the priority is the same.
Amend(h, d) ==
  /\ use = "semaphore"
  /\ pc = "idle"
  /\ h \in Slots /\ next[h] # UNALLOCATED
  /\ Compare(d, data[h]) = "Equal"
  /\ data' = [data EXCEPT ![h] = d]
  /\ UNCHANGED <<hasPrev, use, size, used, good, head, next, prev, pinned, local, order>>

-----------------------------------------------------------------------------

\* Default, and ConstDefault, for single and dual linked nodes.
Init ==
  /\ hasPrev \in BOOLEAN /\ use \in Uses
  /\ size = 0 /\ used = 0 /\ good = 0
  /\ head = InitialHead
  /\ next = << >> /\ prev = << >> /\ data = << >> /\ pinned = SENTINEL
  /\ pc = "idle" /\ arg = NoData /\ idx = 0
  /\ after = SENTINEL /\ found = FALSE
  /\ node = SENTINEL /\ old = NoData
  /\ order = << >>

Step == \/ TrySlot \/ TakeSlot
        \/ PlaceBehind \/ PlaceFirst \/ StartAtHead \/ Walk \/ PlaceHere

Next ==
  \/ \E d \in Priorities : Enqueue(d)
  \/ \E h \in Slots : DequeueSlot(h)
  \/ \E h \in Slots, d \in Priorities : Update(h, d) \/ Amend(h, d)
  \/ Step

Spec == Init /\ [][Next]_vars

\* The thread that calls an operation runs it to its end.
FairSpec == Spec /\ WF_vars(Step)

-----------------------------------------------------------------------------

\* The state has its declared shape.
TypeOK ==
  /\ hasPrev \in BOOLEAN /\ use \in Uses
  /\ size \in Nat /\ used \in 0 .. size /\ good \in Nat
  /\ head \in Slots \union {SENTINEL}
  /\ next \in [Slots -> Slots \union {SENTINEL, UNALLOCATED}]
  /\ prev \in [Slots -> Slots \union {SENTINEL}]
  /\ data \in [Slots -> Priorities \union {NoData}]
  /\ pinned \in Slots \union {SENTINEL}
  /\ pc \in PCs
  /\ arg \in Priorities \union {NoData}
  /\ idx \in Nat
  /\ after \in Slots \union {SENTINEL}
  /\ found \in BOOLEAN
  /\ node \in Slots \union {SENTINEL}
  /\ old \in Priorities \union {NoData}
  /\ order \in Seq(Slots)

\* The links spell the queue, forwards and, where there are such, backwards,
\* without the node that is being placed; the slots in use are those of the
\* entries, and `used', by which the block grows, is their number.
LinksAreQueue ==
  /\ Spells(Besides(order, node), head, next, SENTINEL)
  /\ hasPrev => SpellsBack(Besides(order, node), prev, SENTINEL)
  /\ \A s \in Slots : next[s] # UNALLOCATED <=> Queued(order, s)
  /\ Injective(order)
  /\ used = Len(order)
              + (IF node # SENTINEL /\ ~Queued(order, node) THEN 1 ELSE 0)

\* The queue is in priority order, whichever slots the entries are in, wherever
\* the search for a place started, and however their data were updated.
QueueInOrder == Descending(Besides(order, node), data, pinned)

\* "The sentinel value used in the last node in the queue": with no operation
\* under way, a queue that is not empty has a last node.
LastHasSentinel ==
  pc = "idle" /\ used > 0 => \E s \in Slots : next[s] = SENTINEL

\* Every operation ends: the search for a slot meets a free one, and the walk
\* along the links the end of the queue.
OperationsEnd == pc # "idle" ~> pc = "idle"

-----------------------------------------------------------------------------

(***************************************************************************)
(* ArenaQueue implements AbstractQueue.  An operation takes effect when it *)
(* returns: until then, an updated entry has its old data and place.       *)
(***************************************************************************)
Entries ==
  [i \in 1 .. Len(order) |->
     [handle |-> order[i],
      data   |-> IF order[i] = node THEN old ELSE data[order[i]],
      pinned |-> order[i] = pinned]]

Abstract ==
  INSTANCE AbstractQueue WITH
    Handles <- 0 .. FirstSize + 2 * MaxUsed, entries <- Entries

ImplementsQueue == Abstract!Spec
=============================================================================
