------------------------------ MODULE BoxQueue ------------------------------
(***************************************************************************)
(* The queue of queue/boxed.rs: each node is a box of its own, owned by    *)
(* the link that leads to it.  A handle is the address of the box, valid   *)
(* for as long as the box is allocated, and reused after that.             *)
(*                                                                         *)
(* The operations of the trait are called one at a time, but they are      *)
(* loops over links: each turn of a loop is an action.                     *)
(***************************************************************************)
EXTENDS LinkedQueue

CONSTANTS
  Boxes,    \* the addresses the allocator gives out
  Nil,      \* None
  NoData    \* what is in a box that is not allocated

ASSUME BoxAssumption == Nil \notin Boxes /\ NoData \notin Priorities

VARIABLES
  hasPrev,   \* HAS_PREV of the node type the queue is instantiated with
  use,       \* the lock that uses the queue
  head,      \* BoxQueue::head
  next,      \* the `next' of each node
  prev,      \* the `prev' of each node, if it has one
  data,      \* the data of each node
  pinned,    \* the node that has HAS_LOCK in a mutex, or Nil
  pc,        \* where the operation under way is
  node,      \* the node the operation is about, or Nil
  cur,       \* how far the loop has come: `curr', `node'; or Nil
  old,       \* history: the data of node before update_node
  order      \* history: the queue, as the sequence of its boxes

links == <<hasPrev, use, head, next, prev>>
vars  == <<links, data, pinned, pc, node, cur, old, order>>

(***************************************************************************)
(* idle    -- no operation is under way                                    *)
(* insert  -- `insert' was called                                          *)
(* walk    -- `insert' is following the links from the head                *)
(* drop    -- `dequeue' is looking for the box that links to its node      *)
(* find    -- `update_node' is                                             *)
(***************************************************************************)
PCs == {"idle", "insert", "walk", "drop", "find"}

\* The node is in no box's or the head's ownership, but in `insert's.
Apart == pc \in {"insert", "walk"}

\* compare_new of a newcomer with the data d and the node n.
Verdict(d, n) == VerdictOn(d, n = pinned, data[n])

\* The operation returns.
Return == pc' = "idle" /\ node' = Nil /\ cur' = Nil /\ old' = NoData

\* The box that is owned by the place before n: the link of p, or the head.
Owned(p) == IF p = Nil THEN head ELSE next[p]

-----------------------------------------------------------------------------
\* enqueue, and insert.

\* enqueue of d, up to its call of `insert'.
Enqueue(d) ==
  /\ pc = "idle"
  /\ \E n \in Boxes :
       /\ data[n] = NoData
       /\ data' = [data EXCEPT ![n] = d]
       /\ node' = n
       /\ pinned' = IF use = "mutex" /\ head = Nil THEN n ELSE pinned
  /\ pc' = "insert"
  /\ UNCHANGED <<links, cur, old, order>>

\* insert: the queue is empty, or its head is not the higher.
PlaceFirst ==
  /\ pc = "insert"
  /\ head # Nil => Verdict(data[node], head) # "Less"
  /\ next' = [next EXCEPT ![node] = head]
  /\ prev' = SetPrev(hasPrev, prev, head, node)
  /\ head' = node
  /\ order' = <<node>> \o Besides(order, node)
  /\ Return
  /\ UNCHANGED <<hasPrev, use, data, pinned>>

\* insert: the loop starts at the head.
StartAtHead ==
  /\ pc = "insert"
  /\ head # Nil
  /\ Verdict(data[node], head) = "Less"
  /\ cur' = head
  /\ pc' = "walk"
  /\ UNCHANGED <<links, data, pinned, node, old, order>>

\* The end of the loop in `insert': the node may follow n.
MayFollow(n) ==
  next[n] # Nil => Verdict(data[node], next[n]) # "Less"

\* Mutant of Walk: the loop does not move on.
WalkStays ==
  /\ pc = "walk"
  /\ ~MayFollow(cur)
  /\ UNCHANGED vars

\* insert: on to the next node.
Walk ==
  /\ pc = "walk"
  /\ ~MayFollow(cur)
  /\ cur' = next[cur]
  /\ UNCHANGED <<links, data, pinned, pc, node, old, order>>

\* insert: the place is found.
PlaceHere ==
  /\ pc = "walk"
  /\ MayFollow(cur)
  /\ next' = [next EXCEPT ![node] = next[cur], ![cur] = node]
  /\ prev' = SetPrev(hasPrev, SetPrev(hasPrev, prev, next[cur], node), node, cur)
  /\ order' = Behind(Besides(order, node), cur, node)
  /\ Return
  /\ UNCHANGED <<hasPrev, use, head, data, pinned>>

-----------------------------------------------------------------------------
\* dequeue of the box h, whose handle the caller has.  (For the mutex, also the
\* start of the next head in MutexGuard::drop.)

\* A pinned head is the one that leaves.
PassOn(h) == pinned' = IF h = pinned THEN next[h] ELSE pinned

\* The box b is deallocated: its links are gone with it.
Deallocated(f, b, none) == [f EXCEPT ![b] = none]

\* Mutant of DequeueDual: the node that follows is not linked back.
DequeueDualHalf(h) ==
  /\ head' = IF prev[h] = Nil THEN next[h] ELSE head
  /\ next' = [SetLink(next, prev[h], next[h]) EXCEPT ![h] = Nil]
  /\ prev' = Deallocated(prev, h, Nil)
  /\ data' = Deallocated(data, h, NoData)
  /\ PassOn(h)
  /\ order' = Dequeue(order, h)
  /\ UNCHANGED <<hasPrev, use, pc, node, cur, old>>

\* dequeue of a dual linked node.  What is dropped is whatever the place its
\* `prev' leads to has owned.
DequeueDual(h) ==
  LET gone == Owned(prev[h])
      free == [next EXCEPT ![h] = Nil, ![gone] = Nil]
  IN /\ head' = IF prev[h] = Nil THEN next[h] ELSE head
     /\ next' = SetLink(free, prev[h], next[h])
     /\ prev' = Deallocated(SetLink(prev, next[h], prev[h]), gone, Nil)
     /\ data' = Deallocated(data, gone, NoData)
     /\ PassOn(h)
     /\ order' = Dequeue(order, h)
     /\ UNCHANGED <<hasPrev, use, pc, node, cur, old>>

\* dequeue of a single linked node that is the head.
DequeueHead(h) ==
  /\ head' = next[h]
  /\ next' = Deallocated(next, h, Nil)
  /\ data' = Deallocated(data, h, NoData)
  /\ PassOn(h)
  /\ order' = Dequeue(order, h)
  /\ UNCHANGED <<hasPrev, use, prev, pc, node, cur, old>>

\* dequeue of a single linked node, up to the loop.
StartDrop(h) ==
  /\ pc' = "drop"
  /\ node' = h
  /\ cur' = head
  /\ UNCHANGED <<links, data, pinned, old, order>>

DequeueBox(h) ==
  /\ pc = "idle"
  /\ data[h] # NoData
  /\ IF hasPrev THEN DequeueDual(h)
     ELSE IF h = head THEN DequeueHead(h)
     ELSE StartDrop(h)

\* dequeue: the box that links to the node is found.
DropHere ==
  /\ pc = "drop"
  /\ next[cur] = node
  /\ next' = [next EXCEPT ![cur] = next[node], ![node] = Nil]
  /\ data' = Deallocated(data, node, NoData)
  /\ order' = Dequeue(order, node)
  /\ Return
  /\ UNCHANGED <<hasPrev, use, head, prev, pinned>>

\* dequeue, update_node: on to the next node.  There always is one: at the end
\* of the loops, dequeue would do nothing and update_node panic.
Seek ==
  /\ pc \in {"drop", "find"}
  /\ next[cur] \notin {node, Nil}
  /\ cur' = next[cur]
  /\ UNCHANGED <<links, data, pinned, pc, node, old, order>>

-----------------------------------------------------------------------------
\* update_node of the box h, with an update to d that returns true.

\* Mutant of Misplaced: the node that follows is not looked at.
MisplacedBehind(h, d, p) == p # Nil /\ Compare(d, data[p]) = "Greater"

\* The entry h does not belong behind p and before what follows it, now that
\* its data are d.
Misplaced(h, d, p) ==
  \/ p # Nil /\ Compare(d, data[p]) = "Greater"
  \/ next[h] # Nil /\ Compare(d, data[next[h]]) = "Less"

\* The same for a single linked head, which also gives way to an equal.
HeadMisplaced(h, d) == next[h] # Nil /\ Compare(d, data[next[h]]) # "Greater"

\* The node h, behind p, is taken out to be inserted anew.
TakeOut(h, p) ==
  /\ head' = IF p = Nil THEN next[h] ELSE head
  /\ next' = [SetLink(next, p, next[h]) EXCEPT ![h] = Nil]
  /\ prev' = SetPrev(hasPrev, SetPrev(hasPrev, prev, next[h], p), h, Nil)
  /\ pc' = "insert"

Update(h, d) ==
  /\ use = "semaphore"
  /\ pc = "idle"
  /\ data[h] # NoData
  /\ data' = [data EXCEPT ![h] = d]
  /\ LET isHead == h = head
     IN \/ /\ \/ hasPrev /\ Misplaced(h, d, prev[h])
              \/ ~hasPrev /\ isHead /\ HeadMisplaced(h, d)
           /\ TakeOut(h, IF hasPrev THEN prev[h] ELSE Nil)
           /\ node' = h /\ old' = data[h]
           /\ UNCHANGED cur
        \/ /\ \/ hasPrev /\ ~Misplaced(h, d, prev[h])
              \/ ~hasPrev /\ isHead /\ ~HeadMisplaced(h, d)
           /\ UNCHANGED <<head, next, prev, pc, node, cur, old>>
        \/ /\ ~hasPrev /\ ~isHead
           /\ pc' = "find" /\ cur' = head
           /\ node' = h /\ old' = data[h]
           /\ UNCHANGED <<head, next, prev>>
  /\ UNCHANGED <<hasPrev, use, pinned, order>>

\* update_node: the box that links to the node is found, and the node stays.
StayHere ==
  /\ pc = "find"
  /\ next[cur] = node
  /\ ~Misplaced(node, data[node], cur)
  /\ Return
  /\ UNCHANGED <<links, data, pinned, order>>

\* update_node: it is found, and the node has to move.
MoveFrom ==
  /\ pc = "find"
  /\ next[cur] = node
  /\ Misplaced(node, data[node], cur)
  /\ TakeOut(node, cur)
  /\ cur' = Nil
  /\ UNCHANGED <<hasPrev, use, data, pinned, node, old, order>>

\* update_node with an update that returns false, for the priority is the same.
Amend(h, d) ==
  /\ use = "semaphore"
  /\ pc = "idle"
  /\ data[h] # NoData
  /\ Compare(d, data[h]) = "Equal"
  /\ data' = [data EXCEPT ![h] = d]
  /\ UNCHANGED <<links, pinned, pc, node, cur, old, order>>

-----------------------------------------------------------------------------

\* Default and ConstDefault, for single and dual linked nodes.
Init ==
  /\ hasPrev \in BOOLEAN /\ use \in Uses
  /\ head = Nil
  /\ next = [n \in Boxes |-> Nil]
  /\ prev = [n \in Boxes |-> Nil]
  /\ data = [n \in Boxes |-> NoData] /\ pinned = Nil
  /\ pc = "idle" /\ node = Nil /\ cur = Nil /\ old = NoData
  /\ order = << >>

Step == \/ PlaceFirst \/ StartAtHead \/ Walk \/ PlaceHere
        \/ DropHere \/ Seek \/ StayHere \/ MoveFrom

Next ==
  \/ \E d \in Priorities : Enqueue(d)
  \/ \E h \in Boxes : DequeueBox(h)
  \/ \E h \in Boxes, d \in Priorities : Update(h, d) \/ Amend(h, d)
  \/ Step

Spec == Init /\ [][Next]_vars

\* The thread that calls an operation runs it to its end.
FairSpec == Spec /\ WF_vars(Step)

-----------------------------------------------------------------------------

\* The queue as far as the links have it: without a node that is apart.
Linked == IF Apart THEN Besides(order, node) ELSE order

\* The links spell the queue, forwards and, where there are such, backwards,
\* and the boxes allocated are those of the entries: no box is leaked, or
\* reached after it was dropped, whichever link owned it.
LinksAreQueue ==
  /\ Spells(Linked, head, next, Nil)
  /\ hasPrev => SpellsBack(Linked, prev, Nil)
  /\ \A b \in Boxes :
       data[b] # NoData <=> Queued(Linked, b) \/ (Apart /\ b = node)
  /\ Injective(order)

\* Every operation ends: the walk meets the end of the queue, and the loops of
\* dequeue and update_node the node whose handle they were given.
OperationsEnd == pc # "idle" ~> pc = "idle"

-----------------------------------------------------------------------------

(***************************************************************************)
(* BoxQueue implements AbstractQueue.  An operation takes effect when it   *)
(* returns: until then, an updated entry has its old data and place.       *)
(***************************************************************************)
Entries ==
  [i \in 1 .. Len(order) |->
     [handle |-> order[i],
      data   |-> IF order[i] = node /\ old # NoData THEN old ELSE data[order[i]],
      pinned |-> order[i] = pinned]]

Abstract == INSTANCE AbstractQueue WITH Handles <- Boxes, entries <- Entries

ImplementsQueue == Abstract!Spec
=============================================================================
