---------------------------- MODULE LinkedQueue -----------------------------
(***************************************************************************)
(* What ArenaQueue and BoxQueue have in common: nodes with a link to the   *)
(* next and, in a dual linked queue, one to the previous.  Links are       *)
(* functions from nodes to nodes or Nil.                                   *)
(***************************************************************************)
EXTENDS PriorityQueue

\* The link f of the node n set to m; links of no node are not there to set.
SetLink(f, n, m) == [x \in DOMAIN f |-> IF x = n THEN m ELSE f[x]]

\* set_prev: a no-op in a queue whose nodes have no such link.
SetPrev(dual, prev, n, m) == IF dual THEN SetLink(prev, n, m) ELSE prev

\* From head on, the links spell the sequence q.
Spells(q, head, next, nil) ==
  /\ head = IF q = << >> THEN nil ELSE Head(q)
  /\ \A i \in 1 .. Len(q) :
       next[q[i]] = IF i = Len(q) THEN nil ELSE q[i + 1]

\* So they do backwards.
SpellsBack(q, prev, nil) ==
  \A i \in 1 .. Len(q) : prev[q[i]] = IF i = 1 THEN nil ELSE q[i - 1]

\* The queue q without the node n, if it is in there.
Besides(q, n) == IF Queued(q, n) THEN Dequeue(q, n) ELSE q

\* The queue q with the node n behind the node p.
Behind(q, p, n) == InsertAt(q, IndexOf(q, p) + 1, n)

(***************************************************************************)
(* How a lock uses its queue.  The semaphore changes entries by            *)
(* update_node.  The mutex does not: the entry of an empty queue is made   *)
(* with HAS_LOCK, and MutexGuard::drop, which dequeues the head, starts the*)
(* next one, behind the back of the queue.  Newcomers are Less than the    *)
(* entry with that flag, which is so pinned to the head.                   *)
(***************************************************************************)
Uses == {"mutex", "semaphore"}

\* compare_new of a newcomer with the data d and an entry with the data e.
VerdictOn(d, isPinned, e) == IF isPinned THEN "Less" ELSE CompareNew(d, e)

\* The data of the queue q are in priority order, but for the node `pinned',
\* which is the first.
Descending(q, data, pinned) ==
  \A i, j \in 1 .. Len(q) :
    i < j => /\ q[j] # pinned
             /\ q[i] # pinned => Compare(data[q[j]], data[q[i]]) # "Greater"
=============================================================================
