--------------------------- MODULE PriorityQueue ----------------------------
(***************************************************************************)
(* The contract between the locks and the queue they are generic over: the *)
(* trait PriorityQueue of queue.rs and the trait Priority of priority.rs.  *)
(*                                                                         *)
(* A queue is a sequence of entries, the head first.  The traits leave     *)
(* open where a newcomer goes among entries it compares "Equal" to, so     *)
(* enqueueing is a choice among EnqueuePositions.                          *)
(***************************************************************************)
EXTENDS Integers, SequencesExt

CONSTANTS
  Priorities,        \* the priorities requests are made with
  Compare(_, _),     \* Priority::compare of the discipline in use
  CompareNew(_, _)   \* Priority::compare_new of the discipline in use

(***************************************************************************)
(* What the documentation of the trait Priority demands of a discipline.   *)
(* The requirement "must be transitive" is read for "not lower than",      *)
(* which is what Ord's total orders give.  Nothing is asked of CompareNew  *)
(* on priorities that are Equal.                                           *)
(***************************************************************************)
Contract ==
  /\ \A a, b \in Priorities :
       /\ {Compare(a, b), CompareNew(a, b)} \subseteq {"Less", "Equal", "Greater"}
       /\ Compare(a, b) = "Greater" <=> Compare(b, a) = "Less"
       /\ Compare(a, b) # "Equal" => CompareNew(a, b) = Compare(a, b)
  /\ \A a, b, c \in Priorities :
       Compare(a, b) # "Less" /\ Compare(b, c) # "Less"
         => Compare(a, c) # "Less"

ASSUME PriorityContract == Contract

(***************************************************************************)
(* What the trait does not demand and every discipline of priority.rs      *)
(* does: CompareNew makes no difference between priorities that are Equal. *)
(* The parts of a queue that CompareNew orders rely on it.                 *)
(***************************************************************************)
TiesAlike ==
  \A a, b, c \in Priorities :
    Compare(a, b) = "Equal" => /\ CompareNew(a, c) = CompareNew(b, c)
                               /\ CompareNew(c, a) = CompareNew(c, b)

\* FIFO: a newcomer goes behind those of its own priority.  LIFO: ahead of them.
TiesGoBehind ==
  \A a, b \in Priorities : Compare(a, b) = "Equal" => CompareNew(a, b) = "Less"

TiesGoAhead ==
  \A a, b \in Priorities : Compare(a, b) = "Equal" => CompareNew(a, b) = "Greater"

\* Mutant of EnqueuePositions: the search stops at the first entry that the
\* newcomer is not Greater than.
EnqueuePositionsAhead(q, verdict) ==
  { i \in 1 .. Len(q) + 1 :
      \A j \in 1 .. i - 1 : verdict[q[j]] # "Greater" }

(***************************************************************************)
(* The indices at which `enqueue' may place a new entry in the queue q,    *)
(* where verdict[d] is the newcomer's compare_new against the entry d: it  *)
(* may not be put behind an entry it is Greater than, nor before one it    *)
(* is Less than.                                                           *)
(***************************************************************************)
EnqueuePositions(q, verdict) ==
  { i \in 1 .. Len(q) + 1 :
      /\ \A j \in 1 .. i - 1 : verdict[q[j]] # "Greater"
      /\ \A j \in i .. Len(q) : verdict[q[j]] # "Less" }

\* The newcomer's verdicts on the queue q do not contradict each other: first
\* the entries it is Less than, then its equals, then those it is Greater than.
InAgreement(q, verdict) ==
  \A i, j \in 1 .. Len(q) :
    i < j => /\ verdict[q[i]] = "Greater" => verdict[q[j]] = "Greater"
             /\ verdict[q[i]] = "Equal" => verdict[q[j]] # "Less"

\* The index of the entry e of the queue q, found by its handle.
IndexOf(q, e) == CHOOSE i \in 1 .. Len(q) : q[i] = e

\* The queue q after `dequeue' of the entry e.
Dequeue(q, e) == RemoveAt(q, IndexOf(q, e))

\* The entry e is somewhere in the queue q.
Queued(q, e) == \E i \in 1 .. Len(q) : q[i] = e

\* Every entry of the queue q is there once.
Injective(q) == \A i, j \in 1 .. Len(q) : q[i] = q[j] => i = j

\* a comes before b in the queue q, which holds both.
Before(q, a, b) == \E i, j \in 1 .. Len(q) : i < j /\ q[i] = a /\ q[j] = b
=============================================================================
