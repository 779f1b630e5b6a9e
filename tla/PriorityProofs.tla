--------------------------- MODULE PriorityProofs ---------------------------
(***************************************************************************)
(* The disciplines of priority.rs meet the contract the locks assume, for  *)
(* all integers, and treat ties alike.                                     *)
(***************************************************************************)
EXTENDS Priority, TLAPS

Plain == INSTANCE PriorityQueue
  WITH Priorities <- Int, Compare <- HighestFirst, CompareNew <- HighestFirst

PlainLowest == INSTANCE PriorityQueue
  WITH Priorities <- Int, Compare <- LowestFirst, CompareNew <- LowestFirst

NewestLast == INSTANCE PriorityQueue
  WITH Priorities <- Int, Compare <- HighestFirst, CompareNew <- FIFONew

NewestLastLowest == INSTANCE PriorityQueue
  WITH Priorities <- Int, Compare <- LowestFirst, CompareNew <- FIFOLowestNew

NewestFirst == INSTANCE PriorityQueue
  WITH Priorities <- Int, Compare <- HighestFirst, CompareNew <- LIFONew

NewestFirstLowest == INSTANCE PriorityQueue
  WITH Priorities <- Int, Compare <- LowestFirst, CompareNew <- LIFOLowestNew

\* Ord's order, either way, as the three outcomes of a comparison.
LEMMA OrdIsTotal ==
  \A a, b \in Int :
    /\ HighestFirst(a, b) \in Ordering
    /\ HighestFirst(a, b) = "Greater" <=> a > b
    /\ HighestFirst(a, b) = "Less" <=> a < b
    /\ HighestFirst(a, b) = "Equal" <=> a = b
BY DEF HighestFirst, Ordering

\* A plain Ord type meets the contract of the trait Priority.
THEOREM PlainMeetsContract == Plain!Contract /\ Plain!TiesAlike
BY OrdIsTotal DEF Plain!Contract, Plain!TiesAlike, Ordering

\* LowestFirst of a plain Ord type meets the contract of the trait Priority.
THEOREM LowestMeetsContract == PlainLowest!Contract /\ PlainLowest!TiesAlike
BY OrdIsTotal DEF PlainLowest!Contract, PlainLowest!TiesAlike, Ordering, LowestFirst

\* FIFO and FIFO<LowestFirst> meet the contract: compare_new sends a newcomer
\* behind those that compare ties it with, all of them alike.
THEOREM FIFOMeetsContract ==
  /\ NewestLast!Contract /\ NewestLast!TiesAlike /\ NewestLast!TiesGoBehind
  /\ NewestLastLowest!Contract /\ NewestLastLowest!TiesAlike
  /\ NewestLastLowest!TiesGoBehind
BY OrdIsTotal
   DEF NewestLast!Contract, NewestLast!TiesAlike, NewestLast!TiesGoBehind,
       NewestLastLowest!Contract, NewestLastLowest!TiesAlike,
       NewestLastLowest!TiesGoBehind, Ordering, LowestFirst, Then, FIFONew, FIFOLowestNew

\* LIFO and LIFO<LowestFirst> meet it as well: newcomers go ahead of their equals.
THEOREM LIFOMeetsContract ==
  /\ NewestFirst!Contract /\ NewestFirst!TiesAlike /\ NewestFirst!TiesGoAhead
  /\ NewestFirstLowest!Contract /\ NewestFirstLowest!TiesAlike
  /\ NewestFirstLowest!TiesGoAhead
BY OrdIsTotal
   DEF NewestFirst!Contract, NewestFirst!TiesAlike, NewestFirst!TiesGoAhead,
       NewestFirstLowest!Contract, NewestFirstLowest!TiesAlike,
       NewestFirstLowest!TiesGoAhead, Ordering, LowestFirst, Then, LIFONew, LIFOLowestNew
=============================================================================
