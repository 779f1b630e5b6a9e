------------------------------ MODULE Priority ------------------------------
(***************************************************************************)
(* The priority disciplines of priority.rs.  A discipline is a pair of     *)
(* comparisons: Compare orders two requests by priority alone, CompareNew  *)
(* places a request that is being queued against one that is already there *)
(* and may break ties.  Plain Ord types order by the larger value,         *)
(* LowestFirst reverses that, and the wrappers FIFO and LIFO keep the      *)
(* inner Compare and settle every tie of the inner CompareNew.             *)
(*                                                                         *)
(* Priorities are integers here: any totally ordered type (Ord) embeds in  *)
(* them as far as the comparisons can tell.                                *)
(***************************************************************************)
EXTENDS Integers

\* The three outcomes of core::cmp::Ordering.
Ordering == {"Less", "Equal", "Greater"}

\* Ordering::then: the second verdict settles a tie of the first.
Then(first, second) == IF first = "Equal" THEN second ELSE first

(***************************************************************************)
(* Ord::cmp, which is `compare' of every plain priority type; its          *)
(* compare_new is the default of the trait, compare itself.                *)
(***************************************************************************)
HighestFirst(a, b) ==
  CASE a < b -> "Less"
    [] a > b -> "Greater"
    [] OTHER -> "Equal"

\* LowestFirst<O>: Ord::cmp with its operands swapped.
LowestFirst(a, b) == HighestFirst(b, a)

\* Mutant of FIFOLowestNew: the tie is left to the queue.
FIFOLowestNewTies(a, b) == LowestFirst(a, b)

\* FIFO<O> and FIFO<LowestFirst<O>>: a tie sends the newcomer behind.
FIFONew(a, b)       == Then(HighestFirst(a, b), "Less")
FIFOLowestNew(a, b) == Then(LowestFirst(a, b), "Less")

\* Mutant of LIFONew: a tie sends the newcomer behind.
LIFONewBehind(a, b) == Then(HighestFirst(a, b), "Less")

\* LIFO<O> and LIFO<LowestFirst<O>>: a tie sends the newcomer ahead.
LIFONew(a, b)       == Then(HighestFirst(a, b), "Greater")
LIFOLowestNew(a, b) == Then(LowestFirst(a, b), "Greater")
=============================================================================
