---------------------------- MODULE MCArenaQueue ----------------------------
(***************************************************************************)
(* ArenaQueue for TLC, with the data of a semaphore's waiting requests: by *)
(* priority, and on a tie a newcomer for fewer permits first.  These have  *)
(* every outcome of compare_new among entries of the same priority.        *)
(***************************************************************************)
EXTENDS ArenaQueue, Priority

Data == {<<1, 1>>, <<2, 1>>, <<2, 2>>, <<3, 1>>}

DataCompare(a, b)    == HighestFirst(a[1], b[1])
DataCompareNew(a, b) == Then(HighestFirst(a[1], b[1]), LowestFirst(a[2], b[2]))

\* A constraint for the queue built by ConstDefault: in a mutex, its first
\* entry's link leads out of the block.
InSemaphore == use = "semaphore"
=============================================================================
