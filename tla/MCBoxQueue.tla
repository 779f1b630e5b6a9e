----------------------------- MODULE MCBoxQueue -----------------------------
(***************************************************************************)
(* BoxQueue for TLC, with the data of MCArenaQueue.                        *)
(***************************************************************************)
EXTENDS BoxQueue, Priority

Data == {<<1, 1>>, <<2, 1>>, <<2, 2>>, <<3, 1>>}

DataCompare(a, b)    == HighestFirst(a[1], b[1])
DataCompareNew(a, b) == Then(HighestFirst(a[1], b[1]), LowestFirst(a[2], b[2]))
=============================================================================
