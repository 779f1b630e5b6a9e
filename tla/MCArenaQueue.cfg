\* Up to four entries; the block has one slot at first, then two, then four.
SPECIFICATION FairSpec
CONSTANTS
  Priorities <- Data
  Compare <- DataCompare
  CompareNew <- DataCompareNew
  FirstSize = 1
  MaxUsed = 4
  SENTINEL = SENTINEL
  UNALLOCATED = UNALLOCATED
  NoData = NoData
  InitialHead = SENTINEL
INVARIANTS
  LinksAreQueue
  QueueInOrder
PROPERTIES
  OperationsEnd
  ImplementsQueue
