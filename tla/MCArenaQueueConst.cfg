\* A queue built by ConstDefault.
SPECIFICATION Spec
CONSTANTS
  Priorities <- Data
  Compare <- DataCompare
  CompareNew <- DataCompareNew
  FirstSize = 4
  MaxUsed = 2
  SENTINEL = SENTINEL
  UNALLOCATED = UNALLOCATED
  NoData = NoData
  InitialHead = 0
CONSTRAINT InSemaphore
INVARIANTS
  LastHasSentinel
