\* Up to four entries.
SPECIFICATION FairSpec
CONSTANTS
  Boxes = {b1, b2, b3, b4}
  Priorities <- Data
  Compare <- DataCompare
  CompareNew <- DataCompareNew
  Nil = Nil
  NoData = NoData
INVARIANTS
  LinksAreQueue
PROPERTIES
  OperationsEnd
  ImplementsQueue
