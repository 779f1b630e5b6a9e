\* Three nodes, one priority, FIFO<O>, with eviction and total.
SPECIFICATION FairSpec
CONSTANTS
  n1 = n1
  n2 = n2
  n3 = n3
  Nodes <- ThreeNodes
  NoNode = NoNode
  Priorities <- OneLevel
  Compare <- HighestFirst
  CompareNew <- FIFONew
  Evict = TRUE
  Total = TRUE
  UsizeMax = 7
  Counts = {1, 2}
  MaxSupply = 3
PROPERTIES
  AnswersArrive
  HeldUpOnlyBriefly
